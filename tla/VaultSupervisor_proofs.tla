---------------------- MODULE VaultSupervisor_proofs ----------------------
(***************************************************************************)
(* The rescue Vault daemon: proofs for any number of clients, faults and   *)
(* leases.                                                                 *)
(***************************************************************************)
EXTENDS VaultSupervisor, TLAPS

(***************************************************************************)
(* The shape of the state.                                                 *)
(***************************************************************************)
Operations == {"unlock", "lock", "mutate", "read"}
Commands == Operations \cup {"borrow", "attest"}
Vault == {"locked", "unlocking", "unlocked", "locking", "unavailable", "faulted"}
ServiceState == [vault : Vault, origin : BOOLEAN, busy : BOOLEAN, faulted : BOOLEAN,
                 required : BOOLEAN, clean : BOOLEAN]
Worker == [up : BOOLEAN, terminal : BOOLEAN, held : BOOLEAN]
BorrowLease == [id : Nat \ {0}, client : Clients,
                state : {"pending", "issued", "established", "revoking"}, final : BOOLEAN]

Revoking == {"revoke", "kill", "await"}
Dispatched == {"send", "reply", "finish", "attested"}
OwnerStages == {"gate", "prefault", "cancel_clean", "preclean", "arm", "rollback"}
                 \cup Dispatched \cup Revoking
PendingStages == {"ready", "cancel", "issue"}
UnlentStages == PendingStages \cup {"send", "reply", "finish"}
IssuedStages == {"send", "reply", "finish", "mount", "ambiguous", "deliver"}
BorrowStages == PendingStages \cup IssuedStages \cup {"monitor", "watch"} \cup Revoking
PlainStages == {"idle", "accepted", "fault", "worker", "contain", "serve", "stop", "drain",
                "join", "leave", "exit", "shutdown"} \cup Revoking
Thread == [at : OwnerStages \cup BorrowStages \cup PlainStages,
           op : Operations \cup {"borrow", "none"},
           code : {"none", "ok", "refused", "bad", "unkilled"}, lease : Nat,
           then : {"none", "arm", "worker", "drain", "serve", "fault", "idle"},
           back : {"idle", "join", "exit", "shutdown"}, sound : BOOLEAN, unmarked : BOOLEAN]

SharedType ==
    /\ daemon \in {"up", "ok", "error", "killed"}
    /\ svc \in ServiceState /\ (svc.faulted <=> svc.vault = "faulted")
    /\ stopping \in BOOLEAN
    /\ marker \in {"none", "partial", "whole"} /\ armed \in BOOLEAN
    /\ worker \in Worker /\ mapping \in {"closed", "open"}
    /\ inbox \in Seq([op : Commands, from : Clients])
    /\ replies \in Seq([to : Clients, op : Commands, code : {"ok", "refused", "bad"}])
    /\ lease \in BorrowLease \cup {NoLease} /\ nextLease \in Nat \ {0}
    /\ client \in [Clients -> {"live", "orphans", "gone"}] /\ holders \subseteq Clients
    /\ faults \in Nat
ThreadType == thread \in [Threads -> Thread]

(***************************************************************************)
(* The inductive invariant.  What a thread that is where the record r says *)
(* may rely on:                                                            *)
(***************************************************************************)
Live == daemon = "up" /\ ~svc.faulted

\* where its operation takes it, ...
StageOk(r) ==
    /\ r.op \in Operations => r.at \in OwnerStages
    /\ r.op = "borrow" => r.at \in BorrowStages /\ r.lease # 0
    /\ r.op = "none" => r.at \in PlainStages
    /\ r.at = "gate" => r.op = "unlock"
    /\ r.at \in {"idle", "accepted", "gate", "arm", "ready", "issue"} => r.code = "none"
    /\ r.at \in {"send", "reply"} /\ r.op = "borrow" => r.code = "none"
    /\ r.at \in Revoking =>
        /\ r.lease # 0
        /\ r.op \in Operations => /\ r.op = "lock" /\ r.then = "arm" /\ r.code \in {"none", "unkilled"}
                                  /\ r.at # "await" => r.code = "none"
        /\ r.op = "borrow" => r.then \in {"idle", "fault"}
        /\ r.op = "none" => r.then \in {"worker", "drain", "serve"}
    /\ r.lease < nextLease

\* ... that the service state is the one its operation left it in, that nobody is lent
\* a credential once it is past the revocation, that nothing is open before it asks for
\* it and nothing is after the attestation, ...
OwnerOk(r) ==
    Live /\ r.op \in Operations =>
        /\ Expected(r.op)
        /\ r.at \notin Revoking => lease = NoLease
        /\ r.at \in Revoking => lease = NoLease \/ lease.id = r.lease
        /\ r.op = "unlock" /\ r.at \in {"gate", "arm", "rollback"} => mapping = "closed"
        /\ r.at = "attested" /\ r.code # "bad" => mapping = "closed"

\* ... that the marker is there from the dispatch on, ...
MarkedOk(r) ==
    r.op = "lock" \/ (r.op = "unlock" /\ r.at \in Dispatched) => marker # "none"

\* ... that its lease is the one it asked for, in the state it brought it to unless it
\* is being revoked, ...
BorrowOk(c, r) ==
    r.op = "borrow" /\ r.lease = lease.id =>
        /\ lease.client = c
        /\ r.at \in PendingStages => lease.state \in {"pending", "revoking"}
        /\ r.at \in IssuedStages => lease.state \in {"issued", "revoking"}

\* ... and that the steps of the fault procedure before it were taken.
InFault(r) == r.at \in {"worker", "contain"} \/ (r.at \in Revoking /\ r.then = "worker")
ContainOk(r) ==
    /\ InFault(r) =>
        /\ svc.faulted
        /\ r.at \in Revoking => lease = NoLease \/ lease.id = r.lease
        /\ r.at \in {"worker", "contain"} /\ r.sound => lease = NoLease
        /\ r.at = "contain" /\ r.sound => ~worker.up
        /\ ~r.unmarked => marker # "none"
    /\ r.at \in {"cancel_clean", "preclean"} => svc.faulted

RecordOk(t, r) == StageOk(r) /\ OwnerOk(r) /\ MarkedOk(r) /\ BorrowOk(t, r) /\ ContainOk(r)
ThreadsOk == (\A t \in Threads : RecordOk(t, thread[t])) /\ thread[Main].op = "none"

\* One thread at a time has the service state, ...
Own(t) == thread[t].op \in Operations
OneOwner == Live => \A c, d \in Clients : Own(c) /\ Own(d) => c = d

\* ... and what is in the channel for or from it is what it is waiting for: nobody else's
\* command is going to be handled, and no old response is taken for a new one.
Borrows(s) == \A i \in 1..Len(s) : s[i].op = "borrow"
Awaited(op) == ~Free /\ \A c \in Clients : Own(c) => thread[c].at = "reply" /\ op = Command(c)
Channel ==
    Live =>
        /\ \A i \in 1..Len(inbox) : inbox[i].op # "borrow" => Awaited(inbox[i].op)
        /\ \A i \in 1..Len(replies) : replies[i].op # "borrow" =>
              /\ Awaited(replies[i].op)
              /\ replies[i].op = "attest" /\ replies[i].code = "ok" =>
                    mapping = "closed" \/ \A c \in Clients : ~Own(c)
        /\ \A i, j \in 1..Len(inbox) : inbox[i].op # "borrow" /\ inbox[j].op # "borrow" => i = j
        /\ \A i, j \in 1..Len(replies) :
              replies[i].op # "borrow" /\ replies[j].op # "borrow" => i = j
        /\ Borrows(inbox) \/ Borrows(replies)
Attestations ==
    \A i \in 1..Len(replies) : replies[i].op = "attest" => replies[i].code \in {"ok", "bad"}

\* The marker is there while the worker may open the Vault or close it, and while the
\* service is unlocked (but for the shutdown that failed behind the removal).
CommandsMarked ==
    worker.up => \A i \in 1..Len(inbox) : inbox[i].op \in {"unlock", "lock"} => marker # "none"
UnlockedMarked ==
    Live /\ svc.vault = "unlocked" =>
        \/ marker # "none"
        \/ /\ thread[Main].at = "fault"
           /\ \A c \in Clients : thread[c].at = "idle"

\* Leases have numbers of their own, a peer that is gone holds nothing, and a locked
\* Vault is closed and lent to nobody.
LeaseKept ==
    /\ lease # NoLease => lease.id < nextLease
    /\ \A c \in holders : client[c] # "gone"
    /\ Live /\ svc.vault = "locked" => lease = NoLease /\ mapping = "closed" /\ Free

\* The daemon shuts down behind its handlers, or behind a fault.
Leaving == thread[Main].at = "shutdown" => svc.faulted \/ \A c \in Clients : thread[c].at = "idle"

\* A fault is contained, is being contained, or ends the daemon.
Contained ==
    daemon = "up" /\ svc.faulted =>
        \/ stopping
        \/ ~worker.up /\ lease = NoLease /\ marker # "none"
        \/ \E t \in Threads : InFault(thread[t]) \/ thread[t].at = "fault"

\* A process that is gone has left nothing but the marker, the mapping and the peers.
Down ==
    daemon # "up" =>
        /\ svc = Serving("locked") /\ stopping = FALSE /\ armed = FALSE
        /\ worker = NoWorker /\ inbox = <<>> /\ replies = <<>> /\ lease = NoLease
        /\ thread = [t \in Threads |-> Idle]

DaemonInv ==
    /\ SharedType /\ ThreadType /\ ThreadsOk /\ OneOwner
    /\ Channel /\ Attestations /\ CommandsMarked
    /\ OpenIsMarked /\ UnlockedMarked /\ LeaseKept /\ CredentialLeased
    /\ Leaving /\ Contained /\ Down

\* What a Codex home relies on that is mounted while the lease is only issued: from the
\* command to the worker on, the lease is in the registry and cannot be released (the
\* thread has not closed its copy), a lease is marked, and nobody has been lent anything
\* before the home is mounted.
LoanOk(c, r) ==
    r.op = "borrow" =>
        /\ r.at \in IssuedStages => lease.id = r.lease /\ ~lease.final
        /\ r.at \in UnlentStages => c \notin holders
        /\ r.at = "mount" => r.code = "ok"
LeaseMarked == lease # NoLease => marker # "none"
LoanInv == LeaseMarked /\ \A c \in Clients : LoanOk(c, thread[c])

(***************************************************************************)
(* Facts about the records.                                                *)
(***************************************************************************)
\* The main thread is no client, and no lease is lent to it.
LEMMA MainApart ==
    /\ Main \in Threads /\ Main \notin Clients /\ Clients \subseteq Threads
    /\ NoLease.id = 0 /\ NoLease.client = Main /\ NoLease.state = "none"
    /\ NoLease \notin BorrowLease
    /\ Serving("locked").faulted = FALSE
<1>1. NoLease.client \notin Clients
  BY SupervisorAssumption DEF NoLease
<1>2. NoLease \notin BorrowLease
  BY <1>1 DEF BorrowLease
<1>. QED  BY <1>2, SupervisorAssumption DEF Threads, NoLease, Serving

\* A lease that is there has a number and a client.
LEMMA LeaseCases ==
    ASSUME SharedType, lease # NoLease
    PROVE  /\ lease \in BorrowLease /\ lease.id \in Nat /\ lease.id # 0 /\ lease.client \in Clients
           /\ lease.client # Main
BY MainApart DEF SharedType, BorrowLease

\* An idle thread, and one on its way into the fault procedure, rely on nothing.
FaultRecord(back) == [Idle EXCEPT !.at = "fault", !.back = back]

\* The record of an idle thread.
LEMMA IdleFields ==
    /\ Idle \in Thread /\ Idle.at = "idle" /\ Idle.op = "none" /\ Idle.code = "none"
    /\ Idle.lease = 0
BY DEF Idle, Thread, PlainStages

\* The record of a fault.
LEMMA FaultFields ==
    ASSUME NEW back \in {"idle", "join", "exit", "shutdown"}
    PROVE  /\ FaultRecord(back) \in Thread /\ FaultRecord(back).at = "fault"
           /\ FaultRecord(back).op = "none" /\ FaultRecord(back).lease = 0
           /\ FaultRecord(back).back = back
BY DEF FaultRecord, Idle, Thread, PlainStages

\* A record without an operation, a lease or a stage of a procedure relies on nothing.
LEMMA PlainRecord ==
    ASSUME SharedType, NEW t, NEW r \in Thread, r.op = "none", r.lease < nextLease,
           r.at \in PlainStages \ ({"worker", "contain"} \cup Revoking),
           r.at \in {"idle", "accepted"} => r.code = "none"
    PROVE  RecordOk(t, r)
<1>1. StageOk(r)
  BY DEF StageOk, PlainStages, Operations, Revoking
<1>2. OwnerOk(r) /\ MarkedOk(r) /\ BorrowOk(t, r)
  BY DEF OwnerOk, MarkedOk, BorrowOk, Operations
<1>3. ContainOk(r)
  BY DEF ContainOk, InFault, PlainStages, Revoking
<1>. QED  BY <1>1, <1>2, <1>3 DEF RecordOk

\* Idle and faulting threads.
LEMMA RestingRecords ==
    ASSUME SharedType, NEW t
    PROVE  /\ RecordOk(t, Idle)
           /\ \A back \in {"idle", "join", "exit", "shutdown"} : RecordOk(t, FaultRecord(back))
<1>1. 0 < nextLease
  BY DEF SharedType
<1>2. RecordOk(t, Idle)
  BY <1>1, IdleFields, PlainRecord DEF PlainStages, Revoking
<1>3. ASSUME NEW back \in {"idle", "join", "exit", "shutdown"}
      PROVE  RecordOk(t, FaultRecord(back))
  BY <1>1, FaultFields, PlainRecord DEF PlainStages, Revoking
<1>. QED  BY <1>2, <1>3

(***************************************************************************)
(* Quiet moves: one thread goes on; the marker may appear, the lease may   *)
(* be revoked or released, the peers may end, a stop may be requested.     *)
(***************************************************************************)
LeaseShrinks ==
    \/ lease' = lease
    \/ /\ lease # NoLease /\ lease' = NoLease
       /\ Live => holders' = {}
    \/ /\ lease # NoLease /\ lease' \in BorrowLease
       /\ lease'.id = lease.id /\ lease'.client = lease.client
       /\ lease'.state \in {lease.state, "revoking"}

\* The client may have been lent the credential: behind the marker and under the lease.
Lent(c) ==
    marker # "none" /\ (Live => lease.client = c /\ lease.state \in {"issued", "revoking"})

QuietShared ==
    /\ UNCHANGED <<daemon, svc, worker, inbox, replies, mapping, nextLease>>
    /\ marker' = marker \/ marker' # "none"
    /\ stopping => stopping'
    /\ LeaseShrinks
    /\ \A c \in holders' : client'[c] # "gone" /\ (c \in holders \/ Lent(c))
    /\ SharedType'

\* What a thread relies on stays true.
LEMMA QuietRecord ==
    ASSUME SharedType, QuietShared, NEW t, NEW r \in Thread, RecordOk(t, r)
    PROVE  RecordOk(t, r)'
<1>1. UNCHANGED <<daemon, svc, worker, mapping, nextLease>>
      /\ (marker' = marker \/ marker' # "none")
  BY DEF QuietShared
<1>2. /\ lease = NoLease => lease' = NoLease
      /\ lease' = NoLease \/ (lease'.id = lease.id /\ lease'.client = lease.client
                              /\ lease'.state \in {lease.state, "revoking"})
  BY MainApart DEF QuietShared, LeaseShrinks
<1>3. StageOk(r)'
  BY <1>1 DEF RecordOk, StageOk
<1>4. OwnerOk(r)'
  BY <1>1, <1>2 DEF RecordOk, OwnerOk, Live, Expected, validate_completion
<1>5. MarkedOk(r)'
  BY <1>1 DEF RecordOk, MarkedOk
<1>6. BorrowOk(t, r)'
  BY <1>2, MainApart DEF RecordOk, BorrowOk, StageOk
<1>7. ContainOk(r)'
  BY <1>1, <1>2 DEF RecordOk, ContainOk
<1>. QED  BY <1>3, <1>4, <1>5, <1>6, <1>7 DEF RecordOk

\* The conditions under which one thread may go on to the record r.
MayGo(t, r) ==
    /\ thread' = [thread EXCEPT ![t] = r]
    /\ t = Main => r.op = "none" /\ thread[t].at # "fault"
    /\ r.op \in Operations => thread[t].op = r.op /\ thread[t].at # "reply"
    /\ t # Main /\ thread[t].at = "idle" /\ r.at # "idle" => thread[Main].at = "serve"
    /\ t = Main /\ r.at = "shutdown" => svc.faulted \/ \A c \in Clients : thread[c].at = "idle"
    /\ InFault(thread[t]) \/ thread[t].at = "fault" =>
        \/ InFault(r) \/ r.at = "fault"
        \/ stopping'
        \/ ~worker.up /\ lease' = NoLease /\ marker' # "none"

\* The record of every thread after one has moved.
LEMMA MovedThreads ==
    ASSUME ThreadType, NEW t \in Threads, NEW r \in Thread, thread' = [thread EXCEPT ![t] = r]
    PROVE  /\ thread'[t] = r /\ \A u \in Threads : u # t => thread'[u] = thread[u]
           /\ ThreadType'
BY DEF ThreadType

\* The peers, the lease and the Vault after a quiet move.
LEMMA QuietState ==
    ASSUME DaemonInv, QuietShared
    PROVE  /\ Attestations' /\ CommandsMarked' /\ OpenIsMarked' /\ LeaseKept' /\ CredentialLeased'
<1>1. /\ UNCHANGED <<daemon, svc, worker, inbox, replies, mapping, nextLease>>
      /\ marker' = marker \/ marker' # "none"
      /\ \A c \in holders' : client'[c] # "gone" /\ (c \in holders \/ Lent(c))
      /\ LeaseShrinks
  BY DEF QuietShared
<1>2. Attestations' /\ CommandsMarked' /\ OpenIsMarked'
  BY <1>1 DEF DaemonInv, Attestations, CommandsMarked, OpenIsMarked, Lent
<1>3. LeaseKept'
  BY <1>1 DEF DaemonInv, LeaseKept, LeaseShrinks, Live, Free
<1>4. CredentialLeased'
  BY <1>1 DEF DaemonInv, CredentialLeased, LeaseShrinks, Live, Lent
<1>. QED  BY <1>2, <1>3, <1>4

\* A quiet move keeps the invariant.
LEMMA QuietMove ==
    ASSUME DaemonInv, daemon = "up", QuietShared, NEW t \in Threads, NEW r \in Thread,
           MayGo(t, r), RecordOk(t, r)'
    PROVE  DaemonInv'
<1>1. /\ SharedType /\ ThreadType /\ ThreadsOk /\ OneOwner /\ Channel /\ UnlockedMarked
      /\ Leaving /\ Contained
  BY DEF DaemonInv
<1>2. /\ thread'[t] = r /\ \A u \in Threads : u # t => thread'[u] = thread[u]
      /\ ThreadType'
  BY <1>1, MovedThreads DEF MayGo
<1>3. /\ UNCHANGED <<daemon, svc, worker, inbox, replies, mapping, nextLease>>
      /\ marker' = marker \/ marker' # "none"
      /\ stopping => stopping'
      /\ SharedType'
  BY DEF QuietShared
<1>4. ThreadsOk'
  <2>1. ASSUME NEW u \in Threads PROVE RecordOk(u, thread[u])'
    <3>1. CASE u = t
      <4>1. thread'[u] = r
        BY <1>2, <3>1
      <4>. QED  BY <3>1, <4>1 DEF RecordOk, StageOk, OwnerOk, MarkedOk, BorrowOk, ContainOk,
                InFault, Expected, validate_completion
    <3>2. CASE u # t
      <4>1. thread'[u] = thread[u] /\ thread[u] \in Thread /\ RecordOk(u, thread[u])
        BY <1>1, <1>2, <3>2 DEF ThreadsOk, ThreadType
      <4>2. ASSUME NEW q \in Thread, RecordOk(u, q) PROVE RecordOk(u, q)'
        BY <1>1, <4>2, QuietRecord
      <4>. QED  BY <4>1, <4>2 DEF RecordOk, StageOk, OwnerOk, MarkedOk, BorrowOk, ContainOk,
                InFault, Expected, validate_completion
    <3>. QED  BY <3>1, <3>2
  <2>2. thread'[Main].op = "none"
    BY <1>1, <1>2, MainApart DEF ThreadsOk, MayGo
  <2>. QED  BY <2>1, <2>2 DEF ThreadsOk
<1>5. \A c \in Clients : Own(c)' => Own(c)
  BY <1>2, MainApart DEF Own, MayGo
<1>6. OneOwner'
  BY <1>1, <1>3, <1>5 DEF OneOwner, Live
<1>7. Channel'
  <2>. SUFFICES ASSUME Live' PROVE Channel'
    BY DEF Channel
  <2>1. Live
    BY <1>3 DEF Live
  <2>2. ASSUME NEW op, Awaited(op) PROVE Awaited(op)'
    <3>1. ASSUME NEW c \in Clients, Own(c)'
          PROVE  thread'[c].at = "reply" /\ op = Command(c)'
      <4>1. Own(c) /\ thread[c].at = "reply" /\ op = Command(c)
        BY <1>5, <2>2, <3>1 DEF Awaited
      <4>2. c # t
        BY <1>2, <3>1, <4>1, MainApart DEF Own, MayGo
      <4>3. thread'[c] = thread[c]
        BY <1>2, <4>2, MainApart
      <4>. QED  BY <4>1, <4>3 DEF Command
    <3>. QED  BY <1>3, <2>2, <3>1 DEF Awaited, Free
  <2>. QED  BY <1>1, <1>3, <1>5, <2>1, <2>2 DEF Channel, Borrows
<1>8. UnlockedMarked' /\ Leaving'
  <2>1. ASSUME \A c \in Clients : thread[c].at = "idle", thread[Main].at # "serve"
        PROVE  \A c \in Clients : thread'[c].at = "idle"
    BY <1>2, <2>1, MainApart DEF MayGo
  <2>2. Leaving'
    <3>1. CASE t = Main
      BY <1>2, <1>3, <3>1, MainApart DEF Leaving, MayGo
    <3>2. CASE t # Main
      BY <1>1, <1>2, <1>3, <2>1, <3>2, MainApart DEF Leaving
    <3>. QED  BY <3>1, <3>2
  <2>3. thread[Main].at = "fault" => thread'[Main].at = "fault"
    BY <1>2, MainApart DEF MayGo
  <2>4. UnlockedMarked'
    BY <1>1, <1>3, <2>1, <2>3 DEF UnlockedMarked, Live
  <2>. QED  BY <2>2, <2>4
<1>9. Contained'
  <2>1. lease = NoLease => lease' = NoLease
    BY DEF QuietShared, LeaseShrinks
  <2>2. CASE stopping \/ (~worker.up /\ lease = NoLease /\ marker # "none")
    BY <1>3, <2>1, <2>2 DEF Contained
  <2>3. ASSUME NEW u \in Threads, InFault(thread[u]) \/ thread[u].at = "fault"
        PROVE  Contained'
    <3>1. CASE u = t
      BY <1>2, <1>3, <2>3, <3>1 DEF Contained, MayGo, InFault
    <3>2. CASE u # t
      BY <1>2, <2>3, <3>2 DEF Contained, InFault
    <3>. QED  BY <3>1, <3>2
  <2>. QED  BY <1>1, <1>3, <2>2, <2>3 DEF Contained
<1>10. Down'
  BY <1>3 DEF Down
<1>. QED  BY <1>2, <1>3, <1>4, <1>6, <1>7, <1>8, <1>9, <1>10, QuietState DEF DaemonInv

\* A quiet move of a handler into a record that already could have been its own.
LEMMA GoesOn ==
    ASSUME DaemonInv, daemon = "up", QuietShared, NEW c \in Clients, NEW r \in Thread,
           thread' = [thread EXCEPT ![c] = r], r.op = thread[c].op,
           thread[c].at \notin {"idle", "fault"}, ~InFault(thread[c]),
           r.op = "borrow" \/ thread[c].at # "reply",
           RecordOk(c, r)
    PROVE  DaemonInv'
<1>1. RecordOk(c, r)'
  BY QuietRecord DEF DaemonInv
<1>2. MayGo(c, r)
  BY MainApart DEF MayGo, Operations
<1>. QED  BY <1>1, <1>2, QuietMove, MainApart

\* A handler that ends.
LEMMA GoesIdle ==
    ASSUME DaemonInv, daemon = "up", QuietShared, NEW c \in Clients, Done(c),
           thread[c].at # "fault", ~InFault(thread[c])
    PROVE  DaemonInv'
<1>1. PICK r \in Thread : r = Idle
  BY IdleFields
<1>2. RecordOk(c, r)
  BY <1>1, RestingRecords DEF DaemonInv
<1>3. RecordOk(c, r)'
  BY <1>2, QuietRecord DEF DaemonInv
<1>4. MayGo(c, r)
  BY <1>1, MainApart, IdleFields DEF MayGo, Done, Operations
<1>. QED  BY <1>3, <1>4, QuietMove, MainApart

\* A thread that enters the fault procedure.
LEMMA GoesToFault ==
    ASSUME DaemonInv, daemon = "up", QuietShared, NEW t \in Threads,
           NEW back \in {"idle", "join", "exit", "shutdown"}, Fault(t, back),
           thread[t].at \notin {"idle", "fault"}
    PROVE  DaemonInv'
<1>1. PICK r \in Thread : r = FaultRecord(back)
  BY FaultFields
<1>2. RecordOk(t, r)
  BY <1>1, RestingRecords DEF DaemonInv
<1>3. RecordOk(t, r)'
  BY <1>2, QuietRecord DEF DaemonInv
<1>4. MayGo(t, r)
  BY <1>1, MainApart, FaultFields DEF MayGo, Fault, Operations, FaultRecord
<1>. QED  BY <1>3, <1>4, QuietMove

\* The main thread on its way.
LEMMA MainGoesOn ==
    ASSUME DaemonInv, daemon = "up", QuietShared, NEW r \in Thread,
           thread' = [thread EXCEPT ![Main] = r], r.op = "none",
           thread[Main].at \notin {"fault", "worker", "contain"}, ~InFault(thread[Main]),
           r.at = "shutdown" => svc.faulted \/ \A c \in Clients : thread[c].at = "idle",
           RecordOk(Main, r)
    PROVE  DaemonInv'
<1>1. RecordOk(Main, r)'
  BY QuietRecord DEF DaemonInv
<1>2. MayGo(Main, r)
  BY MainApart DEF MayGo, Operations
<1>. QED  BY <1>1, <1>2, QuietMove, MainApart

\* The steps that touch nothing but the marker, the count of failures and the stop.
MarkerGrows ==
    /\ marker' \in {"none", "partial", "whole"} /\ armed' \in BOOLEAN /\ faults' \in Nat
    /\ marker' = marker \/ marker' # "none"

\* An arm, successful or not, and a step beside the marker only ever add it.
LEMMA MarkerSteps ==
    ASSUME SharedType
    PROVE  /\ arm_lifecycle => MarkerGrows /\ marker' = "whole"
           /\ ArmFails => MarkerGrows
           /\ UNCHANGED disk /\ (Fails \/ Works) => MarkerGrows
<1>1. marker \in {"none", "partial", "whole"} /\ armed \in BOOLEAN /\ faults \in Nat
  BY DEF SharedType
<1>2. arm_lifecycle => MarkerGrows /\ marker' = "whole"
  BY <1>1 DEF arm_lifecycle, Works, MarkerGrows
<1>3. Fails \/ Works => faults' \in Nat
  BY <1>1 DEF Fails, Works
<1>4. ArmFails => MarkerGrows
  <2>. SUFFICES ASSUME ArmFails PROVE MarkerGrows
    OBVIOUS
  <2>1. faults' \in Nat
    BY <1>3 DEF ArmFails
  <2>2. CASE marker = "none"
    BY <1>1, <2>1, <2>2 DEF ArmFails, MarkerGrows
  <2>3. CASE marker # "none"
    BY <1>1, <2>1, <2>3 DEF ArmFails, MarkerGrows
  <2>. QED  BY <2>2, <2>3
<1>5. UNCHANGED disk /\ (Fails \/ Works) => MarkerGrows
  BY <1>1, <1>3 DEF disk, MarkerGrows
<1>. QED  BY <1>2, <1>4, <1>5

\* What such a step is to the others.
LEMMA Undisturbed ==
    ASSUME DaemonInv, UNCHANGED <<daemon, svc, wire, loan, peer>>, MarkerGrows,
           stopping' \in BOOLEAN, stopping => stopping'
    PROVE  QuietShared
<1>1. SharedType'
  BY DEF DaemonInv, SharedType, wire, loan, peer, MarkerGrows
<1>2. \A c \in holders' : client'[c] # "gone"
  BY DEF DaemonInv, LeaseKept, peer
<1>. QED  BY <1>1, <1>2 DEF QuietShared, LeaseShrinks, wire, loan, peer, MarkerGrows

\* A step that changes no shared state at all.
LEMMA Unmoved ==
    ASSUME DaemonInv, UNCHANGED <<daemon, svc, stopping, disk, wire, loan, peer, faults>>
    PROVE  QuietShared
<1>1. MarkerGrows /\ stopping' \in BOOLEAN
  BY DEF DaemonInv, SharedType, MarkerGrows, disk
<1>. QED  BY <1>1, Undisturbed

\* A step that changes the lease alone, to less.
LEMMA LeaseStep ==
    ASSUME DaemonInv, UNCHANGED <<daemon, svc, stopping, disk, wire, nextLease, peer>>,
           faults' \in Nat, LeaseShrinks
    PROVE  QuietShared
<1>1. lease' \in BorrowLease \cup {NoLease}
  BY DEF DaemonInv, SharedType, LeaseShrinks
<1>2. SharedType'
  BY <1>1 DEF DaemonInv, SharedType, wire, peer, disk
<1>3. \A c \in holders' : client'[c] # "gone"
  BY DEF DaemonInv, LeaseKept, peer
<1>. QED  BY <1>2, <1>3 DEF QuietShared, wire, peer, disk

(***************************************************************************)
(* The quiet steps of the handlers.                                        *)
(***************************************************************************)
Stages == OwnerStages \cup BorrowStages \cup PlainStages
SameBut(q, r) ==
    /\ r.op = q.op /\ r.code = q.code /\ r.lease = q.lease /\ r.then = q.then
    /\ r.back = q.back /\ r.sound = q.sound /\ r.unmarked = q.unmarked

\* A thread that goes to another stage keeps the rest of its record.
LEMMA GoRecord ==
    ASSUME ThreadType, NEW t \in Threads, NEW a \in Stages, Go(t, a)
    PROVE  \E r \in Thread : /\ thread' = [thread EXCEPT ![t] = r]
                             /\ r.at = a /\ SameBut(thread[t], r)
<1>. DEFINE r == [thread[t] EXCEPT !.at = a]
<1>1. thread[t] \in Thread
  BY DEF ThreadType
<1>2. r \in Thread /\ r.at = a /\ SameBut(thread[t], r)
  BY <1>1 DEF Thread, Stages, SameBut
<1>3. thread' = [thread EXCEPT ![t] = r]
  BY DEF Go
<1>. QED  BY <1>2, <1>3

\* A thread that turns to a revocation keeps all but the stage, the lease and what follows.
LEMMA RevokeRecord ==
    ASSUME ThreadType, NEW t \in Threads, NEW l \in Nat,
           NEW then \in {"none", "arm", "worker", "drain", "serve", "fault", "idle"},
           Revoke(t, l, then)
    PROVE  \E r \in Thread : /\ thread' = [thread EXCEPT ![t] = r]
                             /\ r.at = "revoke" /\ r.lease = l /\ r.then = then
                             /\ r.op = thread[t].op /\ r.code = thread[t].code
                             /\ r.back = thread[t].back /\ r.sound = thread[t].sound
                             /\ r.unmarked = thread[t].unmarked
<1>. DEFINE r == [thread[t] EXCEPT !.at = "revoke", !.lease = l, !.then = then]
<1>1. thread[t] \in Thread
  BY DEF ThreadType
<1>2. r \in Thread
  BY <1>1 DEF Thread, PlainStages, Revoking
<1>3. r.at = "revoke" /\ r.lease = l /\ r.then = then
      /\ r.op = thread[t].op /\ r.code = thread[t].code
      /\ r.back = thread[t].back /\ r.sound = thread[t].sound
      /\ r.unmarked = thread[t].unmarked
  BY <1>1 DEF Thread
<1>4. thread' = [thread EXCEPT ![t] = r]
  BY DEF Revoke
<1>. QED  BY <1>2, <1>3, <1>4

\* What the invariant says of the record of a thread.
LEMMA RecordFacts ==
    ASSUME DaemonInv, NEW t \in Threads
    PROVE  /\ thread[t] \in Thread /\ RecordOk(t, thread[t])
           /\ SharedType /\ ThreadType /\ thread[Main].op = "none"
BY DEF DaemonInv, ThreadsOk, ThreadType

\* Accepting a connection.
LEMMA AcceptInv ==
    ASSUME DaemonInv, NEW c \in Clients, accept_connection(c)
    PROVE  DaemonInv'
<1>1. /\ daemon = "up" /\ thread[c].at = "idle" /\ thread[Main].at = "serve" /\ Go(c, "accepted")
      /\ QuietShared
  BY Unmoved DEF accept_connection, At
<1>2. /\ thread[c] \in Thread /\ RecordOk(c, thread[c]) /\ SharedType /\ ThreadType
  BY RecordFacts, MainApart
<1>3. PICK r \in Thread : /\ thread' = [thread EXCEPT ![c] = r]
                          /\ r.at = "accepted" /\ SameBut(thread[c], r)
  BY <1>1, <1>2, GoRecord, MainApart DEF Stages, PlainStages
<1>4. r.op = "none" /\ r.lease < nextLease /\ r.code = "none"
  BY <1>1, <1>2, <1>3 DEF RecordOk, StageOk, SameBut, Thread, OwnerStages, BorrowStages,
     PendingStages, IssuedStages, Dispatched, Revoking
<1>5. RecordOk(c, r)
  BY <1>2, <1>3, <1>4, PlainRecord DEF PlainStages, Revoking
<1>6. RecordOk(c, r)'
  BY <1>1, <1>2, <1>5, QuietRecord
<1>7. MayGo(c, r)
  BY <1>1, <1>3, <1>4, MainApart DEF MayGo, Operations, InFault, Revoking
<1>. QED  BY <1>1, <1>6, <1>7, QuietMove, MainApart

\* Refusing one, and sending one into a fault that is there.
LEMMA RefuseInv ==
    ASSUME DaemonInv, NEW c \in Clients, Refuse(c) \/ FaultedRequest(c)
    PROVE  DaemonInv'
<1>1. QuietShared /\ daemon = "up" /\ thread[c].at = "accepted"
  BY Unmoved DEF Refuse, FaultedRequest, At
<1>2. CASE Refuse(c)
  BY <1>1, <1>2, GoesIdle DEF Refuse, InFault, Revoking
<1>3. CASE FaultedRequest(c)
  BY <1>1, <1>3, GoesToFault, MainApart DEF FaultedRequest
<1>. QED  BY <1>2, <1>3

\* Without a lease, and without a fault, nobody holds a credential.
LEMMA NothingLent ==
    ASSUME DaemonInv, Live, lease.state \notin {"issued", "established", "revoking"}
    PROVE  holders = {}
BY DEF DaemonInv, CredentialLeased, Live

\* The secret gate, but for its refusal.
LEMMA SecretGateQuiet ==
    ASSUME DaemonInv, NEW c \in Clients, SecretGate(c), UNCHANGED svc
    PROVE  DaemonInv'
<1>1. daemon = "up" /\ thread[c].at = "gate" /\ QuietShared
  <2>1. Fails \/ Works
    BY DEF SecretGate
  <2>2. MarkerGrows
    BY <2>1, MarkerSteps DEF SecretGate, DaemonInv
  <2>. QED  BY <2>2, Undisturbed DEF SecretGate, At, DaemonInv, SharedType
<1>2. /\ thread[c] \in Thread /\ RecordOk(c, thread[c]) /\ SharedType /\ ThreadType
  BY RecordFacts, MainApart
<1>3. thread[c].op = "unlock" /\ thread[c].code = "none" /\ ~InFault(thread[c])
  BY <1>1, <1>2 DEF RecordOk, StageOk, InFault, Revoking
<1>4. ASSUME NEW a \in {"prefault", "arm"}, Go(c, a) PROVE DaemonInv'
  <2>1. PICK r \in Thread : /\ thread' = [thread EXCEPT ![c] = r]
                            /\ r.at = a /\ SameBut(thread[c], r)
    BY <1>2, <1>4, GoRecord, MainApart DEF Stages, OwnerStages
  <2>2. r.op = "unlock" /\ r.code = "none" /\ r.lease = thread[c].lease
    BY <1>3, <2>1 DEF SameBut
  <2>3. StageOk(r)
    BY <1>2, <2>1, <2>2 DEF RecordOk, StageOk, OwnerStages, Operations, Revoking
  <2>4. OwnerOk(r)
    BY <1>1, <1>2, <1>3, <2>1, <2>2 DEF RecordOk, OwnerOk, Operations, Revoking
  <2>5. MarkedOk(r) /\ BorrowOk(c, r) /\ ContainOk(r)
    BY <2>1, <2>2 DEF MarkedOk, BorrowOk, ContainOk, Dispatched, InFault, Revoking
  <2>. QED  BY <1>1, <1>3, <2>1, <2>2, <2>3, <2>4, <2>5, GoesOn DEF RecordOk
<1>5. CASE Done(c)
  BY <1>1, <1>3, <1>5, GoesIdle
<1>6. CASE Fault(c, "idle")
  BY <1>1, <1>6, GoesToFault, MainApart
<1>. QED  BY <1>4, <1>5, <1>6 DEF SecretGate

\* The arm: the marker is there before the command, and nothing is dispatched without it.
LEMMA DispatchArmInv ==
    ASSUME DaemonInv, NEW c \in Clients, DispatchArm(c)
    PROVE  DaemonInv'
<1>. DEFINE op == thread[c].op
<1>1. daemon = "up" /\ thread[c].at = "arm"
  BY DEF DispatchArm, At
<1>2. /\ thread[c] \in Thread /\ RecordOk(c, thread[c]) /\ SharedType /\ ThreadType
  BY RecordFacts, MainApart
<1>3. op \in Operations /\ thread[c].code = "none" /\ ~InFault(thread[c])
  BY <1>1, <1>2 DEF RecordOk, StageOk, InFault, Revoking, BorrowStages, PlainStages, Thread,
     PendingStages, IssuedStages
<1>4. MarkerGrows
  <2>1. \/ UNCHANGED disk /\ (Fails \/ Works)
        \/ arm_lifecycle \/ ArmFails
    BY DEF DispatchArm, Works
  <2>. QED  BY <1>2, <2>1, MarkerSteps
<1>5. QuietShared
  <2>1. CASE UNCHANGED <<client, holders>>
    <3>1. stopping' \in BOOLEAN /\ (stopping => stopping')
      BY <1>2 DEF DispatchArm, SharedType
    <3>. QED  BY <1>4, <2>1, <3>1, Undisturbed DEF DispatchArm, peer
  <2>2. CASE ~UNCHANGED <<client, holders>>
    <3>1. /\ Expected(op) /\ client' = [client EXCEPT ![c] = "gone"]
          /\ UNCHANGED <<stopping, holders>>
      BY <2>2 DEF DispatchArm, peer
    <3>2. lease = NoLease /\ Live
      BY <1>1, <1>2, <1>3, <3>1 DEF RecordOk, OwnerOk, Live, Expected, validate_completion,
         Revoking
    <3>3. holders = {}
      BY <3>2, NothingLent, MainApart
    <3>4. UNCHANGED <<daemon, svc, worker, inbox, replies, mapping, lease, nextLease>>
      BY DEF DispatchArm, wire, loan
    <3>5. SharedType'
      <4>1. client' \in [Clients -> {"live", "orphans", "gone"}]
        BY <1>2, <3>1 DEF SharedType
      <4>. QED  BY <1>2, <1>4, <3>1, <3>4, <4>1 DEF SharedType, MarkerGrows
    <3>. QED  BY <1>4, <3>1, <3>3, <3>4, <3>5 DEF QuietShared, LeaseShrinks, MarkerGrows
  <2>. QED  BY <2>1, <2>2
<1>6. ASSUME NEW a \in {"rollback", "send"}, Go(c, a),
             a = "send" => op = "read" \/ marker' = "whole"
      PROVE  DaemonInv'
  <2>1. PICK r \in Thread : /\ thread' = [thread EXCEPT ![c] = r]
                            /\ r.at = a /\ SameBut(thread[c], r)
    BY <1>2, <1>6, GoRecord, MainApart DEF Stages, OwnerStages, Dispatched
  <2>2. r.op = thread[c].op /\ r.code = "none" /\ r.lease = thread[c].lease
    BY <1>3, <2>1 DEF SameBut
  <2>3. StageOk(r)'
    <3>1. StageOk(r)
      BY <1>2, <1>3, <2>1, <2>2 DEF RecordOk, StageOk, OwnerStages, Operations, Revoking,
         Dispatched
    <3>. QED  BY <1>5, <3>1 DEF QuietShared, StageOk
  <2>4. OwnerOk(r)'
    <3>1. OwnerOk(r)
      BY <1>1, <1>2, <1>3, <2>1, <2>2 DEF RecordOk, OwnerOk, Revoking
    <3>2. lease = NoLease => lease' = NoLease
      BY <1>5 DEF QuietShared, LeaseShrinks
    <3>3. UNCHANGED <<daemon, svc, mapping>>
      BY <1>5 DEF QuietShared
    <3>. QED  BY <2>1, <3>1, <3>2, <3>3 DEF OwnerOk, Live, Expected, validate_completion, Revoking
  <2>5. MarkedOk(r)'
    <3>1. op = "lock" => marker' # "none"
      BY <1>2, <1>4 DEF RecordOk, MarkedOk, MarkerGrows
    <3>. QED  BY <1>6, <2>1, <2>2, <3>1 DEF MarkedOk, Dispatched
  <2>6. BorrowOk(c, r)' /\ ContainOk(r)'
    BY <1>3, <2>1, <2>2 DEF BorrowOk, ContainOk, InFault, Revoking, Operations
  <2>7. MayGo(c, r)
    BY <1>1, <1>3, <2>1, <2>2, MainApart DEF MayGo, Operations
  <2>. QED  BY <1>1, <1>5, <2>3, <2>4, <2>5, <2>6, <2>7, QuietMove, MainApart DEF RecordOk
<1>7. CASE Fault(c, "idle")
  BY <1>1, <1>5, <1>7, GoesToFault, MainApart
<1>8. \/ Fault(c, "idle")
      \/ Go(c, "rollback")
      \/ Go(c, "send") /\ (op = "read" \/ marker' = "whole")
  BY DEF DispatchArm, arm_lifecycle
<1>. QED  BY <1>6, <1>7, <1>8

\* No answer: a fault, or for a borrow a credential nobody knows the place of.
LEMMA UnansweredInv ==
    ASSUME DaemonInv, daemon = "up", QuietShared, NEW c \in Clients,
           thread[c].at \in {"send", "reply"}, Unanswered(c)
    PROVE  DaemonInv'
<1>1. CASE thread[c].op # "borrow"
  BY <1>1, GoesToFault, MainApart DEF Unanswered
<1>2. CASE thread[c].op = "borrow"
  <2>1. /\ thread[c] \in Thread /\ RecordOk(c, thread[c]) /\ SharedType /\ ThreadType
    BY RecordFacts, MainApart
  <2>2. PICK r \in Thread : /\ thread' = [thread EXCEPT ![c] = r]
                            /\ r.at = "ambiguous" /\ SameBut(thread[c], r)
    BY <1>2, <2>1, GoRecord, MainApart DEF Unanswered, Stages, BorrowStages, IssuedStages
  <2>3. RecordOk(c, r)
    BY <1>2, <2>1, <2>2 DEF SameBut, RecordOk, StageOk, OwnerOk, MarkedOk, BorrowOk, ContainOk,
       Operations, BorrowStages, PendingStages, IssuedStages, InFault, Revoking
  <2>. QED  BY <1>2, <2>2, <2>3, GoesOn DEF SameBut, InFault, Revoking
<1>. QED  BY <1>1, <1>2

\* The stages only a borrower has, and what it knows there.
LEMMA BorrowerFacts ==
    ASSUME DaemonInv, NEW c \in Clients,
           \/ thread[c].op = "borrow"
           \/ thread[c].at \in {"ready", "cancel", "issue", "ambiguous", "deliver", "monitor",
                                "watch"}
    PROVE  /\ thread[c] \in Thread /\ thread[c].op = "borrow" /\ thread[c].lease # 0
           /\ thread[c].lease \in Nat /\ thread[c].lease < nextLease
           /\ StageOk(thread[c]) /\ BorrowOk(c, thread[c])
           /\ thread[c].at \notin {"idle", "fault"} /\ ~InFault(thread[c])
           /\ Mine(c) => lease # NoLease /\ lease \in BorrowLease /\ lease.client = c
<1>1. /\ thread[c] \in Thread /\ RecordOk(c, thread[c]) /\ SharedType
  BY RecordFacts, MainApart
<1>2. thread[c].op = "borrow"
  BY <1>1 DEF RecordOk, StageOk, Thread, OwnerStages, PlainStages, Dispatched, Revoking
<1>3. /\ StageOk(thread[c]) /\ BorrowOk(c, thread[c]) /\ thread[c].lease # 0
      /\ thread[c].lease \in Nat /\ thread[c].lease < nextLease
      /\ thread[c].at \notin {"idle", "fault"} /\ ~InFault(thread[c])
  BY <1>1, <1>2 DEF RecordOk, StageOk, Thread, BorrowStages, PendingStages, IssuedStages,
     Revoking, InFault
<1>4. ASSUME Mine(c) PROVE lease # NoLease /\ lease \in BorrowLease /\ lease.client = c
  <2>1. lease # NoLease
    BY <1>3, <1>4, MainApart DEF Mine
  <2>. QED  BY <1>1, <1>2, <1>3, <1>4, <2>1, LeaseCases DEF Mine, BorrowOk
<1>. QED  BY <1>1, <1>2, <1>3, <1>4

\* A borrower goes on.
LEMMA BorrowerGoesOn ==
    ASSUME DaemonInv, daemon = "up", QuietShared, NEW c \in Clients, thread[c].op = "borrow",
           NEW r \in Thread, thread' = [thread EXCEPT ![c] = r], r.op = "borrow",
           StageOk(r), BorrowOk(c, r)
    PROVE  DaemonInv'
<1>1. thread[c].at \notin {"idle", "fault"} /\ ~InFault(thread[c])
  BY BorrowerFacts
<1>2. OwnerOk(r) /\ MarkedOk(r) /\ ContainOk(r)
  BY DEF OwnerOk, MarkedOk, ContainOk, InFault, StageOk, Operations, BorrowStages, PendingStages,
     IssuedStages, Revoking
<1>. QED  BY <1>1, <1>2, GoesOn DEF RecordOk

\* A borrower that goes to another stage.
LEMMA BorrowerGoes ==
    ASSUME DaemonInv, daemon = "up", QuietShared, NEW c \in Clients, thread[c].op = "borrow",
           NEW a \in BorrowStages \ Revoking, Go(c, a),
           a = "issue" => thread[c].code = "none", a \notin {"send", "reply", "ready"},
           Mine(c) => /\ a \in PendingStages => lease.state \in {"pending", "revoking"}
                      /\ a \in IssuedStages => lease.state \in {"issued", "revoking"}
    PROVE  DaemonInv'
<1>1. /\ thread[c] \in Thread /\ thread[c].lease # 0
      /\ StageOk(thread[c]) /\ BorrowOk(c, thread[c]) /\ ThreadType
  BY BorrowerFacts DEF DaemonInv
<1>2. PICK r \in Thread : /\ thread' = [thread EXCEPT ![c] = r]
                          /\ r.at = a /\ SameBut(thread[c], r)
  BY <1>1, GoRecord, MainApart DEF Stages
<1>3. StageOk(r)
  BY <1>1, <1>2 DEF SameBut, StageOk, BorrowStages, PendingStages, IssuedStages, Revoking,
     Operations
<1>4. BorrowOk(c, r)
  BY <1>1, <1>2 DEF SameBut, BorrowOk, Mine
<1>. QED  BY <1>2, <1>3, <1>4, BorrowerGoesOn DEF SameBut

\* A borrower that turns to the revocation of its lease.
LEMMA BorrowerRevokes ==
    ASSUME DaemonInv, daemon = "up", QuietShared, NEW c \in Clients, thread[c].op = "borrow",
           NEW then \in {"idle", "fault"}, Revoke(c, thread[c].lease, then)
    PROVE  DaemonInv'
<1>1. /\ thread[c] \in Thread /\ thread[c].lease \in Nat /\ thread[c].lease # 0
      /\ StageOk(thread[c]) /\ BorrowOk(c, thread[c]) /\ ThreadType
  BY BorrowerFacts DEF DaemonInv
<1>2. PICK r \in Thread : /\ thread' = [thread EXCEPT ![c] = r]
                          /\ r.at = "revoke" /\ r.lease = thread[c].lease /\ r.then = then
                          /\ r.op = thread[c].op /\ r.code = thread[c].code
  BY <1>1, RevokeRecord, MainApart
<1>3. StageOk(r)
  BY <1>1, <1>2 DEF StageOk, BorrowStages, Revoking, Operations
<1>4. BorrowOk(c, r)
  BY <1>1, <1>2 DEF BorrowOk, PendingStages, IssuedStages
<1>. QED  BY <1>2, <1>3, <1>4, BorrowerGoesOn

\* A borrower that ends, or goes into a fault.
LEMMA BorrowerEnds ==
    ASSUME DaemonInv, daemon = "up", QuietShared, NEW c \in Clients, thread[c].op = "borrow",
           Done(c) \/ Fault(c, "idle")
    PROVE  DaemonInv'
BY BorrowerFacts, GoesIdle, GoesToFault, MainApart

\* Closing the daemon's copy of the descriptor changes nothing for the others.
LEMMA FinalizedShrinks ==
    ASSUME DaemonInv, NEW c \in Clients, thread[c].op = "borrow", lease' = Finalized(c)
    PROVE  LeaseShrinks
<1>1. CASE Mine(c)
  <2>1. lease # NoLease /\ lease \in BorrowLease
    BY <1>1, BorrowerFacts
  <2>. QED  BY <1>1, <2>1 DEF LeaseShrinks, Finalized, BorrowLease
<1>2. CASE ~Mine(c)
  BY <1>2 DEF LeaseShrinks, Finalized
<1>. QED  BY <1>1, <1>2

\* Releasing a lease that was never delivered, or whose borrower is gone.
LEMMA ReleaseShrinks ==
    ASSUME DaemonInv, lease # NoLease, lease' = NoLease, UNCHANGED holders,
           \/ lease.state \notin {"issued", "established", "revoking"}
           \/ client[lease.client] = "gone" \/ lease.client \notin holders
    PROVE  LeaseShrinks
<1>1. ASSUME Live PROVE holders' = {}
  <2>1. CASE lease.state \notin {"issued", "established", "revoking"}
    BY <1>1, <2>1, NothingLent
  <2>2. CASE client[lease.client] = "gone" \/ lease.client \notin holders
    BY <1>1, <2>2 DEF DaemonInv, CredentialLeased, LeaseKept, Live
  <2>. QED  BY <2>1, <2>2
<1>. QED  BY <1>1 DEF LeaseShrinks

\* Before the command is sent: the lease is still there, or is given up.
LEMMA BorrowReadyInv ==
    ASSUME DaemonInv, NEW c \in Clients, provider_borrow_dispatch_ready(c)
    PROVE  DaemonInv'
<1>1. daemon = "up" /\ thread[c].at = "ready" /\ UNCHANGED lease
  BY DEF provider_borrow_dispatch_ready, At
<1>2. /\ thread[c].op = "borrow" /\ StageOk(thread[c]) /\ BorrowOk(c, thread[c])
  BY <1>1, BorrowerFacts
<1>3. QuietShared
  <2>1. faults' \in Nat
    BY DEF provider_borrow_dispatch_ready, Fails, DaemonInv, SharedType
  <2>. QED  BY <1>1, <2>1, LeaseStep DEF provider_borrow_dispatch_ready, LeaseShrinks
<1>4. Mine(c) => lease.state \in {"pending", "revoking"}
  BY <1>1, <1>2 DEF BorrowOk, Mine, PendingStages
<1>5. CASE Done(c)
  BY <1>1, <1>2, <1>3, <1>5, BorrowerEnds
<1>6. ASSUME Mine(c), Revoke(c, lease.id, "fault") PROVE DaemonInv'
  BY <1>1, <1>2, <1>3, <1>6, BorrowerRevokes DEF Mine
<1>7. ASSUME NEW a \in {"cancel", "issue"}, Go(c, a) PROVE DaemonInv'
  <2>1. thread[c].code = "none"
    BY <1>1, <1>2 DEF StageOk
  <2>. QED  BY <1>1, <1>2, <1>3, <1>4, <1>7, <2>1, BorrowerGoes
       DEF BorrowStages, PendingStages, IssuedStages, Revoking
<1>. QED  BY <1>5, <1>6, <1>7 DEF provider_borrow_dispatch_ready

\* Giving up a lease that was not issued.
LEMMA CancelPendingInv ==
    ASSUME DaemonInv, NEW c \in Clients, cancel_pending_lease(c)
    PROVE  DaemonInv'
<1>1. daemon = "up" /\ thread[c].at = "cancel" /\ Done(c) /\ UNCHANGED holders
  BY DEF cancel_pending_lease, At, peer
<1>2. /\ thread[c].op = "borrow" /\ BorrowOk(c, thread[c]) /\ (Mine(c) => lease # NoLease)
  BY <1>1, BorrowerFacts
<1>3. LeaseShrinks
  <2>1. CASE ~svc.faulted /\ Mine(c) /\ Revocable
    <3>1. lease.state = "pending"
      BY <1>1, <1>2, <2>1 DEF BorrowOk, Mine, PendingStages, Revocable
    <3>. QED  BY <1>1, <1>2, <2>1, <3>1, ReleaseShrinks DEF cancel_pending_lease
  <2>2. CASE ~(~svc.faulted /\ Mine(c) /\ Revocable)
    BY <2>2 DEF cancel_pending_lease, LeaseShrinks
  <2>. QED  BY <2>1, <2>2
<1>4. QuietShared
  BY <1>3, LeaseStep DEF cancel_pending_lease, DaemonInv, SharedType
<1>. QED  BY <1>1, <1>2, <1>4, BorrowerEnds

\* The credential of a borrow that was not answered.
LEMMA AmbiguousInv ==
    ASSUME DaemonInv, NEW c \in Clients, fail_ambiguous_borrow(c)
    PROVE  DaemonInv'
<1>1. /\ daemon = "up" /\ thread[c].at = "ambiguous" /\ lease' = Finalized(c)
      /\ Revoke(c, thread[c].lease, "fault")
  BY DEF fail_ambiguous_borrow, At
<1>2. thread[c].op = "borrow"
  BY <1>1, BorrowerFacts
<1>3. QuietShared
  BY <1>1, <1>2, FinalizedShrinks, LeaseStep DEF fail_ambiguous_borrow, DaemonInv, SharedType
<1>. QED  BY <1>1, <1>2, <1>3, BorrowerRevokes

\* The home is mounted under a lease that is issued and marked.
LEMMA MountInv ==
    ASSUME DaemonInv, LoanInv, NEW c \in Clients, MountCodexHome(c)
    PROVE  DaemonInv'
<1>1. daemon = "up" /\ thread[c].at = "finish" /\ thread[c].op = "borrow" /\ Go(c, "mount")
      /\ UNCHANGED <<daemon, svc, stopping, disk, wire, loan, client, faults>>
      /\ holders' = IF client[c] = "gone" THEN holders ELSE holders \cup {c}
  BY DEF MountCodexHome, At
<1>2. Mine(c) /\ marker # "none"
  <2>1. Mine(c)
    BY <1>1 DEF LoanInv, LoanOk, IssuedStages, Mine
  <2>. QED  BY <1>1, <2>1, BorrowerFacts DEF LoanInv, LeaseMarked
<1>3. BorrowOk(c, thread[c]) /\ lease.client = c
  BY <1>1, <1>2, BorrowerFacts
<1>4. lease.state \in {"issued", "revoking"}
  BY <1>1, <1>2, <1>3 DEF BorrowOk, Mine, IssuedStages
<1>5. QuietShared
  <2>1. SharedType'
    BY <1>1 DEF DaemonInv, SharedType, disk, wire, loan
  <2>2. \A d \in holders' : client'[d] # "gone" /\ (d \in holders \/ Lent(d))
    BY <1>1, <1>2, <1>3, <1>4 DEF DaemonInv, LeaseKept, Lent
  <2>. QED  BY <1>1, <2>1, <2>2 DEF QuietShared, LeaseShrinks, disk, wire, loan
<1>. QED  BY <1>1, <1>4, <1>5, BorrowerGoes DEF BorrowStages, PendingStages, IssuedStages, Revoking

\* The worker's answer to a borrow.
LEMMA FinishBorrowInv ==
    ASSUME DaemonInv, LoanInv, NEW c \in Clients, FinishBorrow(c)
    PROVE  DaemonInv'
<1>1. daemon = "up" /\ thread[c].at \in {"finish", "mount"} /\ thread[c].op = "borrow"
      /\ UNCHANGED holders
  BY DEF FinishBorrow, At, peer
<1>2. /\ BorrowOk(c, thread[c]) /\ (Mine(c) => lease # NoLease)
  BY <1>1, BorrowerFacts
<1>3. Mine(c) => lease.state \in {"issued", "revoking"}
  BY <1>1, <1>2 DEF BorrowOk, Mine, IssuedStages
<1>4. \/ lease' = lease
      \/ lease' = Finalized(c)
      \/ lease' = NoLease /\ Mine(c) /\ Revocable /\ thread[c].code = "refused"
  BY DEF FinishBorrow
<1>5. LeaseShrinks
  <2>1. CASE lease' = NoLease /\ Mine(c) /\ Revocable /\ thread[c].code = "refused"
    <3>1. lease.client = c /\ lease # NoLease
      BY <1>1, <2>1, BorrowerFacts
    <3>2. c \notin holders
      BY <1>1, <2>1 DEF LoanInv, LoanOk, UnlentStages
    <3>. QED  BY <1>1, <2>1, <3>1, <3>2, ReleaseShrinks
  <2>. QED  BY <1>1, <1>4, <2>1, FinalizedShrinks DEF LeaseShrinks
<1>6. QuietShared
  BY <1>5, LeaseStep DEF FinishBorrow, DaemonInv, SharedType
<1>7. CASE Done(c) \/ Fault(c, "idle")
  BY <1>1, <1>6, <1>7, BorrowerEnds
<1>8. ASSUME NEW a \in {"ambiguous", "deliver"}, Go(c, a) PROVE DaemonInv'
  BY <1>1, <1>3, <1>6, <1>8, BorrowerGoes DEF BorrowStages, PendingStages, IssuedStages, Revoking
<1>. QED  BY <1>7, <1>8 DEF FinishBorrow

\* A lease that ends by itself, or at its deadline.
LEMMA MonitorInv ==
    ASSUME DaemonInv, NEW c \in Clients, monitor_provider_lease(c) \/ complete_normal_lease(c)
    PROVE  DaemonInv'
<1>1. daemon = "up" /\ thread[c].at \in {"monitor", "watch"} /\ UNCHANGED holders
  BY DEF monitor_provider_lease, complete_normal_lease, At, peer
<1>2. thread[c].op = "borrow" /\ (Mine(c) => lease # NoLease)
  BY <1>1, BorrowerFacts
<1>3. CASE monitor_provider_lease(c)
  <2>1. QuietShared
    BY <1>3, Unmoved DEF monitor_provider_lease
  <2>2. CASE Go(c, "watch")
    BY <1>1, <1>2, <2>1, <2>2, BorrowerGoes DEF BorrowStages, PendingStages, IssuedStages, Revoking
  <2>3. CASE Done(c)
    BY <1>1, <1>2, <2>1, <2>3, BorrowerEnds
  <2>. QED  BY <1>3, <2>2, <2>3 DEF monitor_provider_lease
<1>4. CASE complete_normal_lease(c)
  <2>1. LeaseShrinks
    <3>1. CASE Evidence(thread[c].lease) /\ Mine(c) /\ Revocable /\ lease' = NoLease
      BY <1>1, <1>2, <3>1, ReleaseShrinks DEF Evidence, Mine
    <3>2. CASE lease' = lease
      BY <3>2 DEF LeaseShrinks
    <3>. QED  BY <1>4, <3>1, <3>2 DEF complete_normal_lease
  <2>2. QuietShared
    BY <1>4, <2>1, LeaseStep DEF complete_normal_lease, DaemonInv, SharedType
  <2>3. CASE Done(c)
    BY <1>1, <1>2, <2>2, <2>3, BorrowerEnds
  <2>4. CASE Revoke(c, thread[c].lease, "idle")
    BY <1>1, <1>2, <2>2, <2>4, BorrowerRevokes
  <2>. QED  BY <1>4, <2>3, <2>4 DEF complete_normal_lease
<1>. QED  BY <1>3, <1>4

(***************************************************************************)
(* The steps of a revocation.                                              *)
(***************************************************************************)
\* What a thread that revokes a lease knows.
LEMMA RevokerFacts ==
    ASSUME DaemonInv, NEW t \in Threads, thread[t].at \in Revoking
    PROVE  /\ thread[t] \in Thread /\ RecordOk(t, thread[t]) /\ SharedType /\ ThreadType
           /\ thread[t].lease # 0 /\ thread[t].lease \in Nat
           /\ lease.id = thread[t].lease => lease # NoLease /\ lease \in BorrowLease
           /\ \/ thread[t].op = "lock" /\ thread[t].then = "arm"
              \/ thread[t].op = "none"
              \/ thread[t].op = "borrow" /\ thread[t].then \in {"idle", "fault"}
           /\ t = Main => thread[t].op = "none"
           /\ thread[t].op = "none" => thread[t].then \in {"worker", "drain", "serve"}
           /\ thread[t].at \notin {"idle", "fault", "worker", "contain"}
<1>1. /\ thread[t] \in Thread /\ RecordOk(t, thread[t]) /\ SharedType /\ ThreadType
      /\ thread[Main].op = "none"
  BY RecordFacts
<1>2. StageOk(thread[t])
  BY <1>1 DEF RecordOk
<1>3. /\ thread[t].lease # 0 /\ thread[t].lease \in Nat
      /\ lease.id = thread[t].lease => lease # NoLease /\ lease \in BorrowLease
  BY <1>1, <1>2, MainApart, LeaseCases DEF StageOk, Thread
<1>4. thread[t].op \in Operations \cup {"borrow", "none"}
  BY <1>1 DEF Thread
<1>5. /\ thread[t].op \in Operations => thread[t].op = "lock" /\ thread[t].then = "arm"
      /\ thread[t].op = "borrow" => thread[t].then \in {"idle", "fault"}
      /\ thread[t].op = "none" => thread[t].then \in {"worker", "drain", "serve"}
  BY <1>2 DEF StageOk
<1>6. thread[t].at \notin {"idle", "fault", "worker", "contain"}
  BY DEF Revoking
<1>. QED  BY <1>1, <1>3, <1>4, <1>5, <1>6

\* Going on once the lease is gone.
LEMMA ResumeInv ==
    ASSUME DaemonInv, daemon = "up", QuietShared, NEW t \in Threads, thread[t].at \in Revoking,
           thread[t].code # "unkilled" \/ thread[t].at # "await",
           lease' = NoLease \/ lease'.id # thread[t].lease, Resume(t)
    PROVE  DaemonInv'
<1>1. /\ thread[t] \in Thread /\ RecordOk(t, thread[t]) /\ SharedType /\ ThreadType
      /\ \/ thread[t].op = "lock" /\ thread[t].then = "arm"
         \/ thread[t].op = "none"
         \/ thread[t].op = "borrow" /\ thread[t].then \in {"idle", "fault"}
      /\ t = Main => thread[t].op = "none"
      /\ thread[t].op = "none" => thread[t].then \in {"worker", "drain", "serve"}
      /\ thread[t].at \notin {"idle", "fault", "worker", "contain"}
  BY RevokerFacts
<1>2. CASE thread[t].then = "idle"
  <2>1. t \in Clients /\ Done(t)
    BY <1>1, <1>2 DEF Threads, Resume
  <2>. QED  BY <1>1, <1>2, <2>1, GoesIdle DEF InFault
<1>3. CASE thread[t].then = "fault"
  BY <1>1, <1>3, GoesToFault DEF Resume
<1>4. CASE thread[t].then \notin {"idle", "fault"}
  <2>1. PICK r : r = [thread[t] EXCEPT !.at = thread[t].then, !.then = "none", !.lease = 0]
    OBVIOUS
  <2>2. r \in Thread
    BY <1>1, <1>4, <2>1 DEF Thread, OwnerStages, PlainStages
  <2>3. /\ r.at = thread[t].then /\ r.op = thread[t].op /\ r.code = thread[t].code
        /\ r.lease = 0 /\ r.sound = thread[t].sound /\ r.unmarked = thread[t].unmarked
    BY <1>1, <2>1 DEF Thread
  <2>4. thread' = [thread EXCEPT ![t] = r]
    BY <1>4, <2>1 DEF Resume
  <2>5. /\ UNCHANGED <<daemon, svc, worker, mapping, nextLease>>
        /\ (marker' = marker \/ marker' # "none")
        /\ lease = NoLease => lease' = NoLease
        /\ lease' = NoLease \/ lease'.id = lease.id
    BY DEF QuietShared, LeaseShrinks
  <2>6. CASE thread[t].op = "none"
    <3>1. r.op = "none" /\ r.at \in {"worker", "drain", "serve"}
      BY <1>1, <2>3, <2>6
    <3>2. StageOk(r)'
      BY <1>1, <2>3, <2>5, <3>1 DEF StageOk, SharedType, PlainStages, Operations, Revoking
    <3>3. OwnerOk(r)' /\ MarkedOk(r)' /\ BorrowOk(t, r)'
      BY <3>1 DEF OwnerOk, MarkedOk, BorrowOk, Operations
    <3>4. ContainOk(r)'
      <4>1. CASE r.at = "worker"
        <5>1. ContainOk(thread[t]) /\ InFault(thread[t])
          BY <1>1, <2>3, <4>1 DEF RecordOk, InFault
        <5>2. lease' = NoLease
          BY <2>5, <5>1 DEF ContainOk
        <5>. QED  BY <2>3, <2>5, <4>1, <5>1, <5>2 DEF ContainOk, Revoking
      <4>2. CASE r.at # "worker"
        BY <3>1, <4>2 DEF ContainOk, InFault, Revoking
      <4>. QED  BY <4>1, <4>2
    <3>5. MayGo(t, r)
      BY <1>1, <2>3, <2>4, <3>1, MainApart DEF MayGo, InFault, Operations
    <3>. QED  BY <2>2, <3>2, <3>3, <3>4, <3>5, QuietMove DEF RecordOk
  <2>7. CASE thread[t].op = "lock"
    <3>1. r.op = "lock" /\ r.at = "arm" /\ thread[t].then = "arm" /\ t # Main
      BY <1>1, <2>3, <2>7
    <3>2. r.code = "none"
      BY <1>1, <2>3, <2>7 DEF RecordOk, StageOk, Operations
    <3>3. StageOk(r)'
      BY <1>1, <2>3, <2>5, <3>1, <3>2 DEF StageOk, SharedType, OwnerStages, Operations, Revoking
    <3>4. OwnerOk(r)'
      BY <1>1, <2>3, <2>5, <3>1 DEF RecordOk, OwnerOk, Live, Expected, validate_completion,
         Revoking, Operations
    <3>5. MarkedOk(r)' /\ BorrowOk(t, r)' /\ ContainOk(r)'
      BY <1>1, <2>3, <2>5, <3>1 DEF RecordOk, MarkedOk, BorrowOk, ContainOk, InFault, Revoking
    <3>6. MayGo(t, r)
      BY <1>1, <2>3, <2>4, <3>1, MainApart DEF MayGo, InFault, Revoking
    <3>. QED  BY <2>2, <3>3, <3>4, <3>5, <3>6, QuietMove DEF RecordOk
  <2>. QED  BY <1>1, <1>4, <2>6, <2>7
<1>. QED  BY <1>2, <1>3, <1>4

\* Going on although it could not be seen that the borrower is gone.
LEMMA RevocationFailedInv ==
    ASSUME DaemonInv, daemon = "up", QuietShared, NEW t \in Threads, thread[t].at \in Revoking,
           RevocationFailed(t)
    PROVE  DaemonInv'
<1>1. /\ thread[t] \in Thread /\ RecordOk(t, thread[t]) /\ SharedType /\ ThreadType
      /\ thread[t].op = "none" => thread[t].then \in {"worker", "drain", "serve"}
      /\ t = Main => thread[t].op = "none"
      /\ \/ thread[t].op = "lock" /\ thread[t].then = "arm"
         \/ thread[t].op = "none"
         \/ thread[t].op = "borrow" /\ thread[t].then \in {"idle", "fault"}
      /\ thread[t].at \notin {"idle", "fault", "worker", "contain"}
  BY RevokerFacts
<1>2. CASE thread[t].then = "worker"
  <2>1. PICK r : r = [thread[t] EXCEPT !.at = "worker", !.then = "none", !.lease = 0,
                                       !.sound = FALSE, !.code = "none"]
    OBVIOUS
  <2>2. r \in Thread
    BY <1>1, <2>1 DEF Thread, PlainStages
  <2>3. /\ r.at = "worker" /\ r.op = "none" /\ r.lease = 0 /\ r.sound = FALSE
        /\ r.unmarked = thread[t].unmarked
    BY <1>1, <1>2, <2>1 DEF Thread
  <2>4. thread' = [thread EXCEPT ![t] = r]
    BY <1>2, <2>1 DEF RevocationFailed
  <2>5. RecordOk(t, r)
    <3>1. StageOk(r)
      BY <1>1, <2>3 DEF StageOk, SharedType, PlainStages, Operations, Revoking
    <3>2. OwnerOk(r) /\ MarkedOk(r) /\ BorrowOk(t, r)
      BY <2>3 DEF OwnerOk, MarkedOk, BorrowOk, Operations
    <3>3. ContainOk(r)
      BY <1>1, <1>2, <2>3 DEF RecordOk, ContainOk, InFault, Revoking
    <3>. QED  BY <3>1, <3>2, <3>3 DEF RecordOk
  <2>6. RecordOk(t, r)'
    BY <1>1, <2>2, <2>5, QuietRecord
  <2>7. MayGo(t, r)
    BY <1>1, <2>3, <2>4, MainApart DEF MayGo, InFault, Operations
  <2>. QED  BY <2>2, <2>6, <2>7, QuietMove
<1>3. CASE t = Main /\ thread[t].then # "worker"
  <2>1. PICK r : r = [Idle EXCEPT !.sound = FALSE,
                         !.at = IF thread[t].then = "serve" THEN "stop" ELSE "drain"]
    OBVIOUS
  <2>2. r \in Thread /\ r.at \in {"stop", "drain"} /\ r.op = "none" /\ r.lease = 0
    BY <2>1 DEF Thread, PlainStages, Idle
  <2>3. thread' = [thread EXCEPT ![Main] = r]
    BY <1>3, <2>1 DEF RevocationFailed
  <2>4. RecordOk(Main, r)
    BY <1>1, <2>2, PlainRecord DEF SharedType, PlainStages, Revoking
  <2>5. ~InFault(thread[Main])
    BY <1>1, <1>3 DEF InFault
  <2>. QED  BY <1>1, <1>3, <2>2, <2>3, <2>4, <2>5, MainGoesOn
<1>4. CASE t # Main /\ thread[t].then # "worker"
  BY <1>1, <1>4, GoesToFault DEF RevocationFailed
<1>. QED  BY <1>2, <1>3, <1>4

\* Beginning a revocation.
LEMMA RevokeInv ==
    ASSUME DaemonInv, NEW t \in Threads, revoke_provider_lease(t)
    PROVE  DaemonInv'
<1>1. daemon = "up" /\ thread[t].at = "revoke" /\ thread[t].at \in Revoking
  BY DEF revoke_provider_lease, At, Revoking
<1>2. /\ thread[t] \in Thread /\ RecordOk(t, thread[t]) /\ SharedType /\ ThreadType
      /\ lease.id = thread[t].lease => lease # NoLease /\ lease \in BorrowLease
      /\ t = Main => thread[t].op = "none"
  BY <1>1, RevokerFacts
<1>3. CASE lease.id = thread[t].lease
  <2>1. lease' = [lease EXCEPT !.state = "revoking"] /\ Go(t, "kill")
    BY <1>3 DEF revoke_provider_lease
  <2>2. LeaseShrinks
    BY <1>2, <1>3, <2>1 DEF LeaseShrinks, BorrowLease
  <2>3. QuietShared
    BY <2>2, LeaseStep DEF revoke_provider_lease, DaemonInv, SharedType
  <2>4. PICK r \in Thread : /\ thread' = [thread EXCEPT ![t] = r]
                            /\ r.at = "kill" /\ SameBut(thread[t], r)
    BY <1>2, <2>1, GoRecord DEF Stages, OwnerStages, Revoking
  <2>5. RecordOk(t, r)
    BY <1>1, <1>2, <2>4 DEF SameBut, RecordOk, StageOk, OwnerOk, MarkedOk, BorrowOk, ContainOk,
       InFault, Revoking, OwnerStages, BorrowStages, PlainStages, Dispatched, PendingStages,
       IssuedStages
  <2>6. RecordOk(t, r)'
    BY <1>2, <2>3, <2>5, QuietRecord
  <2>7. MayGo(t, r)
    BY <1>1, <1>2, <2>4, MainApart DEF MayGo, InFault, SameBut, Revoking
  <2>. QED  BY <1>1, <2>3, <2>6, <2>7, QuietMove
<1>4. CASE lease.id # thread[t].lease
  <2>1. UNCHANGED lease /\ Resume(t)
    BY <1>4 DEF revoke_provider_lease
  <2>2. QuietShared
    BY <2>1, LeaseStep DEF revoke_provider_lease, DaemonInv, SharedType, LeaseShrinks
  <2>. QED  BY <1>1, <1>4, <2>1, <2>2, ResumeInv
<1>. QED  BY <1>3, <1>4

\* Killing the borrower's processes.
LEMMA KillBorrowerInv ==
    ASSUME DaemonInv, NEW t \in Threads, KillBorrower(t)
    PROVE  DaemonInv'
<1>1. daemon = "up" /\ thread[t].at = "kill" /\ thread[t].at \in Revoking
  BY DEF KillBorrower, At, Revoking
<1>2. /\ thread[t] \in Thread /\ RecordOk(t, thread[t]) /\ SharedType /\ ThreadType
      /\ lease.id = thread[t].lease => lease # NoLease /\ lease \in BorrowLease
      /\ t = Main => thread[t].op = "none"
  BY <1>1, RevokerFacts
<1>3. \A c \in holders : client[c] # "gone"
  BY DEF DaemonInv, LeaseKept
<1>4. QuietShared
  <2>1. /\ client' \in [Clients -> {"live", "orphans", "gone"}] /\ holders' \subseteq holders
        /\ \A c \in holders' : client'[c] # "gone"
    <3>0. client \in [Clients -> {"live", "orphans", "gone"}] /\ holders \subseteq Clients
      BY <1>2 DEF SharedType
    <3>1. CASE lease.id # thread[t].lease
      BY <1>3, <3>0, <3>1 DEF KillBorrower
    <3>2. CASE lease.id = thread[t].lease
      <4>1. lease.client \in Clients
        BY <1>2, <3>2 DEF BorrowLease
      <4>2. \/ client' = [client EXCEPT ![lease.client] = "gone"]
               /\ holders' = holders \ {lease.client}
            \/ client' = client /\ holders' = holders
            \/ /\ client' = [client EXCEPT ![lease.client] = IF @ = "live" THEN "orphans" ELSE @]
               /\ holders' = holders
        BY <3>2 DEF KillBorrower
      <4>. QED  BY <1>3, <3>0, <4>1, <4>2
    <3>. QED  BY <3>1, <3>2
  <2>2. faults' \in Nat
    BY <1>2 DEF KillBorrower, Works, Fails, SharedType
  <2>3. UNCHANGED <<daemon, svc, stopping, marker, armed, worker, inbox, replies, mapping, lease,
                    nextLease>>
    BY DEF KillBorrower, disk, wire, loan
  <2>4. SharedType'
    BY <1>2, <2>1, <2>2, <2>3 DEF SharedType
  <2>. QED  BY <2>1, <2>3, <2>4 DEF QuietShared, LeaseShrinks
<1>5. \E r \in Thread : /\ thread' = [thread EXCEPT ![t] = r] /\ r.at = "await"
                        /\ r.op = thread[t].op /\ r.lease = thread[t].lease
                        /\ r.then = thread[t].then /\ r.unmarked = thread[t].unmarked
                        /\ r.sound = thread[t].sound /\ r.code \in {thread[t].code, "unkilled"}
  <2>1. CASE Go(t, "await")
    BY <1>2, <2>1, GoRecord DEF Stages, OwnerStages, Revoking, SameBut
  <2>2. CASE thread' = [thread EXCEPT ![t].at = "await", ![t].code = "unkilled"]
    <3>. DEFINE r == [thread[t] EXCEPT !.at = "await", !.code = "unkilled"]
    <3>1. r \in Thread
      BY <1>2 DEF Thread, OwnerStages, Revoking
    <3>2. /\ r.at = "await" /\ r.op = thread[t].op /\ r.lease = thread[t].lease
          /\ r.then = thread[t].then /\ r.unmarked = thread[t].unmarked
          /\ r.sound = thread[t].sound /\ r.code \in {thread[t].code, "unkilled"}
      BY <1>2 DEF Thread
    <3>3. thread' = [thread EXCEPT ![t] = r]
      BY <2>2
    <3>. QED  BY <3>1, <3>2, <3>3
  <2>. QED  BY <2>1, <2>2 DEF KillBorrower
<1>6. PICK r \in Thread : /\ thread' = [thread EXCEPT ![t] = r] /\ r.at = "await"
                          /\ r.op = thread[t].op /\ r.lease = thread[t].lease
                          /\ r.then = thread[t].then /\ r.unmarked = thread[t].unmarked
                          /\ r.sound = thread[t].sound /\ r.code \in {thread[t].code, "unkilled"}
  BY <1>5
<1>7. RecordOk(t, r)
  <2>1. StageOk(r)
    BY <1>1, <1>2, <1>6 DEF RecordOk, StageOk, Revoking, OwnerStages, BorrowStages, PlainStages
  <2>2. OwnerOk(r) /\ MarkedOk(r) /\ BorrowOk(t, r) /\ ContainOk(r)
    BY <1>1, <1>2, <1>6 DEF RecordOk, OwnerOk, MarkedOk, BorrowOk, ContainOk,
       InFault, Revoking, Dispatched, PendingStages, IssuedStages
  <2>. QED  BY <2>1, <2>2 DEF RecordOk
<1>8. RecordOk(t, r)'
  BY <1>2, <1>4, <1>7, QuietRecord
<1>9. MayGo(t, r)
  BY <1>1, <1>2, <1>6, MainApart DEF MayGo, InFault, Revoking
<1>. QED  BY <1>1, <1>4, <1>8, <1>9, QuietMove

\* Releasing the lease on the evidence, and on nothing else.
LEMMA AwaitEvidenceInv ==
    ASSUME DaemonInv, NEW t \in Threads, AwaitEvidence(t)
    PROVE  DaemonInv'
<1>1. daemon = "up" /\ thread[t].at = "await" /\ thread[t].at \in Revoking /\ UNCHANGED holders
  BY DEF AwaitEvidence, At, Revoking, peer
<1>2. /\ SharedType
      /\ lease.id = thread[t].lease => lease # NoLease /\ lease \in BorrowLease
  BY <1>1, RevokerFacts
<1>3. LeaseShrinks
  <2>1. CASE Evidence(thread[t].lease) /\ lease.id = thread[t].lease
    BY <1>1, <1>2, <2>1, ReleaseShrinks DEF AwaitEvidence, Evidence
  <2>2. CASE ~(Evidence(thread[t].lease) /\ lease.id = thread[t].lease)
    BY <2>2 DEF AwaitEvidence, LeaseShrinks
  <2>. QED  BY <2>1, <2>2
<1>4. QuietShared
  BY <1>2, <1>3, LeaseStep DEF AwaitEvidence, SharedType
<1>5. CASE RevocationFailed(t)
  BY <1>1, <1>4, <1>5, RevocationFailedInv
<1>6. CASE Resume(t) /\ thread[t].code # "unkilled" /\ Evidence(thread[t].lease)
  <2>1. lease' = NoLease \/ lease'.id # thread[t].lease
    BY <1>6 DEF AwaitEvidence
  <2>. QED  BY <1>1, <1>4, <1>6, <2>1, ResumeInv
<1>. QED  BY <1>5, <1>6 DEF AwaitEvidence

\* The end of the fault procedure.
LEMMA ContainInv ==
    ASSUME DaemonInv, NEW t \in Threads, Contain(t)
    PROVE  DaemonInv'
<1>1. daemon = "up" /\ thread[t].at = "contain"
  BY DEF Contain, At
<1>2. /\ thread[t] \in Thread /\ RecordOk(t, thread[t]) /\ SharedType /\ ThreadType
  BY RecordFacts
<1>3. /\ svc.faulted
      /\ thread[t].sound => lease = NoLease /\ ~worker.up
      /\ ~thread[t].unmarked => marker # "none"
  BY <1>1, <1>2 DEF RecordOk, ContainOk, InFault
<1>4. MarkerGrows
  <2>1. (UNCHANGED disk /\ Works) \/ arm_lifecycle \/ ArmFails
    BY DEF Contain, Works
  <2>. QED  BY <1>2, <2>1, MarkerSteps
<1>5. QuietShared
  <2>1. stopping' \in BOOLEAN /\ (stopping => stopping')
    BY <1>2 DEF Contain, SharedType, Thread
  <2>. QED  BY <1>4, <2>1, Undisturbed DEF Contain
<1>6. stopping' \/ (~worker.up /\ lease' = NoLease /\ marker' # "none")
  <2>1. lease' = lease
    BY DEF Contain, loan
  <2>2. stopping' \/ (thread[t].sound /\ (thread[t].unmarked => arm_lifecycle)
                        /\ (~thread[t].unmarked => marker' = marker))
    BY <1>2 DEF Contain, disk, Thread, SharedType
  <2>. QED  BY <1>2, <1>3, <2>1, <2>2 DEF arm_lifecycle, Thread
<1>7. PICK r : r = IF thread[t].back = "idle" THEN Idle
                   ELSE [Idle EXCEPT !.at = thread[t].back, !.sound = FALSE]
  OBVIOUS
<1>8. /\ r \in Thread /\ r.op = "none" /\ r.lease = 0 /\ r.code = "none"
      /\ r.at \in {"idle", "join", "exit", "shutdown"}
  BY <1>2, <1>7 DEF Thread, PlainStages, Idle
<1>9. thread' = [thread EXCEPT ![t] = r]
  BY <1>7 DEF Contain, Done
<1>10. RecordOk(t, r)'
  <2>1. RecordOk(t, r)
    BY <1>2, <1>8, PlainRecord DEF SharedType, PlainStages, Revoking
  <2>. QED  BY <1>2, <1>5, <1>8, <2>1, QuietRecord
<1>11. MayGo(t, r)
  BY <1>1, <1>3, <1>6, <1>8, <1>9 DEF MayGo, Operations
<1>. QED  BY <1>1, <1>5, <1>8, <1>10, <1>11, QuietMove

(***************************************************************************)
(* The quiet steps of the main thread and of the environment.              *)
(***************************************************************************)
\* The main thread that turns to the revocation of the active lease.
LEMMA MainRevokes ==
    ASSUME DaemonInv, NEW r \in Thread, r.at = "revoke", r.op = "none", lease # NoLease,
           r.lease = lease.id, r.then \in {"drain", "serve"}
    PROVE  RecordOk(Main, r)
<1>1. lease.id # 0 /\ lease.id < nextLease
  BY LeaseCases DEF DaemonInv, LeaseKept
<1>2. StageOk(r)
  BY <1>1 DEF StageOk, PlainStages, Revoking, Operations
<1>3. OwnerOk(r) /\ MarkedOk(r) /\ BorrowOk(Main, r) /\ ContainOk(r)
  BY DEF OwnerOk, MarkedOk, BorrowOk, ContainOk, InFault, Operations
<1>. QED  BY <1>2, <1>3 DEF RecordOk

\* The sweep of a lease past its deadline.
LEMMA SweepInv ==
    ASSUME DaemonInv, sweep_expired_lease
    PROVE  DaemonInv'
<1>1. /\ daemon = "up" /\ thread[Main].at = "serve" /\ lease # NoLease
      /\ Revoke(Main, lease.id, "serve") /\ QuietShared
  BY Unmoved DEF sweep_expired_lease, At
<1>2. /\ thread[Main] \in Thread /\ SharedType /\ ThreadType /\ thread[Main].op = "none"
  BY RecordFacts, MainApart
<1>3. lease.id \in Nat
  BY <1>1, <1>2, LeaseCases
<1>4. PICK r \in Thread : /\ thread' = [thread EXCEPT ![Main] = r]
                          /\ r.at = "revoke" /\ r.lease = lease.id /\ r.then = "serve"
                          /\ r.op = "none"
  BY <1>1, <1>2, <1>3, RevokeRecord, MainApart
<1>. QED  BY <1>1, <1>4, MainRevokes, MainGoesOn DEF InFault, Revoking

\* The end of the main loop.
LEMMA ServeInv ==
    ASSUME DaemonInv, serve_connections
    PROVE  DaemonInv'
<1>1. /\ daemon = "up" /\ thread[Main].at \in {"serve", "stop"} /\ (Works \/ Fails)
      /\ \E failed \in BOOLEAN : LeaveLoop(failed)
      /\ UNCHANGED <<daemon, svc, disk, wire, loan, peer>>
  BY DEF serve_connections, At
<1>2. PICK failed \in BOOLEAN : LeaveLoop(failed)
  BY <1>1
<1>3. QuietShared
  <2>1. MarkerGrows
    BY <1>1, MarkerSteps DEF DaemonInv
  <2>. QED  BY <1>1, <1>2, <2>1, Undisturbed DEF LeaveLoop
<1>4. PICK r : r = [Idle EXCEPT !.sound = ~failed,
                        !.at = IF lease = NoLease THEN "drain" ELSE "revoke",
                        !.lease = lease.id, !.then = "drain"]
  OBVIOUS
<1>5. /\ r.at = IF lease = NoLease THEN "drain" ELSE "revoke"
      /\ r.lease = lease.id /\ r.op = "none" /\ r.then = "drain"
  BY <1>4 DEF Idle
<1>6. thread' = [thread EXCEPT ![Main] = r]
  BY <1>2, <1>4 DEF LeaveLoop
<1>7. SharedType /\ lease.id \in Nat
  BY LeaseCases, MainApart DEF DaemonInv
<1>8. r \in Thread
  BY <1>4, <1>7 DEF Idle, Thread, PlainStages, Revoking
<1>9. RecordOk(Main, r)
  <2>1. CASE lease = NoLease
    BY <1>5, <1>7, <1>8, <2>1, PlainRecord, MainApart DEF SharedType, PlainStages, Revoking
  <2>2. CASE lease # NoLease
    BY <1>5, <1>8, <2>2, MainRevokes
  <2>. QED  BY <2>1, <2>2
<1>. QED  BY <1>1, <1>3, <1>5, <1>6, <1>8, <1>9, MainGoesOn DEF InFault, Revoking

\* The main thread behind its loop.
LEMMA DrainInv ==
    ASSUME DaemonInv, DrainHandlers \/ JoinHandlers
    PROVE  DaemonInv'
<1>1. /\ daemon = "up" /\ thread[Main].at \in {"drain", "join"} /\ QuietShared
      /\ ~InFault(thread[Main])
  BY Unmoved DEF DrainHandlers, JoinHandlers, At, InFault, Revoking
<1>2. /\ thread[Main] \in Thread /\ RecordOk(Main, thread[Main]) /\ SharedType /\ ThreadType
      /\ thread[Main].op = "none"
  BY RecordFacts, MainApart
<1>3. ASSUME NEW a \in {"join", "shutdown", "leave"}, Go(Main, a),
             a = "shutdown" => \A c \in Clients : thread[c].at = "idle"
      PROVE  DaemonInv'
  <2>1. PICK r \in Thread : /\ thread' = [thread EXCEPT ![Main] = r]
                            /\ r.at = a /\ SameBut(thread[Main], r)
    BY <1>2, <1>3, GoRecord, MainApart DEF Stages, PlainStages
  <2>2. r.op = "none" /\ r.lease < nextLease
    BY <1>2, <2>1 DEF SameBut, RecordOk, StageOk
  <2>3. RecordOk(Main, r)
    BY <1>2, <2>1, <2>2, PlainRecord DEF PlainStages, Revoking
  <2>. QED  BY <1>1, <1>3, <2>1, <2>2, <2>3, MainGoesOn
<1>4. ASSUME thread' = [thread EXCEPT ![Main].at = "leave", ![Main].sound = FALSE]
      PROVE  DaemonInv'
  <2>1. PICK r : r = [thread[Main] EXCEPT !.at = "leave", !.sound = FALSE]
    OBVIOUS
  <2>2. r \in Thread /\ r.at = "leave" /\ r.op = "none" /\ r.lease = thread[Main].lease
    BY <1>2, <2>1 DEF Thread, PlainStages
  <2>3. thread' = [thread EXCEPT ![Main] = r]
    BY <1>4, <2>1
  <2>4. RecordOk(Main, r)
    BY <1>2, <2>2, PlainRecord DEF RecordOk, StageOk, PlainStages, Revoking
  <2>. QED  BY <1>1, <2>2, <2>3, <2>4, MainGoesOn
<1>5. ASSUME Fault(Main, "join") PROVE DaemonInv'
  BY <1>1, <1>5, GoesToFault, MainApart
<1>. QED  BY <1>3, <1>4, <1>5 DEF DrainHandlers, JoinHandlers

\* A step that leaves every thread where it is.
LEMMA NobodyMoves ==
    ASSUME DaemonInv, QuietShared, UNCHANGED thread,
           daemon # "up" => UNCHANGED <<stopping, armed, lease>>
    PROVE  DaemonInv'
<1>1. CASE daemon = "up"
  <2>1. /\ thread[Main] \in Thread /\ RecordOk(Main, thread[Main]) /\ SharedType /\ ThreadType
        /\ thread[Main].op = "none"
    BY RecordFacts, MainApart
  <2>2. ThreadsOk'
    <3>1. ASSUME NEW u \in Threads PROVE RecordOk(u, thread[u])'
      <4>1. thread[u] \in Thread /\ RecordOk(u, thread[u])
        BY RecordFacts
      <4>2. ASSUME NEW q \in Thread, RecordOk(u, q) PROVE RecordOk(u, q)'
        BY <2>1, <4>2, QuietRecord
      <4>. QED  BY <4>1, <4>2 DEF RecordOk, StageOk, OwnerOk, MarkedOk, BorrowOk, ContainOk,
                InFault, Expected, validate_completion
    <3>. QED  BY <2>1, <3>1 DEF ThreadsOk
  <2>3. /\ UNCHANGED <<daemon, svc, worker, inbox, replies, mapping, nextLease>>
        /\ marker' = marker \/ marker' # "none"
        /\ stopping => stopping'
        /\ SharedType' /\ (lease = NoLease => lease' = NoLease)
    BY DEF QuietShared, LeaseShrinks
  <2>4. OneOwner' /\ Channel'
    BY <2>3 DEF DaemonInv, OneOwner, Own, Live, Channel, Awaited, Command, Free, Borrows
  <2>5. UnlockedMarked' /\ Leaving' /\ Contained' /\ Down' /\ ThreadType'
    BY <1>1, <2>3 DEF DaemonInv, UnlockedMarked, Leaving, Contained, Down, Live, InFault,
       ThreadType
  <2>. QED  BY <2>2, <2>3, <2>4, <2>5, QuietState DEF DaemonInv
<1>2. CASE daemon # "up"
  <2>1. /\ UNCHANGED <<daemon, svc, worker, inbox, replies, mapping, nextLease, stopping, armed,
                       lease, thread>>
        /\ marker' = marker \/ marker' # "none"
        /\ SharedType'
    BY <1>2 DEF QuietShared
  <2>2. ThreadsOk'
    <3>1. ASSUME NEW u \in Threads PROVE RecordOk(u, thread[u])'
      <4>1. thread[u] \in Thread /\ RecordOk(u, thread[u]) /\ SharedType
        BY RecordFacts
      <4>2. ASSUME NEW q \in Thread, RecordOk(u, q) PROVE RecordOk(u, q)'
        BY <4>1, <4>2, QuietRecord
      <4>. QED  BY <4>1, <4>2 DEF RecordOk, StageOk, OwnerOk, MarkedOk, BorrowOk, ContainOk,
                InFault, Expected, validate_completion
    <3>. QED  BY <3>1 DEF DaemonInv, ThreadsOk
  <2>3. /\ OneOwner' /\ Channel' /\ UnlockedMarked' /\ Leaving' /\ Contained' /\ Down'
        /\ ThreadType'
    BY <1>2, <2>1 DEF DaemonInv, OneOwner, Channel, UnlockedMarked, Leaving, Contained, Down,
       Live, ThreadType
  <2>. QED  BY <2>1, <2>2, <2>3, QuietState DEF DaemonInv
<1>. QED  BY <1>1, <1>2

\* A stop, and the peers that come and go.
LEMMA EnvironmentQuiet ==
    ASSUME DaemonInv, StopSignal \/ \E c \in Clients : ClientExits(c) \/ ClientReturns(c)
    PROVE  DaemonInv'
<1>1. CASE StopSignal
  <2>1. MarkerGrows
    BY <1>1, MarkerSteps DEF StopSignal, DaemonInv, Works
  <2>. QED  BY <1>1, <2>1, Undisturbed, NobodyMoves DEF StopSignal
<1>2. ASSUME NEW c \in Clients, ClientExits(c) \/ ClientReturns(c)
      PROVE  DaemonInv'
  <2>1. /\ UNCHANGED <<daemon, svc, stopping, marker, armed, worker, inbox, replies, mapping,
                       lease, nextLease, thread, faults>>
    BY <1>2 DEF ClientExits, ClientReturns, disk, wire, loan
  <2>2. /\ client' \in [Clients -> {"live", "orphans", "gone"}] /\ holders' \subseteq holders
        /\ \A d \in holders' : client'[d] # "gone"
    BY <1>2 DEF ClientExits, ClientReturns, DaemonInv, LeaseKept, SharedType
  <2>3. SharedType'
    BY <2>1, <2>2 DEF DaemonInv, SharedType
  <2>4. QuietShared
    BY <2>1, <2>2, <2>3 DEF QuietShared, LeaseShrinks
  <2>. QED  BY <2>1, <2>4, NobodyMoves
<1>. QED  BY <1>1, <1>2

(***************************************************************************)
(* The steps of the one thread that has the service state.                 *)
(***************************************************************************)
\* When nobody has it, nobody is an owner and the channel holds borrows only.
LEMMA NoOwner ==
    ASSUME DaemonInv, Live, Free
    PROVE  (\A d \in Clients : ~Own(d)) /\ Borrows(inbox) /\ Borrows(replies)
<1>1. ASSUME NEW d \in Clients, Own(d) PROVE FALSE
  <2>1. OwnerOk(thread[d]) /\ thread[d].op \in Operations
    BY <1>1, RecordFacts, MainApart DEF RecordOk, Own
  <2>. QED  BY <2>1 DEF OwnerOk, Expected, validate_completion, Free
<1>2. Borrows(inbox) /\ Borrows(replies)
  BY DEF DaemonInv, Channel, Awaited, Borrows
<1>. QED  BY <1>1, <1>2

\* When somebody has it, nobody else does, and the channel is its own while it waits.
LEMMA OneOwns ==
    ASSUME DaemonInv, Live, NEW c \in Clients, Own(c)
    PROVE  /\ \A d \in Clients : d # c => ~Own(d)
           /\ thread[c].at # "reply" => Borrows(inbox) /\ Borrows(replies)
<1>1. \A d \in Clients : d # c => ~Own(d)
  BY DEF DaemonInv, OneOwner
<1>2. thread[c].at # "reply" => Borrows(inbox) /\ Borrows(replies)
  BY DEF DaemonInv, Channel, Awaited, Borrows
<1>. QED  BY <1>1, <1>2

\* The lease of a record after a step under which leases only shrink.
LEMMA BorrowKept ==
    ASSUME SharedType, LeaseShrinks, NEW u, NEW q \in Thread, StageOk(q), BorrowOk(u, q)
    PROVE  BorrowOk(u, q)'
<1>1. lease' = NoLease \/ (lease'.id = lease.id /\ lease'.client = lease.client
                              /\ lease'.state \in {lease.state, "revoking"})
  BY MainApart DEF LeaseShrinks
<1>. QED  BY <1>1, MainApart DEF BorrowOk, StageOk

\* A step of the owner, or of the thread that becomes the owner.
LEMMA OwnerMove ==
    ASSUME DaemonInv, Live, Live', NEW c \in Clients, NEW r \in Thread,
           thread' = [thread EXCEPT ![c] = r], thread[c].at # "idle",
           \A d \in Clients : d # c => ~Own(d), Borrows(inbox), Borrows(replies),
           UNCHANGED <<worker, inbox, replies, mapping, nextLease, client, holders>>,
           SharedType', LeaseShrinks, RecordOk(c, r)',
           \/ marker' = marker \/ marker' # "none"
           \/ mapping = "closed" /\ holders = {},
           svc'.vault = "locked" => lease' = NoLease /\ mapping = "closed" /\ Free',
           svc'.vault = "unlocked" => marker' # "none"
    PROVE  DaemonInv'
<1>1. /\ SharedType /\ ThreadType /\ ThreadsOk
  BY DEF DaemonInv
<1>2. /\ thread'[c] = r /\ \A u \in Threads : u # c => thread'[u] = thread[u]
      /\ ThreadType'
  BY <1>1, MovedThreads, MainApart
<1>3. ThreadsOk'
  <2>1. ASSUME NEW u \in Threads PROVE RecordOk(u, thread[u])'
    <3>1. CASE u = c
      <4>1. thread'[u] = r
        BY <1>2, <3>1
      <4>. QED  BY <3>1, <4>1 DEF RecordOk, StageOk, OwnerOk, MarkedOk, BorrowOk, ContainOk,
                InFault, Expected, validate_completion
    <3>2. CASE u # c
      <4>1. /\ thread'[u] = thread[u] /\ thread[u] \in Thread /\ RecordOk(u, thread[u])
            /\ thread[u].op \notin Operations
        BY <1>1, <1>2, <3>2 DEF ThreadsOk, ThreadType, Own, Threads, Operations
      <4>2. ASSUME NEW q \in Thread, RecordOk(u, q), q.op \notin Operations
            PROVE  RecordOk(u, q)'
        <5>1. StageOk(q)'
          BY <4>2 DEF RecordOk, StageOk
        <5>2. OwnerOk(q)' /\ MarkedOk(q)'
          BY <4>2 DEF OwnerOk, MarkedOk, Operations
        <5>3. BorrowOk(u, q)'
          BY <1>1, <4>2, BorrowKept DEF RecordOk
        <5>4. ContainOk(q)'
          BY <4>2 DEF RecordOk, ContainOk, Live
        <5>. QED  BY <5>1, <5>2, <5>3, <5>4 DEF RecordOk
      <4>. QED  BY <4>1, <4>2 DEF RecordOk, StageOk, OwnerOk, MarkedOk, BorrowOk, ContainOk,
                InFault, Expected, validate_completion
    <3>. QED  BY <3>1, <3>2
  <2>2. thread'[Main].op = "none"
    BY <1>1, <1>2, MainApart DEF ThreadsOk
  <2>. QED  BY <2>1, <2>2 DEF ThreadsOk
<1>4. OneOwner'
  BY <1>2, MainApart DEF OneOwner, Own
<1>5. Channel' /\ Attestations' /\ CommandsMarked'
  BY DEF DaemonInv, Channel, Borrows, Attestations, CommandsMarked
<1>6. OpenIsMarked' /\ UnlockedMarked'
  BY DEF DaemonInv, OpenIsMarked, UnlockedMarked, Live
<1>7. LeaseKept' /\ CredentialLeased'
  <2>1. \A d \in holders : client[d] # "gone" /\ lease.client = d
                              /\ lease.state \in {"issued", "established", "revoking"}
    BY DEF DaemonInv, LeaseKept, CredentialLeased, Live
  <2>2. lease' # NoLease => lease # NoLease /\ lease'.id = lease.id
    BY DEF LeaseShrinks
  <2>3. LeaseKept'
    BY <2>1, <2>2 DEF DaemonInv, LeaseKept, Live
  <2>4. CredentialLeased'
    BY <2>1 DEF LeaseShrinks, CredentialLeased
  <2>. QED  BY <2>3, <2>4
<1>8. Leaving' /\ Contained' /\ Down'
  BY <1>2, MainApart DEF DaemonInv, Leaving, Contained, Down, Live
<1>. QED  BY <1>2, <1>3, <1>4, <1>5, <1>6, <1>7, <1>8 DEF DaemonInv

\* A request that takes the service state.
LEMMA BeginInv ==
    ASSUME DaemonInv, NEW c \in Clients,
           \/ begin_unlock(c) \/ begin_lock(c)
           \/ begin_provider_operation(c, "mutate") \/ begin_provider_operation(c, "read")
    PROVE  DaemonInv'
<1>1. /\ daemon = "up" /\ thread[c].at = "accepted" /\ Live /\ Free
      /\ UNCHANGED <<daemon, stopping, marker, armed, worker, inbox, replies, mapping, nextLease,
                     client, holders, faults>>
  BY DEF begin_unlock, begin_lock, begin_provider_operation, Admitted, At, Live, disk, wire, loan,
     peer
<1>2. /\ thread[c] \in Thread /\ RecordOk(c, thread[c]) /\ SharedType /\ ThreadType
  BY RecordFacts, MainApart
<1>3. thread[c].op = "none" /\ thread[c].code = "none" /\ thread[c].lease < nextLease
  BY <1>1, <1>2 DEF RecordOk, StageOk, Thread, OwnerStages, BorrowStages,
     PendingStages, IssuedStages, Dispatched, Revoking
<1>4. (\A d \in Clients : ~Own(d)) /\ Borrows(inbox) /\ Borrows(replies)
  BY <1>1, NoOwner
<1>5. svc.vault = "unlocked" => marker # "none"
  BY <1>1 DEF DaemonInv, UnlockedMarked
<1>6. ASSUME NEW r \in Thread, thread' = [thread EXCEPT ![c] = r], Live', svc' \in ServiceState,
             svc'.vault # "faulted", svc'.vault # "locked", svc'.vault = "unlocked" => marker # "none",
             LeaseShrinks, RecordOk(c, r)'
      PROVE  DaemonInv'
  <2>1. lease' \in BorrowLease \cup {NoLease}
    BY <1>2, <1>6 DEF LeaseShrinks, SharedType
  <2>2. SharedType'
    BY <1>1, <1>2, <1>6, <2>1 DEF SharedType, Live
  <2>. QED  BY <1>1, <1>4, <1>6, <2>2, OwnerMove
<1>7. CASE begin_unlock(c)
  <2>1. /\ svc.vault = "locked" /\ svc' = [svc EXCEPT !.vault = "unlocking", !.origin = TRUE]
        /\ UNCHANGED lease
    BY <1>7 DEF begin_unlock, loan
  <2>2. /\ svc' \in ServiceState /\ svc'.vault = "unlocking" /\ svc'.origin = TRUE
        /\ svc'.busy = FALSE /\ svc'.faulted = FALSE
    BY <1>1, <1>2, <2>1 DEF SharedType, ServiceState, Vault, Live, Free
  <2>3. lease = NoLease /\ mapping = "closed"
    BY <1>1, <2>1 DEF DaemonInv, LeaseKept
  <2>4. PICK r : r = [thread[c] EXCEPT !.at = "gate", !.op = "unlock"]
    OBVIOUS
  <2>5. /\ r \in Thread /\ r.at = "gate" /\ r.op = "unlock" /\ r.code = "none"
        /\ r.lease = thread[c].lease
    BY <1>2, <1>3, <2>4 DEF Thread, OwnerStages, Operations
  <2>6. thread' = [thread EXCEPT ![c] = r]
    BY <1>7, <2>4 DEF begin_unlock
  <2>7. RecordOk(c, r)'
    <3>1. StageOk(r)'
      BY <1>1, <1>3, <2>5 DEF StageOk, Operations, OwnerStages, Revoking
    <3>2. OwnerOk(r)'
      BY <1>1, <2>1, <2>2, <2>3, <2>5 DEF OwnerOk, Expected, validate_completion, Transition, Revoking
    <3>3. MarkedOk(r)' /\ BorrowOk(c, r)' /\ ContainOk(r)'
      BY <2>5 DEF MarkedOk, BorrowOk, ContainOk, InFault, Revoking, Dispatched
    <3>. QED  BY <3>1, <3>2, <3>3 DEF RecordOk
  <2>. QED  BY <1>1, <1>6, <2>1, <2>2, <2>5, <2>6, <2>7 DEF Live, LeaseShrinks
<1>8. CASE begin_lock(c)
  <2>1. /\ svc.vault = "unlocked" /\ svc' = [svc EXCEPT !.vault = "locking", !.origin = TRUE]
    BY <1>8 DEF begin_lock
  <2>2. /\ svc' \in ServiceState /\ svc'.vault = "locking" /\ svc'.origin = TRUE
        /\ svc'.busy = FALSE /\ svc'.faulted = FALSE
    BY <1>1, <1>2, <2>1 DEF SharedType, ServiceState, Vault, Live, Free
  <2>3. ASSUME NEW r \in Thread, thread' = [thread EXCEPT ![c] = r], r.op = "lock", r.code = "none",
               LeaseShrinks,
               \/ lease' = NoLease /\ r.at = "arm" /\ r.lease = thread[c].lease
               \/ /\ r.at = "revoke" /\ lease' # NoLease /\ r.lease = lease'.id /\ r.then = "arm"
                  /\ r.lease < nextLease /\ r.lease # 0
        PROVE  DaemonInv'
    <3>1. StageOk(r)'
      BY <1>1, <1>3, <2>3 DEF StageOk, Operations, OwnerStages, Revoking
    <3>2. OwnerOk(r)'
      BY <1>1, <2>1, <2>2, <2>3 DEF OwnerOk, Expected, validate_completion, Transition, Revoking
    <3>3. MarkedOk(r)' /\ BorrowOk(c, r)' /\ ContainOk(r)'
      BY <1>1, <1>5, <2>1, <2>3 DEF MarkedOk, BorrowOk, ContainOk, InFault, Revoking, Dispatched
    <3>4. RecordOk(c, r)'
      BY <3>1, <3>2, <3>3 DEF RecordOk
    <3>. QED  BY <1>1, <1>6, <2>2, <2>3, <3>4 DEF Live
  <2>4. CASE lease = NoLease
    <3>1. PICK r : r = [thread[c] EXCEPT !.at = "arm", !.op = "lock"]
      OBVIOUS
    <3>2. /\ r \in Thread /\ r.at = "arm" /\ r.op = "lock" /\ r.code = "none"
          /\ r.lease = thread[c].lease
      BY <1>2, <1>3, <3>1 DEF Thread, OwnerStages, Operations
    <3>3. thread' = [thread EXCEPT ![c] = r] /\ lease' = lease
      BY <1>8, <2>4, <3>1 DEF begin_lock
    <3>. QED  BY <2>3, <2>4, <3>2, <3>3 DEF LeaseShrinks
  <2>5. CASE lease # NoLease
    <3>0. lease \in BorrowLease /\ lease.id \in Nat /\ lease.id # 0 /\ lease.id < nextLease
      BY <1>2, <2>5, LeaseCases DEF DaemonInv, LeaseKept
    <3>1. PICK r : r = [thread[c] EXCEPT !.at = "revoke", !.op = "lock",
                                         !.lease = lease.id, !.then = "arm"]
      OBVIOUS
    <3>2. /\ r \in Thread /\ r.at = "revoke" /\ r.op = "lock" /\ r.code = "none"
          /\ r.lease = lease.id /\ r.then = "arm"
      BY <1>2, <1>3, <3>0, <3>1 DEF Thread, OwnerStages, Operations, Revoking
    <3>3. thread' = [thread EXCEPT ![c] = r] /\ lease' = [lease EXCEPT !.state = "revoking"]
      BY <1>8, <2>5, <3>1 DEF begin_lock
    <3>4. lease' \in BorrowLease /\ lease'.id = lease.id /\ LeaseShrinks
      BY <2>5, <3>0, <3>3 DEF BorrowLease, LeaseShrinks
    <3>5. lease' # NoLease
      BY <3>4, MainApart
    <3>. QED  BY <2>3, <3>0, <3>2, <3>3, <3>4, <3>5
  <2>. QED  BY <2>4, <2>5
<1>9. ASSUME NEW op \in {"mutate", "read"}, begin_provider_operation(c, op) PROVE DaemonInv'
  <2>1. /\ svc.vault = "unlocked" /\ svc' = [svc EXCEPT !.busy = TRUE, !.origin = (op = "mutate")]
        /\ lease = NoLease /\ UNCHANGED lease
    BY <1>9 DEF begin_provider_operation, loan
  <2>2. /\ svc' \in ServiceState /\ svc'.vault = "unlocked" /\ svc'.origin = (op = "mutate")
        /\ svc'.busy = TRUE /\ svc'.faulted = FALSE
    BY <1>1, <1>2, <2>1 DEF SharedType, ServiceState, Live, Free
  <2>3. PICK r : r = [thread[c] EXCEPT !.at = "arm", !.op = op]
    OBVIOUS
  <2>4. /\ r \in Thread /\ r.at = "arm" /\ r.op = op /\ r.code = "none"
        /\ r.lease = thread[c].lease
    BY <1>2, <1>3, <2>3 DEF Thread, OwnerStages, Operations
  <2>5. thread' = [thread EXCEPT ![c] = r]
    BY <1>9, <2>3 DEF begin_provider_operation
  <2>6. RecordOk(c, r)'
    <3>1. StageOk(r)'
      BY <1>1, <1>3, <2>4 DEF StageOk, Operations, OwnerStages, Revoking
    <3>2. OwnerOk(r)'
      BY <1>1, <2>1, <2>2, <2>4 DEF OwnerOk, Expected, Revoking
    <3>3. MarkedOk(r)' /\ BorrowOk(c, r)' /\ ContainOk(r)'
      BY <2>4 DEF MarkedOk, BorrowOk, ContainOk, InFault, Revoking, Dispatched
    <3>. QED  BY <3>1, <3>2, <3>3 DEF RecordOk
  <2>. QED  BY <1>1, <1>5, <1>6, <2>1, <2>2, <2>4, <2>5, <2>6 DEF Live, LeaseShrinks
<1>. QED  BY <1>7, <1>8, <1>9

\* What the owner knows behind the revocation.
LEMMA OwnerFacts ==
    ASSUME DaemonInv, NEW c \in Clients, daemon = "up",
           \/ thread[c].at \in {"gate", "rollback", "attested"}
           \/ thread[c].at = "finish" /\ thread[c].op # "borrow"
    PROVE  /\ thread[c] \in Thread /\ RecordOk(c, thread[c]) /\ SharedType /\ ThreadType
           /\ Own(c) /\ ~InFault(thread[c])
           /\ Live => /\ Expected(thread[c].op) /\ lease = NoLease /\ holders = {}
                      /\ \A d \in Clients : d # c => ~Own(d)
                      /\ Borrows(inbox) /\ Borrows(replies)
<1>1. /\ thread[c] \in Thread /\ RecordOk(c, thread[c]) /\ SharedType /\ ThreadType
  BY RecordFacts, MainApart
<1>2. Own(c) /\ ~InFault(thread[c])
  BY <1>1 DEF RecordOk, StageOk, Own, Thread, BorrowStages, PendingStages, IssuedStages,
     PlainStages, Revoking, InFault
<1>3. ASSUME Live PROVE Expected(thread[c].op) /\ lease = NoLease
  BY <1>1, <1>2, <1>3 DEF RecordOk, OwnerOk, Own, Revoking
<1>4. ASSUME Live PROVE holders = {}
  BY <1>3, <1>4, NothingLent, MainApart
<1>5. ASSUME Live PROVE /\ \A d \in Clients : d # c => ~Own(d)
                        /\ Borrows(inbox) /\ Borrows(replies)
  BY <1>2, <1>5, OneOwns
<1>. QED  BY <1>1, <1>2, <1>3, <1>4, <1>5

\* The owner gives the service state back, or goes into a fault with it.
LEMMA OwnerEnds ==
    ASSUME DaemonInv, Live, NEW c \in Clients, thread[c].at # "idle",
           lease = NoLease, holders = {},
           \A d \in Clients : d # c => ~Own(d), Borrows(inbox), Borrows(replies),
           Done(c) \/ Fault(c, "idle"),
           svc' \in ServiceState, svc'.faulted = FALSE, svc'.vault # "faulted",
           UNCHANGED <<daemon, stopping, wire, loan, peer>>,
           marker' \in {"none", "partial", "whole"}, armed' \in BOOLEAN, faults' \in Nat,
           marker' = marker \/ marker' # "none" \/ mapping = "closed",
           svc'.vault = "locked" => mapping = "closed" /\ Free',
           svc'.vault = "unlocked" => marker' # "none"
    PROVE  DaemonInv'
<1>1. Live' /\ LeaseShrinks
  BY DEF Live, LeaseShrinks, loan
<1>2. SharedType'
  BY DEF DaemonInv, SharedType, wire, loan, peer
<1>3. PICK r \in Thread : (r = Idle \/ r = FaultRecord("idle")) /\ thread' = [thread EXCEPT ![c] = r]
  BY IdleFields, FaultFields DEF Done, Fault, FaultRecord
<1>4. /\ r.op = "none" /\ r.lease = 0 /\ r.at \in {"idle", "fault"}
      /\ r.at \in {"idle", "accepted"} => r.code = "none"
  BY <1>3, IdleFields, FaultFields
<1>5. 0 < nextLease'
  BY <1>2 DEF SharedType
<1>6. RecordOk(c, r)'
  <2>1. StageOk(r)'
    BY <1>4, <1>5 DEF StageOk, PlainStages, Operations, Revoking
  <2>2. OwnerOk(r)' /\ MarkedOk(r)' /\ BorrowOk(c, r)' /\ ContainOk(r)'
    BY <1>4 DEF OwnerOk, MarkedOk, BorrowOk, ContainOk, InFault, Operations, Revoking
  <2>. QED  BY <2>1, <2>2 DEF RecordOk
<1>7. UNCHANGED <<worker, inbox, replies, mapping, nextLease, client, holders, lease>>
  BY DEF wire, loan, peer
<1>. QED  BY <1>1, <1>2, <1>3, <1>6, <1>7, OwnerMove

\* The service state after a completion.
LEMMA Completed ==
    ASSUME SharedType, Live, NEW v \in Vault, apply_completion(v)
    PROVE  svc' \in ServiceState /\ svc'.faulted = FALSE /\ svc'.vault = v /\ Free'
<1>1. svc \in ServiceState /\ svc.faulted = FALSE
  BY DEF SharedType, ServiceState, Live
<1>. QED  BY <1>1 DEF ServiceState, apply_completion, Free

\* The service state after a rollback.
LEMMA RolledBackState ==
    ASSUME SharedType, Live, NEW op, RolledBack(op)
    PROVE  /\ svc' \in ServiceState /\ svc'.faulted = FALSE
           /\ svc'.vault = IF op = "unlock" THEN "locked" ELSE "unlocked"
           /\ Free'
<1>1. svc \in ServiceState /\ svc.faulted = FALSE
  BY DEF SharedType, ServiceState, Live
<1>. QED  BY <1>1 DEF ServiceState, RolledBack, Vault, Free

\* The secret gate.
LEMMA SecretGateInv ==
    ASSUME DaemonInv, NEW c \in Clients, SecretGate(c)
    PROVE  DaemonInv'
<1>1. daemon = "up" /\ thread[c].at = "gate"
  BY DEF SecretGate, At
<1>2. CASE UNCHANGED svc
  BY <1>2, SecretGateQuiet
<1>3. CASE validate_completion("unlocking") /\ apply_completion("locked") /\ Done(c) /\ Works
  <2>1. Live
    BY <1>1, <1>3 DEF validate_completion, Live
  <2>2. /\ SharedType /\ lease = NoLease /\ holders = {} /\ RecordOk(c, thread[c])
        /\ \A d \in Clients : d # c => ~Own(d)
        /\ Borrows(inbox) /\ Borrows(replies)
    BY <1>1, <2>1, OwnerFacts
  <2>3. mapping = "closed"
    BY <1>1, <2>1, <2>2 DEF RecordOk, StageOk, OwnerOk, Operations
  <2>4. svc' \in ServiceState /\ svc'.faulted = FALSE /\ svc'.vault = "locked" /\ Free'
    BY <1>3, <2>1, <2>2, Completed DEF Vault
  <2>5. UNCHANGED <<daemon, stopping, marker, armed, faults, wire, loan, peer>>
    BY <1>3 DEF SecretGate, disk, Works
  <2>. QED  BY <1>1, <1>3, <2>1, <2>2, <2>3, <2>4, <2>5, OwnerEnds DEF SharedType
<1>. QED  BY <1>2, <1>3 DEF SecretGate

\* The marker is there while the Vault is unlocked and a handler is at work.
LEMMA BusyMarked ==
    ASSUME DaemonInv, Live, svc.vault = "unlocked", NEW c \in Clients, thread[c].at # "idle"
    PROVE  marker # "none"
BY DEF DaemonInv, UnlockedMarked

\* The end of an operation that was not dispatched.
LEMMA RollbackInv ==
    ASSUME DaemonInv, NEW c \in Clients, Rollback(c)
    PROVE  DaemonInv'
<1>1. daemon = "up" /\ thread[c].at = "rollback"
  BY DEF Rollback, At
<1>2. /\ SharedType /\ thread[c] \in Thread /\ RecordOk(c, thread[c]) /\ Own(c)
  BY <1>1, OwnerFacts
<1>3. CASE ~Expected(thread[c].op)
  <2>1. Fault(c, "idle") /\ QuietShared
    BY <1>3, Unmoved DEF Rollback
  <2>. QED  BY <1>1, <2>1, GoesToFault, MainApart
<1>4. CASE Expected(thread[c].op)
  <2>1. Live
    BY <1>1, <1>4 DEF Live, Expected, validate_completion
  <2>2. /\ lease = NoLease /\ holders = {}
        /\ \A d \in Clients : d # c => ~Own(d)
        /\ Borrows(inbox) /\ Borrows(replies)
    BY <1>1, <2>1, OwnerFacts
  <2>3. /\ svc' \in ServiceState /\ svc'.faulted = FALSE
        /\ svc'.vault = IF thread[c].op = "unlock" THEN "locked" ELSE "unlocked"
        /\ Free'
    BY <1>2, <1>4, <2>1, RolledBackState DEF Rollback
  <2>4. thread[c].op = "unlock" => mapping = "closed"
    BY <1>1, <1>2, <2>1 DEF RecordOk, OwnerOk, Operations
  <2>5. thread[c].op # "unlock" => marker # "none"
    <3>1. CASE thread[c].op = "lock"
      BY <1>2, <3>1 DEF RecordOk, MarkedOk
    <3>2. CASE thread[c].op \notin {"unlock", "lock"}
      BY <1>1, <1>4, <2>1, <3>2, BusyMarked DEF Expected
    <3>. QED  BY <3>1, <3>2
  <2>6. /\ UNCHANGED <<daemon, stopping, marker, armed, faults, wire, loan, peer>> /\ Done(c)
    BY <1>4 DEF Rollback, disk
  <2>. QED  BY <1>1, <1>2, <2>1, <2>2, <2>3, <2>4, <2>5, <2>6, OwnerEnds DEF SharedType
<1>. QED  BY <1>3, <1>4

\* The worker's answer to the owner.
LEMMA FinishInv ==
    ASSUME DaemonInv, NEW c \in Clients, Finish(c)
    PROVE  DaemonInv'
<1>. DEFINE op == thread[c].op
            code == thread[c].code
<1>1. /\ daemon = "up" /\ thread[c].at = "finish" /\ op # "borrow"
      /\ UNCHANGED <<daemon, stopping, wire, loan, peer>>
  BY DEF Finish, At
<1>2. /\ SharedType /\ ThreadType /\ thread[c] \in Thread /\ RecordOk(c, thread[c]) /\ Own(c)
      /\ ~InFault(thread[c])
  BY <1>1, OwnerFacts
<1>3. ASSUME MarkerGrows, UNCHANGED svc, Fault(c, "idle") PROVE DaemonInv'
  <2>1. QuietShared
    BY <1>1, <1>2, <1>3, Undisturbed DEF SharedType
  <2>. QED  BY <1>1, <1>3, <2>1, GoesToFault, MainApart
<1>4. UNCHANGED <<disk, faults>> => MarkerGrows
  BY <1>2, MarkerSteps DEF Works
<1>5. ASSUME Live, Done(c), svc' \in ServiceState, svc'.faulted = FALSE,
             svc'.vault = "unlocked", MarkerGrows, marker' # "none"
      PROVE  DaemonInv'
  <2>1. /\ lease = NoLease /\ holders = {} /\ Borrows(inbox) /\ Borrows(replies)
        /\ \A d \in Clients : d # c => ~Own(d)
    BY <1>1, <1>5, OwnerFacts
  <2>. QED  BY <1>1, <1>5, <2>1, OwnerEnds DEF MarkerGrows
<1>6. CASE /\ op = "unlock" /\ validate_completion("unlocking") /\ arm_lifecycle
           /\ apply_completion("unlocked") /\ Done(c)
  <2>1. Live
    BY <1>1, <1>6 DEF validate_completion, Live
  <2>2. svc' \in ServiceState /\ svc'.faulted = FALSE /\ svc'.vault = "unlocked"
    BY <1>2, <1>6, <2>1, Completed DEF Vault
  <2>. QED  BY <1>2, <1>5, <1>6, <2>1, <2>2, MarkerSteps
<1>7. CASE ArmFails /\ Fault(c, "idle") /\ UNCHANGED svc
  BY <1>2, <1>3, <1>7, MarkerSteps
<1>8. CASE Fault(c, "idle") /\ UNCHANGED <<svc, disk, faults>>
  BY <1>3, <1>4, <1>8
<1>9. CASE /\ op \in {"mutate", "read"} /\ Expected(op) /\ RolledBack(op) /\ Done(c)
           /\ UNCHANGED <<disk, faults>>
  <2>1. Live /\ svc.vault = "unlocked"
    BY <1>1, <1>9 DEF Expected, Live
  <2>2. svc' \in ServiceState /\ svc'.faulted = FALSE /\ svc'.vault = "unlocked"
    BY <1>2, <1>9, <2>1, RolledBackState
  <2>3. marker # "none"
    BY <1>1, <2>1, BusyMarked
  <2>. QED  BY <1>4, <1>5, <1>9, <2>1, <2>2, <2>3 DEF disk
<1>10. CASE Go(c, "send") /\ UNCHANGED <<svc, disk, faults>>
  <2>1. QuietShared
    BY <1>1, <1>2, <1>4, <1>10, Undisturbed DEF SharedType
  <2>2. PICK r \in Thread : /\ thread' = [thread EXCEPT ![c] = r]
                            /\ r.at = "send" /\ SameBut(thread[c], r)
    BY <1>2, <1>10, GoRecord, MainApart DEF Stages, OwnerStages, Dispatched
  <2>3. r.op \in Operations
    BY <1>2, <2>2 DEF SameBut, Own
  <2>4. StageOk(r)
    BY <1>1, <1>2, <2>2, <2>3 DEF SameBut, RecordOk, StageOk, OwnerStages, Dispatched, Operations,
       Revoking
  <2>5. OwnerOk(r) /\ MarkedOk(r) /\ BorrowOk(c, r) /\ ContainOk(r)
    BY <1>1, <1>2, <2>2, <2>3 DEF SameBut, RecordOk, OwnerOk, MarkedOk, BorrowOk, ContainOk,
       Dispatched, Operations, Revoking, InFault
  <2>. QED  BY <1>1, <1>2, <2>1, <2>2, <2>4, <2>5, GoesOn DEF RecordOk, SameBut
<1>. QED  BY <1>6, <1>7, <1>8, <1>9, <1>10 DEF Finish

\* The attestation: the marker goes behind it, and only behind it.
LEMMA AttestedInv ==
    ASSUME DaemonInv, NEW c \in Clients, Attested(c)
    PROVE  DaemonInv'
<1>. DEFINE sound == /\ thread[c].code # "bad"
                     /\ validate_completion(Transition(thread[c].op))
<1>1. /\ daemon = "up" /\ thread[c].at = "attested"
      /\ UNCHANGED <<daemon, stopping, wire, loan, peer>>
  BY DEF Attested, At
<1>2. /\ SharedType /\ ThreadType /\ thread[c] \in Thread /\ RecordOk(c, thread[c]) /\ Own(c)
  BY <1>1, OwnerFacts
<1>3. CASE Fault(c, "idle") /\ UNCHANGED <<svc, disk, faults>>
  <2>1. QuietShared
    BY <1>1, <1>3, Unmoved
  <2>. QED  BY <1>1, <1>3, <2>1, GoesToFault, MainApart
<1>4. ASSUME sound,
             \/ /\ disarm /\ Done(c)
                /\ \E v \in {"locked", "unavailable"} : apply_completion(v)
             \/ DisarmFails /\ Fault(c, "idle") /\ UNCHANGED svc
      PROVE  DaemonInv'
  <2>1. Live
    BY <1>1, <1>4 DEF validate_completion, Live
  <2>2. /\ lease = NoLease /\ holders = {} /\ Borrows(inbox) /\ Borrows(replies)
        /\ \A d \in Clients : d # c => ~Own(d)
    BY <1>1, <2>1, OwnerFacts
  <2>3. mapping = "closed"
    BY <1>1, <1>2, <1>4, <2>1 DEF RecordOk, OwnerOk, Own
  <2>4. marker' \in {"none", "partial", "whole"} /\ armed' \in BOOLEAN /\ faults' \in Nat
    <3>1. marker \in {"none", "partial", "whole"} /\ armed \in BOOLEAN /\ faults \in Nat
      BY <1>2 DEF SharedType
    <3>2. CASE disarm
      BY <3>1, <3>2 DEF disarm, Works
    <3>3. CASE DisarmFails
      <4>1. CASE armed /\ marker = "whole"
        BY <3>1, <3>3, <4>1 DEF DisarmFails, Fails
      <4>2. CASE ~(armed /\ marker = "whole")
        BY <3>1, <3>3, <4>2 DEF DisarmFails, Works
      <4>. QED  BY <4>1, <4>2
    <3>. QED  BY <1>4, <3>2, <3>3
  <2>5. /\ svc' \in ServiceState /\ svc'.faulted = FALSE
        /\ svc'.vault \notin {"faulted", "unlocked"}
        /\ svc'.vault = "locked" => Free'
    <3>1. CASE \E v \in {"locked", "unavailable"} : apply_completion(v)
      BY <1>2, <2>1, <3>1, Completed DEF Vault
    <3>2. CASE UNCHANGED svc
      <4>1. svc.vault \in {"unlocking", "locking"} /\ svc.faulted = FALSE
        BY <1>2, <1>4 DEF validate_completion, Transition, SharedType, ServiceState
      <4>. QED  BY <1>2, <3>2, <4>1 DEF SharedType
    <3>. QED  BY <1>4, <3>1, <3>2
  <2>. QED  BY <1>1, <1>4, <2>1, <2>2, <2>3, <2>4, <2>5, OwnerEnds
<1>. QED  BY <1>3, <1>4 DEF Attested

(***************************************************************************)
(* The channel to the worker.                                              *)
(***************************************************************************)
\* The elements of a queue behind its head, and in front of what is appended.
LEMMA QueueElements ==
    ASSUME NEW S, NEW s \in Seq(S)
    PROVE  /\ s # <<>> => /\ Tail(s) \in Seq(S) /\ Head(s) \in S /\ Head(s) = s[1]
                          /\ 1 \in 1..Len(s) /\ Len(Tail(s)) = Len(s) - 1
                          /\ \A i \in 1..Len(Tail(s)) : /\ i + 1 \in 1..Len(s) /\ i + 1 # 1
                                                        /\ Tail(s)[i] = s[i + 1]
           /\ \A e \in S : /\ Append(s, e) \in Seq(S) /\ Len(Append(s, e)) = Len(s) + 1
                           /\ \A i \in 1..Len(Append(s, e)) :
                                 \/ i \in 1..Len(s) /\ Append(s, e)[i] = s[i]
                                 \/ i = Len(s) + 1 /\ Append(s, e)[i] = e
           /\ Len(s) \in Nat
OBVIOUS

\* What a thread relies on, when only the worker and its channel change.
WireStep ==
    /\ UNCHANGED <<daemon, svc, stopping, marker, armed, lease, nextLease, client, holders>>
    /\ worker'.up => worker.up
    /\ SharedType'

\* A step of the channel takes nothing from a record its thread relies on.
LEMMA WireRecord ==
    ASSUME WireStep, NEW u, NEW q \in Thread, RecordOk(u, q),
           mapping' = mapping \/ ~Live \/ q.op \notin Operations \/ q.at = "reply"
    PROVE  RecordOk(u, q)'
<1>1. /\ UNCHANGED <<daemon, svc, stopping, marker, armed, lease, nextLease, client, holders>>
      /\ worker'.up => worker.up
  BY DEF WireStep
<1>2. StageOk(q)' /\ MarkedOk(q)' /\ BorrowOk(u, q)' /\ ContainOk(q)'
  BY <1>1 DEF RecordOk, StageOk, MarkedOk, BorrowOk, ContainOk
<1>3. OwnerOk(q)'
  BY <1>1 DEF RecordOk, OwnerOk, Live, Expected, validate_completion
<1>. QED  BY <1>2, <1>3 DEF RecordOk

\* A handler that sends or receives.
LEMMA WireMove ==
    ASSUME DaemonInv, daemon = "up", WireStep, UNCHANGED mapping, NEW c \in Clients,
           NEW r \in Thread, thread' = [thread EXCEPT ![c] = r],
           r.op \in Operations => r.op = thread[c].op,
           thread[c].at \notin {"idle", "fault"}, ~InFault(thread[c]), RecordOk(c, r),
           Channel', Attestations', CommandsMarked'
    PROVE  DaemonInv'
<1>1. /\ SharedType /\ ThreadType /\ ThreadsOk
  BY DEF DaemonInv
<1>2. /\ thread'[c] = r /\ \A u \in Threads : u # c => thread'[u] = thread[u]
      /\ ThreadType'
  BY <1>1, MovedThreads, MainApart
<1>3. /\ UNCHANGED <<daemon, svc, stopping, marker, armed, lease, nextLease, client, holders>>
      /\ worker'.up => worker.up
      /\ SharedType'
  BY DEF WireStep
<1>4. ThreadsOk'
  <2>1. ASSUME NEW u \in Threads PROVE RecordOk(u, thread[u])'
    <3>1. PICK q \in Thread : q = thread'[u] /\ RecordOk(u, q)
      BY <1>1, <1>2 DEF ThreadsOk, ThreadType
    <3>2. RecordOk(u, q)'
      BY <3>1, WireRecord
    <3>. QED  BY <3>1, <3>2 DEF RecordOk, StageOk, OwnerOk, MarkedOk, BorrowOk, ContainOk,
              InFault, Expected, validate_completion
  <2>2. thread'[Main].op = "none"
    BY <1>1, <1>2, MainApart DEF ThreadsOk
  <2>. QED  BY <2>1, <2>2 DEF ThreadsOk
<1>5. OneOwner'
  BY <1>2, <1>3, MainApart DEF DaemonInv, OneOwner, Own, Live
<1>6. OpenIsMarked' /\ LeaseKept' /\ CredentialLeased'
  BY <1>3 DEF DaemonInv, OpenIsMarked, LeaseKept, CredentialLeased, Live, Free
<1>7. UnlockedMarked' /\ Leaving'
  BY <1>2, <1>3, MainApart DEF DaemonInv, UnlockedMarked, Leaving, Live
<1>8. Contained'
  BY <1>2, <1>3 DEF DaemonInv, Contained, InFault
<1>9. Down'
  BY <1>3 DEF Down
<1>. QED  BY <1>2, <1>3, <1>4, <1>5, <1>6, <1>7, <1>8, <1>9 DEF DaemonInv

\* Sending a command.
LEMMA SendInv ==
    ASSUME DaemonInv, NEW c \in Clients, Send(c)
    PROVE  DaemonInv'
<1>1. /\ daemon = "up" /\ thread[c].at = "send"
      /\ UNCHANGED <<daemon, svc, stopping, disk, worker, replies, mapping, loan, peer, faults>>
  BY DEF Send, At
<1>2. /\ thread[c] \in Thread /\ RecordOk(c, thread[c]) /\ SharedType /\ ThreadType
  BY RecordFacts, MainApart
<1>3. CASE Unanswered(c) /\ UNCHANGED inbox
  <2>1. QuietShared
    BY <1>1, <1>3, Unmoved DEF wire
  <2>. QED  BY <1>1, <1>3, <2>1, UnansweredInv
<1>4. CASE /\ worker.up /\ ~worker.terminal /\ ChannelFree /\ Go(c, "reply")
           /\ inbox' = Append(inbox, [op |-> Command(c), from |-> c])
  <2>1. /\ thread[c].op \in Operations \cup {"borrow"} /\ ~InFault(thread[c])
        /\ thread[c].op = "borrow" => thread[c].code = "none"
    BY <1>1, <1>2 DEF RecordOk, StageOk, Thread, PlainStages, Revoking, InFault
  <2>2. PICK m : m = [op |-> Command(c), from |-> c]
    OBVIOUS
  <2>m. m \in [op : Commands, from : Clients] /\ m.op = Command(c)
    BY <2>1, <2>2 DEF Command, Commands
  <2>3. PICK r \in Thread : /\ thread' = [thread EXCEPT ![c] = r]
                            /\ r.at = "reply" /\ SameBut(thread[c], r)
    BY <1>2, <1>4, GoRecord, MainApart DEF Stages, OwnerStages, Dispatched
  <2>4. RecordOk(c, r)
    <3>1. StageOk(r)
      BY <1>1, <1>2, <2>1, <2>3 DEF SameBut, RecordOk, StageOk, OwnerStages, BorrowStages,
         IssuedStages, Dispatched, Revoking, Operations
    <3>2. OwnerOk(r) /\ MarkedOk(r)
      BY <1>1, <1>2, <2>3 DEF SameBut, RecordOk, OwnerOk, MarkedOk, Dispatched, Revoking
    <3>3. BorrowOk(c, r) /\ ContainOk(r)
      BY <1>1, <1>2, <2>3 DEF SameBut, RecordOk, BorrowOk, ContainOk, InFault, Revoking,
         PendingStages, IssuedStages
    <3>. QED  BY <3>1, <3>2, <3>3 DEF RecordOk
  <2>5. /\ inbox' \in Seq([op : Commands, from : Clients])
        /\ Len(inbox') = Len(inbox) + 1 /\ Len(inbox) \in Nat
        /\ \A i \in 1..Len(inbox') : \/ i \in 1..Len(inbox) /\ inbox'[i] = inbox[i]
                                     \/ i = Len(inbox) + 1 /\ inbox'[i] = m
    BY <1>2, <1>4, <2>2, <2>m, QueueElements DEF SharedType
  <2>6. WireStep
    BY <1>1, <1>2, <2>5 DEF WireStep, SharedType, disk, loan, peer
  <2>7. /\ thread'[c] = r /\ \A u \in Threads : u # c => thread'[u] = thread[u]
    BY <1>2, <2>3, MovedThreads, MainApart
  <2>8. Command(c)' = Command(c) /\ Own(c)' = Own(c)
        /\ \A d \in Clients : d # c => Command(d)' = Command(d) /\ Own(d)' = Own(d)
    BY <2>3, <2>7, MainApart DEF Command, Own, SameBut
  <2>9. Channel'
    <3>. SUFFICES ASSUME Live' PROVE Channel'
      BY DEF Channel
    <3>1. Live /\ UNCHANGED <<svc, replies, mapping>>
      BY <1>1 DEF Live
    <3>2. CASE Own(c)
      <4>1. Borrows(inbox) /\ Borrows(replies) /\ \A d \in Clients : d # c => ~Own(d)
        BY <1>1, <3>1, <3>2, OneOwns
      <4>2. Awaited(m.op)'
        <5>1. ~Free
          BY <1>2, <3>1, <3>2 DEF RecordOk, OwnerOk, Own, Expected, validate_completion, Free
        <5>2. \A d \in Clients : Own(d)' => thread'[d].at = "reply" /\ m.op = Command(d)'
          BY <2>m, <2>3, <2>7, <2>8, <4>1
        <5>. QED  BY <3>1, <5>1, <5>2 DEF Awaited, Free
      <4>. QED  BY <2>5, <3>1, <4>1, <4>2 DEF Channel, Borrows
    <3>3. CASE ~Own(c)
      <4>1. m.op = "borrow"
        BY <2>1, <2>m, <3>3 DEF Own, Command
      <4>2. ASSUME NEW op, Awaited(op) PROVE Awaited(op)'
        BY <2>7, <2>8, <3>1, <3>3, <4>2, MainApart DEF Awaited, Free
      <4>3. Channel
        BY DEF DaemonInv
      <4>. QED  BY <2>5, <2>8, <3>1, <4>1, <4>2, <4>3 DEF Channel, Borrows
    <3>. QED  BY <3>2, <3>3
  <2>10. Attestations' /\ CommandsMarked'
    <3>1. m.op \in {"unlock", "lock"} => marker # "none"
      BY <1>1, <1>2, <2>m DEF RecordOk, MarkedOk, Command, Dispatched
    <3>2. CommandsMarked'
      BY <1>1, <2>5, <3>1 DEF DaemonInv, CommandsMarked, disk
    <3>. QED  BY <1>1, <3>2 DEF DaemonInv, Attestations
  <2>. QED  BY <1>1, <2>1, <2>3, <2>4, <2>6, <2>9, <2>10, WireMove DEF SameBut
<1>. QED  BY <1>3, <1>4 DEF Send

\* Taking a response.
LEMMA ReceiveInv ==
    ASSUME DaemonInv, NEW c \in Clients, Receive(c)
    PROVE  DaemonInv'
<1>1. /\ daemon = "up" /\ thread[c].at = "reply"
      /\ UNCHANGED <<daemon, svc, stopping, disk, worker, inbox, mapping, loan, peer, faults>>
  BY DEF Receive, At
<1>2. /\ thread[c] \in Thread /\ RecordOk(c, thread[c]) /\ SharedType /\ ThreadType
  BY RecordFacts, MainApart
<1>3. CASE Unanswered(c) /\ UNCHANGED replies
  <2>1. QuietShared
    BY <1>1, <1>3, Unmoved DEF wire
  <2>. QED  BY <1>1, <1>3, <2>1, UnansweredInv
<1>4. ASSUME replies # <<>>, replies' = Tail(replies), NEW r \in Thread,
             thread' = [thread EXCEPT ![c] = r], RecordOk(c, r),
             r.op \in Operations => r.op = thread[c].op /\ Head(replies).op # "borrow"
      PROVE  DaemonInv'
  <2>1. /\ replies' \in Seq([to : Clients, op : Commands, code : {"ok", "refused", "bad"}])
        /\ Head(replies) = replies[1] /\ 1 \in 1..Len(replies)
        /\ Len(replies') = Len(replies) - 1 /\ Len(replies) \in Nat
        /\ \A i \in 1..Len(replies') :
              i + 1 \in 1..Len(replies) /\ i + 1 # 1 /\ replies'[i] = replies[i + 1]
    BY <1>2, <1>4, QueueElements DEF SharedType
  <2>2. WireStep
    BY <1>1, <1>2, <2>1 DEF WireStep, SharedType, disk, loan, peer
  <2>3. /\ thread'[c] = r /\ \A u \in Threads : u # c => thread'[u] = thread[u]
    BY <1>2, <1>4, MovedThreads, MainApart
  <2>4. \A d \in Clients : /\ Own(d)' => Own(d)
                           /\ d # c => Command(d)' = Command(d) /\ thread'[d] = thread[d]
    BY <1>4, <2>3, MainApart DEF Command, Own
  <2>5. Channel'
    <3>. SUFFICES ASSUME Live' PROVE Channel'
      BY DEF Channel
    <3>1. Live /\ UNCHANGED <<svc, inbox, mapping>> /\ Channel
      BY <1>1 DEF Live, DaemonInv
    <3>2. CASE r.op \in Operations
      <4>1. \A i \in 1..Len(replies) : replies[i].op # "borrow" => i = 1
        BY <1>4, <2>1, <3>1, <3>2 DEF Channel
      <4>2. Borrows(inbox)
        BY <1>4, <2>1, <3>1, <3>2 DEF Channel, Borrows
      <4>3. Borrows(replies)'
        BY <2>1, <4>1 DEF Borrows
      <4>. QED  BY <3>1, <4>2, <4>3 DEF Channel, Borrows
    <3>3. CASE r.op \notin Operations
      <4>1. ~Own(c)'
        BY <2>3, <3>3 DEF Own
      <4>2. ASSUME NEW op, Awaited(op)
            PROVE  /\ ~Free'
                   /\ \A d \in Clients : Own(d)' => thread'[d].at = "reply" /\ op = Command(d)'
        BY <2>4, <3>1, <4>1, <4>2 DEF Awaited, Free
      <4>3. ASSUME NEW i \in 1..Len(replies'), replies'[i].op # "borrow"
            PROVE  /\ Awaited(replies'[i].op)
                   /\ replies'[i].op = "attest" /\ replies'[i].code = "ok" =>
                         mapping = "closed" \/ \A d \in Clients : ~Own(d)
        <5>1. \A k \in 1..Len(replies) : replies[k].op # "borrow" =>
                 /\ Awaited(replies[k].op)
                 /\ replies[k].op = "attest" /\ replies[k].code = "ok" =>
                       mapping = "closed" \/ \A d \in Clients : ~Own(d)
          BY <3>1, Zenon DEF Channel
        <5>2. i + 1 \in 1..Len(replies) /\ replies'[i] = replies[i + 1]
          BY <2>1, <4>3
        <5>. QED  BY <4>3, <5>1, <5>2, Zenon
      <4>4. ASSUME NEW i \in 1..Len(replies'), NEW j \in 1..Len(replies'),
                   replies'[i].op # "borrow", replies'[j].op # "borrow"
            PROVE  i = j
        <5>1. \A k, l \in 1..Len(replies) :
                 replies[k].op # "borrow" /\ replies[l].op # "borrow" => k = l
          BY <3>1 DEF Channel
        <5>2. /\ i + 1 \in 1..Len(replies) /\ replies[i + 1].op # "borrow"
              /\ j + 1 \in 1..Len(replies) /\ replies[j + 1].op # "borrow"
          BY <2>1, <4>4
        <5>3. i + 1 = j + 1
          BY <5>1, <5>2
        <5>. QED  BY <5>3
      <4>5. Borrows(replies) => Borrows(replies)'
        BY <2>1 DEF Borrows
      <4>6. ASSUME NEW i \in 1..Len(inbox'), inbox'[i].op # "borrow"
            PROVE  /\ ~Free'
                   /\ \A d \in Clients : Own(d)' => thread'[d].at = "reply"
                                                    /\ inbox'[i].op = Command(d)'
        <5>1. Awaited(inbox[i].op)
          BY <3>1, <4>6 DEF Channel
        <5>. QED  BY <3>1, <4>2, <5>1
      <4>7. ASSUME NEW i \in 1..Len(replies'), replies'[i].op # "borrow"
            PROVE  /\ ~Free'
                   /\ \A d \in Clients : Own(d)' => thread'[d].at = "reply"
                                                    /\ replies'[i].op = Command(d)'
                   /\ replies'[i].op = "attest" /\ replies'[i].code = "ok" =>
                         mapping' = "closed" \/ \A d \in Clients : ~Own(d)'
        BY <2>4, <3>1, <4>2, <4>3, <4>7
      <4>8. \A i, j \in 1..Len(inbox') :
              inbox'[i].op # "borrow" /\ inbox'[j].op # "borrow" => i = j
        BY <3>1 DEF Channel
      <4>9. Borrows(inbox)' \/ Borrows(replies)'
        BY <3>1, <4>5 DEF Channel, Borrows
      <4>. QED  BY <4>4, <4>6, <4>7, <4>8, <4>9 DEF Channel, Awaited
    <3>. QED  BY <3>2, <3>3
  <2>6. Attestations' /\ CommandsMarked'
    BY <1>1, <2>1 DEF DaemonInv, Attestations, CommandsMarked, disk
  <2>7. ~InFault(thread[c])
    BY <1>1 DEF InFault, Revoking
  <2>. QED  BY <1>1, <1>4, <2>2, <2>5, <2>6, <2>7, WireMove
<1>5. CASE replies # <<>> /\ replies' = Tail(replies) /\ Unanswered(c)
  <2>1. CASE thread[c].op = "borrow"
    <3>1. PICK r \in Thread : /\ thread' = [thread EXCEPT ![c] = r]
                              /\ r.at = "ambiguous" /\ SameBut(thread[c], r)
      BY <1>2, <1>5, <2>1, GoRecord, MainApart DEF Unanswered, Stages, BorrowStages, IssuedStages
    <3>2. RecordOk(c, r)
      BY <1>1, <1>2, <2>1, <3>1 DEF SameBut, RecordOk, StageOk, OwnerOk, MarkedOk, BorrowOk,
         ContainOk, Operations, BorrowStages, PendingStages, IssuedStages, InFault, Revoking
    <3>. QED  BY <1>4, <1>5, <2>1, <3>1, <3>2 DEF SameBut, Operations
  <2>2. CASE thread[c].op # "borrow"
    <3>1. PICK r \in Thread : r = FaultRecord("idle")
      BY FaultFields
    <3>2. RecordOk(c, r) /\ r.op = "none"
      BY <1>2, <3>1, RestingRecords, FaultFields
    <3>3. thread' = [thread EXCEPT ![c] = r]
      BY <1>5, <2>2, <3>1 DEF Unanswered, Fault, FaultRecord
    <3>. QED  BY <1>4, <1>5, <3>2, <3>3 DEF Operations
  <2>. QED  BY <2>1, <2>2
<1>6. CASE /\ replies # <<>> /\ replies' = Tail(replies)
           /\ Head(replies).to = c /\ Head(replies).op = Command(c)
           /\ thread' = [thread EXCEPT
                ![c].at = IF Head(replies).op = "attest" THEN "attested" ELSE "finish",
                ![c].code = IF Head(replies).op = "attest" /\ Head(replies).code = "ok" THEN @
                            ELSE Head(replies).code]
  <2>1. PICK h : h = Head(replies)
    OBVIOUS
  <2>2. /\ h = replies[1] /\ 1 \in 1..Len(replies) /\ h.op = Command(c)
        /\ h.code \in {"ok", "refused", "bad"}
    <3>1. replies \in Seq([to : Clients, op : Commands, code : {"ok", "refused", "bad"}])
      BY <1>2 DEF SharedType
    <3>2. /\ h \in [to : Clients, op : Commands, code : {"ok", "refused", "bad"}]
          /\ h = replies[1] /\ 1 \in 1..Len(replies)
      BY <1>6, <2>1, <3>1, QueueElements
    <3>. QED  BY <1>6, <2>1, <3>2
  <2>3. PICK r : r = [thread[c] EXCEPT
                  !.at = IF h.op = "attest" THEN "attested" ELSE "finish",
                  !.code = IF h.op = "attest" /\ h.code = "ok" THEN @ ELSE h.code]
    OBVIOUS
  <2>4. /\ r \in Thread /\ r.at = (IF h.op = "attest" THEN "attested" ELSE "finish")
        /\ r.code = (IF h.op = "attest" /\ h.code = "ok" THEN thread[c].code ELSE h.code)
        /\ r.op = thread[c].op /\ r.lease = thread[c].lease
    <3>1. CASE h.op = "attest" /\ h.code = "ok"
      BY <1>2, <2>3, <3>1 DEF Thread, OwnerStages, Dispatched
    <3>2. CASE h.op = "attest" /\ h.code # "ok"
      BY <1>2, <2>2, <2>3, <3>2 DEF Thread, OwnerStages, Dispatched
    <3>3. CASE h.op # "attest"
      BY <1>2, <2>2, <2>3, <3>3 DEF Thread, OwnerStages, Dispatched
    <3>. QED  BY <3>1, <3>2, <3>3
  <2>5. thread' = [thread EXCEPT ![c] = r]
    BY <1>6, <2>1, <2>3
  <2>6. CASE thread[c].op = "borrow"
    <3>1. h.op = "borrow"
      BY <1>1, <1>2, <2>2, <2>6 DEF RecordOk, StageOk, Command
    <3>2. RecordOk(c, r)
      BY <1>1, <1>2, <2>4, <2>6, <3>1 DEF RecordOk, StageOk, OwnerOk, MarkedOk, BorrowOk,
         ContainOk, Operations, BorrowStages, PendingStages, IssuedStages, InFault, Revoking
    <3>. QED  BY <1>4, <1>6, <2>4, <2>5, <2>6, <3>2 DEF Operations
  <2>7. CASE thread[c].op # "borrow"
    <3>1. thread[c].op \in Operations
      BY <1>1, <1>2, <2>7 DEF RecordOk, StageOk, Thread, PlainStages, Revoking
    <3>2. h.op # "borrow"
      BY <2>2, <3>1 DEF Command, Operations
    <3>3. StageOk(r)
      BY <1>2, <2>4, <3>1 DEF RecordOk, StageOk, OwnerStages, Dispatched, Operations, Revoking
    <3>4. OwnerOk(r)
      <4>1. ASSUME Live, r.at = "attested", r.code # "bad" PROVE mapping = "closed"
        <5>1. h.op = "attest"
          BY <2>4, <4>1
        <5>2. h.code \in {"ok", "bad"}
          BY <2>2, <5>1 DEF DaemonInv, Attestations
        <5>3. h.code = "ok"
          BY <2>4, <4>1, <5>1, <5>2
        <5>. QED  BY <2>2, <3>1, <3>2, <4>1, <5>1, <5>3 DEF DaemonInv, Channel, Own
      <4>. QED  BY <1>1, <1>2, <2>4, <3>1, <4>1 DEF RecordOk, OwnerOk, Revoking
    <3>5. MarkedOk(r) /\ BorrowOk(c, r) /\ ContainOk(r)
      BY <1>1, <1>2, <2>4, <3>1 DEF RecordOk, MarkedOk, BorrowOk, ContainOk, InFault, Dispatched,
         Operations, Revoking
    <3>6. RecordOk(c, r)
      BY <3>3, <3>4, <3>5 DEF RecordOk
    <3>. QED  BY <1>4, <1>6, <2>1, <2>4, <2>5, <3>2, <3>6
  <2>. QED  BY <2>6, <2>7
<1>7. CASE replies # <<>> /\ replies' = Tail(replies)
  BY <1>5, <1>6, <1>7 DEF Receive
<1>. QED  BY <1>3, <1>7 DEF Receive

\* The supervisor's handle of the worker after its changes.
LEMMA WorkerRecords ==
    /\ \A w \in Worker : /\ [w EXCEPT !.up = FALSE, !.held = FALSE] \in Worker
                         /\ [w EXCEPT !.up = FALSE, !.held = FALSE].up = FALSE
                         /\ [w EXCEPT !.terminal = TRUE] \in Worker
                         /\ [w EXCEPT !.terminal = TRUE].up = w.up
                         /\ \A b \in BOOLEAN : /\ [w EXCEPT !.held = b] \in Worker
                                               /\ [w EXCEPT !.held = b].up = w.up
    /\ NoWorker \in Worker /\ NoWorker.up = FALSE
    /\ [NoWorker EXCEPT !.terminal = TRUE] \in Worker
    /\ [NoWorker EXCEPT !.terminal = TRUE].up = FALSE
    /\ [NoWorker EXCEPT !.up = TRUE] \in Worker
    /\ [NoWorker EXCEPT !.up = TRUE, !.terminal = TRUE] \in Worker
BY DEF Worker, NoWorker

\* A step of the worker.
LEMMA WorkerMove ==
    ASSUME DaemonInv, daemon = "up", WireStep, UNCHANGED thread,
           \/ mapping' = mapping
           \/ Live => ~Free /\ \A c \in Clients : Own(c) => thread[c].at = "reply",
           mapping' = "open" => marker # "none",
           Channel', Attestations', CommandsMarked'
    PROVE  DaemonInv'
<1>1. /\ SharedType /\ ThreadType /\ ThreadsOk
  BY DEF DaemonInv
<1>2. /\ UNCHANGED <<daemon, svc, stopping, marker, armed, lease, nextLease, client, holders>>
      /\ worker'.up => worker.up
      /\ SharedType'
  BY DEF WireStep
<1>3. ThreadsOk'
  <2>1. ASSUME NEW u \in Threads PROVE RecordOk(u, thread[u])'
    <3>1. PICK q \in Thread : q = thread[u] /\ RecordOk(u, q)
      BY <1>1 DEF ThreadsOk, ThreadType
    <3>2. mapping' = mapping \/ ~Live \/ q.op \notin Operations \/ q.at = "reply"
      BY <1>1, <3>1 DEF ThreadsOk, Threads, Own, Operations
    <3>3. RecordOk(u, q)'
      BY <3>1, <3>2, WireRecord
    <3>. QED  BY <3>1, <3>3 DEF RecordOk, StageOk, OwnerOk, MarkedOk, BorrowOk, ContainOk,
              InFault, Expected, validate_completion
  <2>. QED  BY <1>1, <2>1 DEF ThreadsOk
<1>4. OneOwner' /\ UnlockedMarked' /\ Leaving' /\ ThreadType'
  BY <1>2 DEF DaemonInv, OneOwner, Own, Live, UnlockedMarked, Leaving, ThreadType
<1>5. OpenIsMarked' /\ LeaseKept' /\ CredentialLeased'
  BY <1>2 DEF DaemonInv, OpenIsMarked, LeaseKept, CredentialLeased, Live, Free
<1>6. Contained' /\ Down'
  BY <1>2 DEF DaemonInv, Contained, InFault, Down
<1>. QED  BY <1>2, <1>3, <1>4, <1>5, <1>6 DEF DaemonInv

\* The worker's end empties the channel.
LEMMA WorkerDiesInv ==
    ASSUME DaemonInv, WorkerDies
    PROVE  DaemonInv'
<1>1. /\ worker.up /\ worker' = [worker EXCEPT !.up = FALSE, !.held = FALSE]
      /\ inbox' = <<>> /\ replies' = <<>> /\ faults' = faults + 1
      /\ UNCHANGED <<daemon, svc, stopping, marker, armed, mapping, lease, nextLease, client, holders,
                     thread>>
  BY DEF WorkerDies, Fails, disk, loan, peer
<1>2. daemon = "up"
  BY <1>1 DEF DaemonInv, Down, NoWorker
<1>3. SharedType'
  <2>1. worker' \in Worker /\ faults' \in Nat
    <3>1. worker \in Worker /\ faults \in Nat
      BY DEF DaemonInv, SharedType
    <3>2. worker' = [worker EXCEPT !.up = FALSE, !.held = FALSE] /\ faults' = faults + 1
      BY <1>1
    <3>3. worker' \in Worker
      BY <3>1, <3>2, WorkerRecords
    <3>. QED  BY <3>1, <3>2, <3>3
  <2>2. /\ inbox' \in Seq([op : Commands, from : Clients])
        /\ replies' \in Seq([to : Clients, op : Commands, code : {"ok", "refused", "bad"}])
    BY <1>1
  <2>. QED  BY <1>1, <2>1, <2>2 DEF DaemonInv, SharedType
<1>4. WireStep
  BY <1>1, <1>3 DEF WireStep
<1>5. Channel' /\ Attestations' /\ CommandsMarked'
  BY <1>1 DEF Channel, Attestations, CommandsMarked, Borrows
<1>6. mapping' = "open" => marker # "none"
  BY <1>1 DEF DaemonInv, OpenIsMarked
<1>. QED  BY <1>1, <1>2, <1>4, <1>5, <1>6, WorkerMove

\* The answers of the worker: only an unlock or a lock changes the mapping, and it attests
\* nothing but a closed one.
LEMMA OutcomeFacts ==
    ASSUME SharedType, NEW op \in Commands, NEW o \in Outcomes(op)
    PROVE  /\ o[1] \in {"ok", "refused", "bad"} /\ o[2] \in {"closed", "open"} /\ o[3] \in BOOLEAN
           /\ op \notin {"unlock", "lock"} => o[2] = mapping
           /\ op = "attest" => /\ o[1] \in {"ok", "bad"}
                               /\ o[1] = "ok" => mapping = "closed"
<1>1. mapping \in {"closed", "open"} /\ worker.held \in BOOLEAN
  BY DEF SharedType, Worker
<1>2. CASE op = "unlock"
  <2>1. CASE o = <<"refused", mapping, TRUE>>
    BY <1>1, <1>2, <2>1
  <2>2. CASE o = <<"ok", "open", TRUE>>
    BY <1>1, <1>2, <2>2
  <2>3. CASE o = <<"refused", "closed", FALSE>>
    BY <1>1, <1>2, <2>3
  <2>4. CASE o = <<"refused", "open", FALSE>>
    BY <1>1, <1>2, <2>4
  <2>5. CASE o = <<"bad", "closed", FALSE>>
    BY <1>1, <1>2, <2>5
  <2>6. CASE o = <<"bad", "open", FALSE>>
    BY <1>1, <1>2, <2>6
  <2>. QED  BY <1>2, <2>1, <2>2, <2>3, <2>4, <2>5, <2>6 DEF Outcomes
<1>3. CASE op = "lock"
  <2>1. CASE o = <<"bad", mapping, FALSE>>
    BY <1>1, <1>3, <2>1
  <2>2. CASE o = <<"ok", "closed", FALSE>>
    BY <1>1, <1>3, <2>2
  <2>3. CASE o = <<"ok", "open", FALSE>>
    BY <1>1, <1>3, <2>3
  <2>4. CASE o = <<"bad", "closed", FALSE>>
    BY <1>1, <1>3, <2>4
  <2>5. CASE o = <<"bad", "open", FALSE>>
    BY <1>1, <1>3, <2>5
  <2>. QED  BY <1>3, <2>1, <2>2, <2>3, <2>4, <2>5 DEF Outcomes
<1>4. CASE op = "attest"
  <2>1. CASE o = <<"bad", mapping, worker.held>>
    BY <1>1, <1>4, <2>1
  <2>2. CASE o = <<"ok", mapping, FALSE>> /\ mapping # "open"
    BY <1>1, <1>4, <2>2
  <2>. QED  BY <1>4, <2>1, <2>2 DEF Outcomes
<1>5. CASE op \notin {"unlock", "lock", "attest"}
  <2>1. CASE o = <<"bad", mapping, worker.held>>
    BY <1>1, <1>5, <2>1
  <2>2. CASE o = <<"ok", mapping, TRUE>>
    BY <1>1, <1>5, <2>2
  <2>3. CASE o = <<"refused", mapping, TRUE>>
    BY <1>1, <1>5, <2>3
  <2>. QED  BY <1>5, <2>1, <2>2, <2>3 DEF Outcomes
<1>. QED  BY <1>2, <1>3, <1>4, <1>5

\* The worker handles a command.
LEMMA HandleCommandInv ==
    ASSUME DaemonInv, handle_command
    PROVE  DaemonInv'
<1>1. /\ worker.up /\ inbox # <<>> /\ inbox' = Tail(inbox)
      /\ UNCHANGED <<daemon, svc, stopping, marker, armed, lease, nextLease, client, holders, thread,
                     faults>>
  BY DEF handle_command, disk, loan, peer
<1>2. /\ SharedType /\ Channel /\ Attestations /\ CommandsMarked /\ OpenIsMarked
      /\ daemon = "up"
  BY <1>1 DEF DaemonInv, Down, NoWorker
<1>3. PICK h : h = Head(inbox)
  OBVIOUS
<1>4. /\ h \in [op : Commands, from : Clients] /\ h = inbox[1] /\ 1 \in 1..Len(inbox)
      /\ inbox' \in Seq([op : Commands, from : Clients])
      /\ Len(inbox') = Len(inbox) - 1 /\ Len(inbox) \in Nat
      /\ \A i \in 1..Len(inbox') :
            i + 1 \in 1..Len(inbox) /\ i + 1 # 1 /\ inbox'[i] = inbox[i + 1]
  <2>1. inbox \in Seq([op : Commands, from : Clients])
    BY <1>2 DEF SharedType
  <2>2. /\ Head(inbox) \in [op : Commands, from : Clients] /\ Head(inbox) = inbox[1]
        /\ 1 \in 1..Len(inbox) /\ Len(inbox) \in Nat
        /\ Tail(inbox) \in Seq([op : Commands, from : Clients])
        /\ Len(Tail(inbox)) = Len(inbox) - 1
        /\ \A i \in 1..Len(Tail(inbox)) :
              i + 1 \in 1..Len(inbox) /\ i + 1 # 1 /\ Tail(inbox)[i] = inbox[i + 1]
    <3>1. inbox # <<>>
      BY <1>1
    <3>2. Head(inbox) \in [op : Commands, from : Clients]
      BY <2>1, <3>1, QueueElements
    <3>3. Tail(inbox) \in Seq([op : Commands, from : Clients])
      BY <2>1, <3>1, QueueElements
    <3>4. /\ Head(inbox) = inbox[1] /\ 1 \in 1..Len(inbox) /\ Len(inbox) \in Nat
          /\ Len(Tail(inbox)) = Len(inbox) - 1
      BY <2>1, <3>1, QueueElements
    <3>5. \A i \in 1..Len(Tail(inbox)) :
              i + 1 \in 1..Len(inbox) /\ i + 1 # 1 /\ Tail(inbox)[i] = inbox[i + 1]
      BY <2>1, <3>1, QueueElements
    <3>. QED  BY <3>2, <3>3, <3>4, <3>5
  <2>. QED  BY <1>1, <1>3, <2>2
<1>5. h.op \in Commands /\ h.from \in Clients
  BY <1>4
<1>6. PICK o \in Outcomes(h.op) :
          /\ replies' = Append(replies, [to |-> h.from, op |-> h.op, code |-> o[1]])
          /\ mapping' = o[2] /\ worker' = [worker EXCEPT !.held = o[3]]
  BY <1>3 DEF handle_command
<1>7. /\ o[1] \in {"ok", "refused", "bad"} /\ o[2] \in {"closed", "open"} /\ o[3] \in BOOLEAN
      /\ h.op \notin {"unlock", "lock"} => o[2] = mapping
      /\ h.op = "attest" => /\ o[1] \in {"ok", "bad"}
                            /\ o[1] = "ok" => mapping = "closed"
  BY <1>2, <1>5, <1>6, OutcomeFacts
<1>8. PICK m : m = [to |-> h.from, op |-> h.op, code |-> o[1]]
  OBVIOUS
<1>9. /\ m \in [to : Clients, op : Commands, code : {"ok", "refused", "bad"}]
      /\ m.op = h.op /\ m.code = o[1]
  BY <1>5, <1>7, <1>8
<1>10. /\ replies' \in Seq([to : Clients, op : Commands, code : {"ok", "refused", "bad"}])
       /\ Len(replies') = Len(replies) + 1 /\ Len(replies) \in Nat
       /\ \A i \in 1..Len(replies') : \/ i \in 1..Len(replies) /\ replies'[i] = replies[i]
                                      \/ i = Len(replies) + 1 /\ replies'[i] = m
  <2>1. replies \in Seq([to : Clients, op : Commands, code : {"ok", "refused", "bad"}])
    BY <1>2 DEF SharedType
  <2>. QED  BY <1>6, <1>8, <1>9, <2>1, QueueElements
<1>11. WireStep
  <2>1. worker' \in Worker /\ worker'.up = worker.up
    BY <1>2, <1>6, <1>7 DEF SharedType, Worker
  <2>2. SharedType'
    BY <1>1, <1>2, <1>4, <1>6, <1>7, <1>10, <2>1 DEF SharedType
  <2>. QED  BY <1>1, <2>1, <2>2 DEF WireStep
<1>12. h.op # "borrow" /\ Live => Awaited(h.op)
  BY <1>2, <1>4 DEF Channel
<1>13. Attestations' /\ CommandsMarked'
  <2>1. Attestations'
    BY <1>2, <1>7, <1>9, <1>10 DEF Attestations
  <2>2. CommandsMarked'
    BY <1>1, <1>2, <1>4 DEF CommandsMarked
  <2>. QED  BY <2>1, <2>2
<1>14. Channel'
  <2>. SUFFICES ASSUME Live' PROVE Channel'
    BY DEF Channel
  <2>1. Live
    BY <1>1 DEF Live
  <2>2. ASSUME NEW op, Awaited(op)
        PROVE  /\ ~Free'
               /\ \A d \in Clients : Own(d)' => thread'[d].at = "reply" /\ op = Command(d)'
    BY <1>1, <2>2 DEF Awaited, Free, Own, Command
  <2>3. CASE h.op # "borrow"
    <3>1. \A i \in 1..Len(inbox) : inbox[i].op # "borrow" => i = 1
      BY <1>2, <1>4, <2>1, <2>3 DEF Channel
    <3>2. Borrows(inbox)'
      BY <1>4, <3>1 DEF Borrows
    <3>3. Borrows(replies)
      BY <1>2, <1>4, <2>1, <2>3 DEF Channel, Borrows
    <3>4. ASSUME NEW i \in 1..Len(replies'), replies'[i].op # "borrow"
          PROVE  i = Len(replies) + 1 /\ replies'[i] = m
      BY <1>10, <3>3, <3>4 DEF Borrows
    <3>5. ASSUME NEW i \in 1..Len(replies'), replies'[i].op # "borrow"
          PROVE  /\ ~Free'
                 /\ \A d \in Clients : Own(d)' => thread'[d].at = "reply"
                                                  /\ replies'[i].op = Command(d)'
                 /\ replies'[i].op = "attest" /\ replies'[i].code = "ok" => mapping' = "closed"
      <4>1. Awaited(replies'[i].op)
        BY <1>9, <1>12, <2>1, <2>3, <3>4, <3>5
      <4>2. replies'[i].op = "attest" /\ replies'[i].code = "ok" => mapping' = "closed"
        BY <1>6, <1>7, <1>9, <3>4, <3>5
      <4>. QED  BY <2>2, <4>1, <4>2
    <3>6. \A i, j \in 1..Len(replies') :
            replies'[i].op # "borrow" /\ replies'[j].op # "borrow" => i = j
      BY <3>4
    <3>. QED  BY <3>2, <3>5, <3>6 DEF Channel, Awaited, Borrows
  <2>4. CASE h.op = "borrow"
    <3>1. mapping' = mapping /\ m.op = "borrow"
      BY <1>6, <1>7, <1>9, <2>4
    <3>2. ASSUME NEW i \in 1..Len(replies'), replies'[i].op # "borrow"
          PROVE  i \in 1..Len(replies) /\ replies'[i] = replies[i]
      BY <1>10, <3>1, <3>2
    <3>3. ASSUME NEW i \in 1..Len(replies'), replies'[i].op # "borrow"
          PROVE  /\ ~Free'
                 /\ \A d \in Clients : Own(d)' => thread'[d].at = "reply"
                                                  /\ replies'[i].op = Command(d)'
                 /\ replies'[i].op = "attest" /\ replies'[i].code = "ok" =>
                       mapping' = "closed" \/ \A d \in Clients : ~Own(d)'
      <4>1. /\ Awaited(replies[i].op)
            /\ replies[i].op = "attest" /\ replies[i].code = "ok" =>
                       mapping = "closed" \/ \A d \in Clients : ~Own(d)
        BY <1>2, <2>1, <3>2, <3>3 DEF Channel
      <4>2. \A d \in Clients : Own(d)' = Own(d)
        BY <1>1 DEF Own
      <4>. QED  BY <2>2, <3>1, <3>2, <3>3, <4>1, <4>2
    <3>4. \A i, j \in 1..Len(replies') :
            replies'[i].op # "borrow" /\ replies'[j].op # "borrow" => i = j
      BY <1>2, <2>1, <3>2 DEF Channel
    <3>5. ASSUME NEW i \in 1..Len(inbox'), inbox'[i].op # "borrow"
          PROVE  /\ ~Free'
                 /\ \A d \in Clients : Own(d)' => thread'[d].at = "reply"
                                                  /\ inbox'[i].op = Command(d)'
      <4>1. Awaited(inbox'[i].op)
        BY <1>2, <1>4, <2>1, <3>5 DEF Channel
      <4>. QED  BY <2>2, <4>1
    <3>6. ASSUME NEW i \in 1..Len(inbox'), NEW j \in 1..Len(inbox'),
                 inbox'[i].op # "borrow", inbox'[j].op # "borrow"
          PROVE  i = j
      <4>1. \A k, l \in 1..Len(inbox) :
                 inbox[k].op # "borrow" /\ inbox[l].op # "borrow" => k = l
        BY <1>2, <2>1 DEF Channel
      <4>2. /\ i + 1 \in 1..Len(inbox) /\ inbox[i + 1].op # "borrow"
            /\ j + 1 \in 1..Len(inbox) /\ inbox[j + 1].op # "borrow"
        BY <1>4, <3>6
      <4>3. i + 1 = j + 1
        BY <4>1, <4>2
      <4>. QED  BY <4>3
    <3>7. Borrows(inbox)' \/ Borrows(replies)'
      BY <1>2, <1>4, <2>1, <3>2 DEF Channel, Borrows
    <3>. QED  BY <3>3, <3>4, <3>5, <3>6, <3>7 DEF Channel, Awaited
  <2>. QED  BY <2>3, <2>4
<1>15. \/ mapping' = mapping
       \/ Live => ~Free /\ \A c \in Clients : Own(c) => thread[c].at = "reply"
  BY <1>6, <1>7, <1>12 DEF Awaited
<1>16. mapping' = "open" => marker # "none"
  <2>1. CASE h.op \in {"unlock", "lock"}
    BY <1>1, <1>2, <1>4, <2>1 DEF CommandsMarked
  <2>2. CASE h.op \notin {"unlock", "lock"}
    BY <1>2, <1>6, <1>7, <2>2 DEF OpenIsMarked
  <2>. QED  BY <2>1, <2>2
<1>. QED  BY <1>1, <1>2, <1>11, <1>13, <1>14, <1>15, <1>16, WorkerMove

(***************************************************************************)
(* The fault procedure.                                                    *)
(***************************************************************************)
\* A step that leaves the service faulted.
LEMMA FaultMove ==
    ASSUME DaemonInv, daemon = "up", daemon' = "up", svc'.faulted, SharedType',
           worker'.up => worker.up,
           (inbox' = inbox /\ replies' = replies) \/ (inbox' = <<>> /\ replies' = <<>>),
           UNCHANGED <<mapping, lease, nextLease, client, holders>>,
           marker' = marker \/ marker' # "none", stopping => stopping',
           NEW t \in Threads, NEW r \in Thread, thread' = [thread EXCEPT ![t] = r],
           t = Main => r.op = "none", RecordOk(t, r)',
           \/ svc.faulted /\ ~InFault(thread[t]) /\ thread[t].at # "fault"
           \/ InFault(r) \/ r.at = "fault" \/ stopping'
    PROVE  DaemonInv'
<1>1. /\ SharedType /\ ThreadType /\ ThreadsOk
  BY DEF DaemonInv
<1>2. /\ thread'[t] = r /\ \A u \in Threads : u # t => thread'[u] = thread[u]
      /\ ThreadType'
  BY <1>1, MovedThreads
<1>3. ThreadsOk'
  <2>1. ASSUME NEW u \in Threads PROVE RecordOk(u, thread[u])'
    <3>1. CASE u = t
      <4>1. thread'[u] = r
        BY <1>2, <3>1
      <4>. QED  BY <3>1, <4>1 DEF RecordOk, StageOk, OwnerOk, MarkedOk, BorrowOk, ContainOk,
                InFault, Expected, validate_completion
    <3>2. CASE u # t
      <4>1. PICK q \in Thread : q = thread[u] /\ q = thread'[u] /\ RecordOk(u, q)
        BY <1>1, <1>2, <3>2 DEF ThreadsOk, ThreadType
      <4>2. StageOk(q)' /\ OwnerOk(q)' /\ MarkedOk(q)' /\ BorrowOk(u, q)'
        BY <4>1 DEF RecordOk, StageOk, OwnerOk, MarkedOk, BorrowOk, Live
      <4>3. ContainOk(q)'
        BY <4>1 DEF RecordOk, ContainOk
      <4>. QED  BY <4>1, <4>2, <4>3 DEF RecordOk, StageOk, OwnerOk, MarkedOk, BorrowOk, ContainOk,
                InFault, Expected, validate_completion
    <3>. QED  BY <3>1, <3>2
  <2>2. thread'[Main].op = "none"
    BY <1>1, <1>2, MainApart DEF ThreadsOk
  <2>. QED  BY <2>1, <2>2 DEF ThreadsOk
<1>4. OneOwner' /\ Channel' /\ CredentialLeased' /\ UnlockedMarked' /\ Leaving' /\ Down'
  BY DEF OneOwner, Channel, CredentialLeased, UnlockedMarked, Leaving, Down, Live
<1>5. LeaseKept' /\ OpenIsMarked'
  BY DEF DaemonInv, LeaseKept, OpenIsMarked, Live
<1>6. Attestations' /\ CommandsMarked'
  <2>1. CASE inbox' = inbox /\ replies' = replies
    BY <2>1 DEF DaemonInv, Attestations, CommandsMarked
  <2>2. CASE inbox' = <<>> /\ replies' = <<>>
    BY <2>2 DEF Attestations, CommandsMarked
  <2>. QED  BY <2>1, <2>2
<1>7. Contained'
  <2>1. CASE InFault(r) \/ r.at = "fault" \/ stopping'
    BY <1>2, <2>1 DEF Contained, InFault
  <2>2. CASE svc.faulted /\ ~InFault(thread[t]) /\ thread[t].at # "fault"
    <3>1. CASE stopping \/ (~worker.up /\ lease = NoLease /\ marker # "none")
      BY <3>1 DEF Contained
    <3>2. ASSUME NEW u \in Threads, InFault(thread[u]) \/ thread[u].at = "fault"
          PROVE  Contained'
      <4>1. u # t /\ thread'[u] = thread[u]
        BY <1>2, <2>2, <3>2
      <4>. QED  BY <3>2, <4>1 DEF Contained, InFault
    <3>. QED  BY <2>2, <3>1, <3>2 DEF DaemonInv, Contained
  <2>. QED  BY <2>1, <2>2
<1>. QED  BY <1>2, <1>3, <1>4, <1>5, <1>6, <1>7 DEF DaemonInv

\* The service state of a fault.
LEMMA FaultedState ==
    ASSUME SharedType, NEW required \in BOOLEAN
    PROVE  LET s == transition_state_to_fault(required)
           IN  /\ s \in ServiceState /\ s.faulted = TRUE /\ s.vault = "faulted"
               /\ [s EXCEPT !.clean = FALSE] \in ServiceState
               /\ [s EXCEPT !.clean = FALSE].faulted = TRUE
               /\ [s EXCEPT !.clean = FALSE].vault = "faulted"
<1>1. svc.required \in BOOLEAN /\ svc.clean \in BOOLEAN
  BY DEF SharedType, ServiceState
<1>. DEFINE r == svc.required \/ required
            k == IF r THEN FALSE ELSE svc.clean
<1>2. r \in BOOLEAN /\ k \in BOOLEAN
  BY <1>1
<1>. HIDE DEF r, k
<1>3. LET s == [vault |-> "faulted", origin |-> FALSE, busy |-> FALSE, faulted |-> TRUE,
                required |-> r, clean |-> k]
      IN  /\ s \in ServiceState /\ s.faulted = TRUE /\ s.vault = "faulted"
          /\ [s EXCEPT !.clean = FALSE] \in ServiceState
          /\ [s EXCEPT !.clean = FALSE].faulted = TRUE
          /\ [s EXCEPT !.clean = FALSE].vault = "faulted"
  BY <1>2 DEF ServiceState, Vault
<1>. QED  BY <1>3 DEF transition_state_to_fault, r, k

\* The first step: nothing more is admitted, and the marker is written.
LEMMA MarkFaultInv ==
    ASSUME DaemonInv, NEW t \in Threads, mark_fault_by(t)
    PROVE  DaemonInv'
<1>1. /\ daemon = "up" /\ thread[t].at = "fault"
      /\ UNCHANGED <<daemon, stopping, worker, inbox, replies, mapping, lease, nextLease, client, holders>>
      /\ svc' = transition_state_to_fault(TRUE)
      /\ arm_lifecycle \/ ArmFails
  BY DEF mark_fault_by, At, wire, loan, peer
<1>2. /\ thread[t] \in Thread /\ RecordOk(t, thread[t]) /\ SharedType /\ ThreadType
  BY RecordFacts
<1>3. svc' \in ServiceState /\ svc'.faulted = TRUE /\ svc'.vault = "faulted"
  BY <1>1, <1>2, FaultedState
<1>4. MarkerGrows
  BY <1>1, <1>2, MarkerSteps
<1>5. SharedType'
  BY <1>1, <1>2, <1>3, <1>4 DEF SharedType, MarkerGrows
<1>6. lease.id \in Nat /\ lease.id < nextLease /\ (lease # NoLease => lease.id # 0)
  BY <1>2, LeaseCases, MainApart DEF DaemonInv, LeaseKept, SharedType
<1>7. thread[t].op = "none"
  BY <1>1, <1>2 DEF RecordOk, StageOk, Thread, OwnerStages, BorrowStages, PendingStages,
     IssuedStages, Dispatched, Revoking
<1>8. ASSUME NEW r \in Thread, thread' = [thread EXCEPT ![t] = r], r.op = "none",
             r.at = IF lease = NoLease THEN "worker" ELSE "revoke", r.lease = lease.id,
             r.then = "worker", ~r.unmarked => marker' # "none"
      PROVE  DaemonInv'
  <2>1. StageOk(r)'
    BY <1>1, <1>6, <1>8 DEF StageOk, PlainStages, Revoking, Operations
  <2>2. OwnerOk(r)' /\ MarkedOk(r)' /\ BorrowOk(t, r)'
    BY <1>8 DEF OwnerOk, MarkedOk, BorrowOk, Operations
  <2>3. InFault(r) /\ ContainOk(r)'
    BY <1>1, <1>3, <1>8 DEF ContainOk, InFault, Revoking
  <2>. QED  BY <1>1, <1>3, <1>4, <1>5, <1>8, <2>1, <2>2, <2>3, FaultMove DEF RecordOk, MarkerGrows
<1>9. CASE arm_lifecycle /\ thread' = [thread EXCEPT
            ![t].at = IF lease = NoLease THEN "worker" ELSE "revoke",
            ![t].lease = lease.id, ![t].then = "worker"]
  <2>1. PICK r : r = [thread[t] EXCEPT !.at = IF lease = NoLease THEN "worker" ELSE "revoke",
                                       !.lease = lease.id, !.then = "worker"]
    OBVIOUS
  <2>2. /\ r \in Thread /\ r.at = (IF lease = NoLease THEN "worker" ELSE "revoke")
        /\ r.lease = lease.id /\ r.then = "worker" /\ r.op = "none"
    BY <1>2, <1>6, <1>7, <2>1 DEF Thread, PlainStages, Revoking
  <2>3. thread' = [thread EXCEPT ![t] = r]
    BY <1>9, <2>1
  <2>. QED  BY <1>8, <1>9, <2>2, <2>3 DEF arm_lifecycle
<1>10. CASE thread' = [thread EXCEPT ![t].unmarked = TRUE,
            ![t].at = IF lease = NoLease THEN "worker" ELSE "revoke",
            ![t].lease = lease.id, ![t].then = "worker"]
  <2>1. PICK r : r = [thread[t] EXCEPT !.unmarked = TRUE,
                                       !.at = IF lease = NoLease THEN "worker" ELSE "revoke",
                                       !.lease = lease.id, !.then = "worker"]
    OBVIOUS
  <2>2. /\ r \in Thread /\ r.at = (IF lease = NoLease THEN "worker" ELSE "revoke")
        /\ r.lease = lease.id /\ r.then = "worker" /\ r.op = "none" /\ r.unmarked = TRUE
    BY <1>2, <1>6, <1>7, <2>1 DEF Thread, PlainStages, Revoking
  <2>3. thread' = [thread EXCEPT ![t] = r]
    BY <1>10, <2>1
  <2>. QED  BY <1>8, <2>2, <2>3
<1>. QED  BY <1>9, <1>10 DEF mark_fault_by

\* The end of the worker.
LEMMA TerminateInv ==
    ASSUME DaemonInv, NEW t \in Threads, fault_and_terminate(t)
    PROVE  DaemonInv'
<1>1. /\ daemon = "up" /\ thread[t].at = "worker"
      /\ UNCHANGED <<daemon, svc, stopping, marker, armed, mapping, lease, nextLease, client, holders>>
  BY DEF fault_and_terminate, At, disk, loan, peer
<1>2. /\ thread[t] \in Thread /\ RecordOk(t, thread[t]) /\ SharedType /\ ThreadType
      /\ thread[Main].op = "none"
  BY RecordFacts
<1>3. /\ svc.faulted /\ thread[t].op = "none" /\ (thread[t].sound => lease = NoLease)
      /\ ~thread[t].unmarked => marker # "none"
  BY <1>1, <1>2 DEF RecordOk, ContainOk, InFault, StageOk, Thread, OwnerStages, BorrowStages,
     PendingStages, IssuedStages, Dispatched, Revoking
<1>4. ASSUME worker' \in Worker, faults' \in Nat, worker'.up => worker.up,
             (inbox' = inbox /\ replies' = replies) \/ (inbox' = <<>> /\ replies' = <<>>),
             NEW r \in Thread, thread' = [thread EXCEPT ![t] = r], r.at = "contain",
             r.op = "none", r.lease = thread[t].lease, r.unmarked = thread[t].unmarked,
             r.sound => thread[t].sound /\ ~worker'.up
      PROVE  DaemonInv'
  <2>1. SharedType'
    <3>1. /\ inbox' \in Seq([op : Commands, from : Clients])
          /\ replies' \in Seq([to : Clients, op : Commands, code : {"ok", "refused", "bad"}])
      <4>1. CASE inbox' = inbox /\ replies' = replies
        BY <1>2, <4>1 DEF SharedType
      <4>2. CASE inbox' = <<>> /\ replies' = <<>>
        BY <4>2
      <4>. QED  BY <1>4, <4>1, <4>2
    <3>. QED  BY <1>1, <1>2, <1>4, <3>1 DEF SharedType
  <2>2. StageOk(r)'
    BY <1>1, <1>2, <1>4 DEF RecordOk, StageOk, PlainStages, Revoking, Operations
  <2>3. OwnerOk(r)' /\ MarkedOk(r)' /\ BorrowOk(t, r)'
    BY <1>4 DEF OwnerOk, MarkedOk, BorrowOk, Operations
  <2>4. InFault(r) /\ ContainOk(r)'
    BY <1>1, <1>3, <1>4 DEF ContainOk, InFault, Revoking
  <2>. QED  BY <1>1, <1>3, <1>4, <2>1, <2>2, <2>3, <2>4, FaultMove DEF RecordOk
<1>5. worker \in Worker /\ faults \in Nat
  BY <1>2 DEF SharedType
<1>6. CASE /\ worker' = [NoWorker EXCEPT !.terminal = TRUE] /\ inbox' = <<>> /\ replies' = <<>>
           /\ Works /\ Go(t, "contain")
  <2>1. worker' \in Worker /\ ~worker'.up
    BY <1>6, WorkerRecords
  <2>2. PICK r \in Thread : /\ thread' = [thread EXCEPT ![t] = r]
                            /\ r.at = "contain" /\ SameBut(thread[t], r)
    BY <1>2, <1>6, GoRecord DEF Stages, PlainStages
  <2>. QED  BY <1>3, <1>4, <1>5, <1>6, <2>1, <2>2 DEF SameBut, Works
<1>7. CASE /\ Fails /\ worker.up /\ worker' = [worker EXCEPT !.terminal = TRUE]
           /\ UNCHANGED <<inbox, replies>>
           /\ thread' = [thread EXCEPT ![t].at = "contain", ![t].sound = FALSE]
  <2>1. worker' \in Worker /\ worker'.up = worker.up
    <3>1. worker' = [worker EXCEPT !.terminal = TRUE]
      BY <1>7
    <3>. QED  BY <1>5, <3>1, WorkerRecords
  <2>2. PICK r : r = [thread[t] EXCEPT !.at = "contain", !.sound = FALSE]
    OBVIOUS
  <2>3. /\ r \in Thread /\ r.at = "contain" /\ r.op = "none" /\ r.lease = thread[t].lease
        /\ r.unmarked = thread[t].unmarked /\ r.sound = FALSE
    BY <1>2, <1>3, <2>2 DEF Thread, PlainStages
  <2>4. thread' = [thread EXCEPT ![t] = r]
    BY <1>7, <2>2
  <2>5. faults' \in Nat
    BY <1>5, <1>7 DEF Fails
  <2>. QED  BY <1>4, <1>7, <2>1, <2>3, <2>4, <2>5
<1>. QED  BY <1>6, <1>7 DEF fault_and_terminate

\* The fault that needs no marker, because nothing was dispatched.
LEMMA CleanFaultInv ==
    ASSUME DaemonInv, NEW c \in Clients,
           mark_pre_mutation_fault(c) \/ cancel_clean(c) \/ FinalizeCleanFault(c)
    PROVE  DaemonInv'
<1>1. /\ daemon = "up" /\ thread[c].at \in {"prefault", "cancel_clean", "preclean"}
      /\ thread[c].at # "prefault" <=> cancel_clean(c) \/ FinalizeCleanFault(c)
      /\ UNCHANGED <<daemon, marker, armed, mapping, lease, nextLease, client, holders>>
  BY DEF mark_pre_mutation_fault, cancel_clean, FinalizeCleanFault, At, disk, wire, loan, peer
<1>2. /\ thread[c] \in Thread /\ RecordOk(c, thread[c]) /\ SharedType /\ ThreadType
  BY RecordFacts, MainApart
<1>3. /\ thread[c].op \in Operations /\ ~InFault(thread[c]) /\ thread[c].at # "fault"
      /\ thread[c].at # "prefault" => svc.faulted
  BY <1>1, <1>2 DEF RecordOk, StageOk, ContainOk, Thread, BorrowStages, PendingStages, IssuedStages,
     PlainStages, Revoking, InFault
<1>4. CASE Fault(c, "idle") /\ UNCHANGED <<svc, stopping, disk, wire, loan, peer, faults>>
  <2>1. QuietShared
    BY <1>1, <1>4, Unmoved
  <2>. QED  BY <1>1, <1>4, <2>1, GoesToFault, MainApart
<1>5. ASSUME svc'.faulted, SharedType', worker'.up => worker.up,
             (inbox' = inbox /\ replies' = replies) \/ (inbox' = <<>> /\ replies' = <<>>),
             stopping => stopping', svc.faulted \/ stopping',
             NEW a \in {"cancel_clean", "preclean"}, Go(c, a)
      PROVE  DaemonInv'
  <2>1. PICK r \in Thread : /\ thread' = [thread EXCEPT ![c] = r]
                            /\ r.at = a /\ SameBut(thread[c], r)
    BY <1>2, <1>5, GoRecord, MainApart DEF Stages, OwnerStages
  <2>2. StageOk(r)'
    BY <1>1, <1>2, <1>3, <1>5, <2>1 DEF SameBut, RecordOk, StageOk, OwnerStages, Operations, Revoking
  <2>3. OwnerOk(r)' /\ MarkedOk(r)' /\ BorrowOk(c, r)' /\ ContainOk(r)'
    BY <1>1, <1>2, <1>3, <1>5, <2>1 DEF SameBut, RecordOk, OwnerOk, MarkedOk, BorrowOk, ContainOk,
       InFault, Live, Dispatched, Operations, Revoking
  <2>. QED  BY <1>1, <1>3, <1>5, <2>1, <2>2, <2>3, FaultMove, MainApart DEF RecordOk
<1>6. ASSUME svc.faulted, svc'.faulted, SharedType', worker'.up => worker.up,
             inbox' = inbox /\ replies' = replies,
             stopping => stopping', Done(c) \/ Fault(c, "idle")
      PROVE  DaemonInv'
  <2>1. PICK r \in Thread : (r = Idle \/ r = FaultRecord("idle")) /\ thread' = [thread EXCEPT ![c] = r]
    BY <1>6, IdleFields, FaultFields DEF Done, Fault, FaultRecord
  <2>2. /\ r.op = "none" /\ r.lease = 0 /\ r.at \in {"idle", "fault"}
        /\ r.at \in {"idle", "accepted"} => r.code = "none"
    BY <2>1, IdleFields, FaultFields
  <2>3. 0 < nextLease'
    BY <1>6 DEF SharedType
  <2>4. StageOk(r)'
    BY <2>2, <2>3 DEF StageOk, PlainStages, Operations, Revoking
  <2>5. OwnerOk(r)' /\ MarkedOk(r)' /\ BorrowOk(c, r)' /\ ContainOk(r)'
    BY <2>2 DEF OwnerOk, MarkedOk, BorrowOk, ContainOk, InFault, Operations, Revoking
  <2>. QED  BY <1>1, <1>3, <1>6, <2>1, <2>2, <2>4, <2>5, FaultMove, MainApart DEF RecordOk
<1>7. CASE mark_pre_mutation_fault(c) /\ ~Fault(c, "idle")
  <2>1. /\ svc' = [transition_state_to_fault(FALSE) EXCEPT !.clean = FALSE] /\ stopping' = TRUE
        /\ Go(c, "cancel_clean") /\ UNCHANGED <<worker, inbox, replies, faults>>
    BY <1>7 DEF mark_pre_mutation_fault, wire
  <2>2. svc' \in ServiceState /\ svc'.faulted = TRUE /\ svc'.vault = "faulted"
    BY <1>2, <2>1, FaultedState
  <2>3. SharedType'
    BY <1>1, <1>2, <2>1, <2>2 DEF SharedType
  <2>. QED  BY <1>5, <2>1, <2>2, <2>3
<1>8. CASE cancel_clean(c)
  <2>1. worker \in Worker /\ faults \in Nat /\ svc.faulted /\ UNCHANGED <<svc, stopping>>
    BY <1>1, <1>2, <1>3, <1>8 DEF SharedType, cancel_clean
  <2>2. CASE /\ worker' = [NoWorker EXCEPT !.terminal = TRUE] /\ inbox' = <<>> /\ replies' = <<>>
             /\ Works /\ Go(c, "preclean")
    <3>1. worker' \in Worker /\ ~worker'.up
      BY <2>2, WorkerRecords
    <3>2. /\ inbox' \in Seq([op : Commands, from : Clients])
          /\ replies' \in Seq([to : Clients, op : Commands, code : {"ok", "refused", "bad"}])
      BY <2>2
    <3>3. SharedType'
      BY <1>1, <1>2, <2>1, <2>2, <3>1, <3>2 DEF SharedType, Works
    <3>. QED  BY <1>5, <2>1, <2>2, <3>1, <3>3
  <2>3. CASE /\ Fails /\ worker' = [worker EXCEPT !.terminal = TRUE] /\ UNCHANGED <<inbox, replies>>
             /\ Fault(c, "idle")
    <3>1. worker' = [worker EXCEPT !.terminal = TRUE]
      BY <2>3
    <3>2. worker' \in Worker /\ worker'.up = worker.up
      BY <2>1, <3>1, WorkerRecords
    <3>3. faults' \in Nat
      BY <2>1, <2>3 DEF Fails
    <3>4. SharedType'
      BY <1>1, <1>2, <2>1, <2>3, <3>2, <3>3 DEF SharedType
    <3>. QED  BY <1>6, <2>1, <2>3, <3>2, <3>4
  <2>. QED  BY <1>8, <2>2, <2>3 DEF cancel_clean
<1>9. CASE FinalizeCleanFault(c) /\ ~Fault(c, "idle")
  <2>1. /\ svc' = [svc EXCEPT !.clean = TRUE] /\ Done(c)
        /\ UNCHANGED <<stopping, worker, inbox, replies, faults>>
    BY <1>9 DEF FinalizeCleanFault, wire
  <2>2. svc.faulted
    BY <1>1, <1>3, <1>9
  <2>3. /\ svc' \in ServiceState /\ svc'.faulted = svc.faulted /\ svc'.vault = svc.vault
    <3>1. svc \in ServiceState /\ svc' = [svc EXCEPT !.clean = TRUE]
      BY <1>2, <2>1 DEF SharedType
    <3>. QED  BY <3>1 DEF ServiceState
  <2>4. SharedType'
    BY <1>1, <1>2, <2>1, <2>3 DEF SharedType
  <2>. QED  BY <1>6, <2>1, <2>2, <2>3, <2>4
<1>10. CASE mark_pre_mutation_fault(c) /\ Fault(c, "idle")
  <2>1. UNCHANGED <<svc, stopping, disk, wire, loan, peer, faults>>
    <3>1. ~Go(c, "cancel_clean")
      <4>1. thread'[c].at = "fault"
        BY <1>2, <1>10, MainApart DEF Fault, Idle, ThreadType
      <4>2. Go(c, "cancel_clean") => thread'[c].at = "cancel_clean"
        BY <1>2, MainApart DEF Go, ThreadType, Thread
      <4>. QED  BY <4>1, <4>2
    <3>. QED  BY <1>10, <3>1 DEF mark_pre_mutation_fault
  <2>. QED  BY <1>4, <1>10, <2>1
<1>11. CASE FinalizeCleanFault(c) /\ Fault(c, "idle")
  <2>1. UNCHANGED <<svc, stopping, disk, wire, loan, peer, faults>>
    <3>1. ~Done(c)
      <4>1. thread'[c].at = "fault"
        BY <1>2, <1>11, MainApart DEF Fault, Idle, ThreadType
      <4>2. Done(c) => thread'[c].at = "idle"
        BY <1>2, MainApart DEF Done, ThreadType, Idle
      <4>. QED  BY <4>1, <4>2
    <3>. QED  BY <1>11, <3>1 DEF FinalizeCleanFault
  <2>. QED  BY <1>4, <1>11, <2>1
<1>. QED  BY <1>7, <1>8, <1>9, <1>10, <1>11

(***************************************************************************)
(* The steps that create a lease or bring it further.                      *)
(***************************************************************************)
\* A borrower's step over its own lease, while nobody has the service state.
LEMMA LoanMove ==
    ASSUME DaemonInv, Live, Free, svc.vault # "locked", NEW c \in Clients, NEW r \in Thread,
           thread' = [thread EXCEPT ![c] = r], thread[c].at # "idle", r.op = "borrow",
           UNCHANGED <<daemon, svc, stopping, worker, inbox, replies, mapping, client>>,
           SharedType', StageOk(r)', BorrowOk(c, r)',
           marker' = marker \/ marker' # "none",
           lease'.id < nextLease', nextLease <= nextLease',
           \A d \in Clients : d # c /\ thread[d].op = "borrow" => thread[d].lease # lease'.id,
           holders' = {} \/ (/\ lease'.client = c /\ lease'.state \in {"established", "revoking"}
                             /\ holders' \subseteq {c} /\ client[c] # "gone" /\ marker # "none")
    PROVE  DaemonInv'
<1>1. /\ SharedType /\ ThreadType /\ ThreadsOk
      /\ \A d \in Clients : ~Own(d)
      /\ Borrows(inbox) /\ Borrows(replies)
  BY NoOwner DEF DaemonInv
<1>2. /\ thread'[c] = r /\ \A u \in Threads : u # c => thread'[u] = thread[u]
      /\ ThreadType'
  BY <1>1, MovedThreads, MainApart
<1>3. RecordOk(c, r)'
  BY DEF RecordOk, StageOk, OwnerOk, MarkedOk, ContainOk, InFault, Operations, BorrowStages,
     PendingStages, IssuedStages, Revoking
<1>4. ThreadsOk'
  <2>1. ASSUME NEW u \in Threads PROVE RecordOk(u, thread[u])'
    <3>1. CASE u = c
      <4>1. thread'[u] = r
        BY <1>2, <3>1
      <4>. QED  BY <1>3, <3>1, <4>1 DEF RecordOk, StageOk, OwnerOk, MarkedOk, BorrowOk, ContainOk,
                InFault, Expected, validate_completion
    <3>2. CASE u # c
      <4>1. /\ thread'[u] = thread[u] /\ thread[u] \in Thread /\ RecordOk(u, thread[u])
            /\ thread[u].op \notin Operations
            /\ thread[u].op = "borrow" => thread[u].lease # lease'.id
        BY <1>1, <1>2, <3>2 DEF ThreadsOk, ThreadType, Own, Threads, Operations
      <4>2. ASSUME NEW q \in Thread, RecordOk(u, q), q.op \notin Operations,
                   q.op = "borrow" => q.lease # lease'.id
            PROVE  RecordOk(u, q)'
        <5>1. StageOk(q)'
          <6>1. q.lease < nextLease'
            BY <1>1, <4>2 DEF RecordOk, StageOk, Thread, SharedType
          <6>. QED  BY <4>2, <6>1 DEF RecordOk, StageOk
        <5>2. OwnerOk(q)' /\ MarkedOk(q)' /\ BorrowOk(u, q)'
          BY <4>2 DEF OwnerOk, MarkedOk, BorrowOk, Operations
        <5>3. ContainOk(q)'
          BY <4>2 DEF RecordOk, ContainOk, Live
        <5>. QED  BY <5>1, <5>2, <5>3 DEF RecordOk
      <4>. QED  BY <4>1, <4>2 DEF RecordOk, StageOk, OwnerOk, MarkedOk, BorrowOk, ContainOk,
                InFault, Expected, validate_completion
    <3>. QED  BY <3>1, <3>2
  <2>2. thread'[Main].op = "none"
    BY <1>1, <1>2, MainApart DEF ThreadsOk
  <2>. QED  BY <2>1, <2>2 DEF ThreadsOk
<1>5. \A d \in Clients : ~Own(d)'
  BY <1>1, <1>2, MainApart DEF Own, Operations
<1>6. OneOwner'
  BY <1>5 DEF OneOwner
<1>7. Channel' /\ Attestations' /\ CommandsMarked'
  BY <1>1 DEF DaemonInv, Channel, Borrows, Attestations, CommandsMarked
<1>8. OpenIsMarked' /\ LeaseKept' /\ CredentialLeased'
  BY DEF DaemonInv, OpenIsMarked, LeaseKept, CredentialLeased, Live
<1>9. UnlockedMarked'
  BY BusyMarked DEF UnlockedMarked, Live
<1>10. Leaving' /\ Contained' /\ Down'
  BY <1>2, MainApart DEF DaemonInv, Leaving, Contained, Down, Live
<1>. QED  BY <1>2, <1>4, <1>6, <1>7, <1>8, <1>9, <1>10 DEF DaemonInv

\* A borrow begins behind the marker, with a number of its own.
LEMMA BeginBorrowInv ==
    ASSUME DaemonInv, NEW c \in Clients, begin_provider_borrow(c)
    PROVE  DaemonInv'
<1>1. /\ Live /\ Free /\ svc.vault = "unlocked" /\ lease = NoLease /\ daemon = "up"
      /\ thread[c].at = "accepted"
      /\ UNCHANGED <<daemon, svc, stopping, worker, inbox, replies, mapping, client, holders>>
  BY DEF begin_provider_borrow, Admitted, At, Live, wire, peer
<1>2. /\ thread[c] \in Thread /\ RecordOk(c, thread[c]) /\ SharedType /\ ThreadType
      /\ nextLease \in Nat \ {0}
  BY RecordFacts, MainApart DEF SharedType
<1>3. CASE ArmFails /\ Fault(c, "idle") /\ UNCHANGED loan
  <2>1. MarkerGrows
    BY <1>2, <1>3, MarkerSteps
  <2>2. QuietShared
    BY <1>1, <1>2, <1>3, <2>1, Undisturbed DEF begin_provider_borrow, SharedType
  <2>. QED  BY <1>1, <1>3, <2>2, GoesToFault, MainApart
<1>4. CASE /\ arm_lifecycle
           /\ lease' = [id |-> nextLease, client |-> c, state |-> "pending", final |-> TRUE]
           /\ nextLease' = nextLease + 1
           /\ thread' = [thread EXCEPT ![c].at = "ready", ![c].op = "borrow",
                                       ![c].lease = nextLease]
  <2>1. PICK r : r = [thread[c] EXCEPT !.at = "ready", !.op = "borrow", !.lease = nextLease]
    OBVIOUS
  <2>2. /\ r \in Thread /\ r.at = "ready" /\ r.op = "borrow" /\ r.lease = nextLease
        /\ r.code = thread[c].code
    BY <1>2, <2>1 DEF Thread, BorrowStages, PendingStages
  <2>3. thread' = [thread EXCEPT ![c] = r]
    BY <1>4, <2>1
  <2>4. MarkerGrows
    BY <1>2, <1>4, MarkerSteps
  <2>5. lease' \in BorrowLease /\ lease'.id = nextLease /\ lease'.client = c
        /\ lease'.state = "pending"
    BY <1>2, <1>4 DEF BorrowLease
  <2>6. SharedType'
    BY <1>1, <1>2, <1>4, <2>4, <2>5 DEF SharedType, MarkerGrows
  <2>7. StageOk(r)'
    <3>1. r.code = "none"
      BY <1>1, <1>2, <2>2 DEF RecordOk, StageOk
    <3>. QED  BY <1>2, <1>4, <2>2, <3>1 DEF StageOk, BorrowStages, PendingStages, Operations, Revoking
  <2>8. BorrowOk(c, r)'
    BY <2>2, <2>5 DEF BorrowOk, PendingStages, IssuedStages
  <2>9. ASSUME NEW d \in Clients, thread[d].op = "borrow" PROVE thread[d].lease # lease'.id
    <3>1. thread[d].lease < nextLease /\ thread[d].lease \in Nat
      BY <2>9, BorrowerFacts
    <3>. QED  BY <1>2, <2>5, <3>1
  <2>10. holders' = {}
    BY <1>1, NothingLent, MainApart
  <2>11. lease'.id < nextLease' /\ nextLease <= nextLease'
    BY <1>2, <1>4, <2>5
  <2>12. marker' = marker \/ marker' # "none"
    BY <2>4 DEF MarkerGrows
  <2>. QED  BY <1>1, <2>2, <2>3, <2>6, <2>7, <2>8, <2>9, <2>10, <2>11, <2>12, LoanMove
<1>. QED  BY <1>3, <1>4 DEF begin_provider_borrow

\* From the issue on the lease ends by evidence only.
LEMMA IssueInv ==
    ASSUME DaemonInv, NEW c \in Clients, mark_lease_potentially_issued(c)
    PROVE  DaemonInv'
<1>1. /\ daemon = "up" /\ thread[c].at = "issue"
      /\ UNCHANGED <<daemon, svc, stopping, disk, wire, nextLease, peer, faults>>
  BY DEF mark_lease_potentially_issued, At
<1>2. /\ thread[c] \in Thread /\ thread[c].op = "borrow" /\ StageOk(thread[c])
      /\ BorrowOk(c, thread[c]) /\ SharedType /\ ThreadType
      /\ Mine(c) => lease # NoLease /\ lease \in BorrowLease /\ lease.client = c
  BY <1>1, BorrowerFacts DEF DaemonInv
<1>3. Mine(c) /\ Revocable => lease.state = "pending"
  BY <1>1, <1>2 DEF BorrowOk, Mine, PendingStages, Revocable
<1>4. CASE Done(c) /\ UNCHANGED lease
  <2>1. QuietShared
    BY <1>1, <1>2, <1>4, LeaseStep DEF LeaseShrinks, SharedType
  <2>. QED  BY <1>1, <1>2, <1>4, <2>1, BorrowerEnds
<1>5. CASE Mine(c) /\ Revocable /\ Done(c) /\ lease' = NoLease
  <2>1. LeaseShrinks
    BY <1>1, <1>2, <1>3, <1>5, ReleaseShrinks DEF peer
  <2>2. QuietShared
    BY <1>1, <1>2, <2>1, LeaseStep DEF SharedType
  <2>. QED  BY <1>1, <1>2, <1>5, <2>2, BorrowerEnds
<1>6. CASE /\ Mine(c) /\ Revocable /\ ~svc.faulted /\ Free
           /\ lease' = [lease EXCEPT !.state = "issued", !.final = FALSE]
           /\ Go(c, "send")
  <2>1. PICK r \in Thread : /\ thread' = [thread EXCEPT ![c] = r]
                            /\ r.at = "send" /\ SameBut(thread[c], r)
    BY <1>2, <1>6, GoRecord, MainApart DEF Stages, BorrowStages, IssuedStages
  <2>2. r.op = "borrow" /\ r.code = "none" /\ r.lease = thread[c].lease
    BY <1>1, <1>2, <2>1 DEF SameBut, StageOk
  <2>3. Live /\ svc.vault # "locked"
    BY <1>1, <1>2, <1>6 DEF Live, DaemonInv, LeaseKept
  <2>4. lease' \in BorrowLease /\ lease'.id = lease.id /\ lease'.client = c
        /\ lease'.state = "issued"
    BY <1>2, <1>6 DEF BorrowLease
  <2>5. UNCHANGED <<worker, inbox, replies, mapping, client, holders, marker, armed>>
    BY <1>1 DEF disk, wire, peer
  <2>6. SharedType'
    BY <1>1, <1>2, <2>4, <2>5 DEF SharedType
  <2>7. StageOk(r)'
    BY <1>1, <1>2, <2>1, <2>2 DEF StageOk, BorrowStages, IssuedStages, Operations, Revoking
  <2>8. BorrowOk(c, r)'
    BY <2>1, <2>2, <2>4 DEF BorrowOk, PendingStages, IssuedStages
  <2>9. ASSUME NEW d \in Clients, d # c, thread[d].op = "borrow"
        PROVE  thread[d].lease # lease'.id
    BY <1>2, <1>6, <2>4, <2>9, BorrowerFacts DEF BorrowOk
  <2>10. holders' = {}
    BY <1>3, <1>6, <2>3, <2>5, NothingLent
  <2>11. lease'.id < nextLease' /\ nextLease <= nextLease'
    BY <1>1, <1>2, <1>6, <2>4 DEF DaemonInv, LeaseKept, SharedType
  <2>. QED  BY <1>1, <1>6, <2>1, <2>2, <2>3, <2>5, <2>6, <2>7, <2>8, <2>9, <2>10, <2>11,
            LoanMove
<1>. QED  BY <1>4, <1>5, <1>6 DEF mark_lease_potentially_issued

\* The descriptor is sent: whoever may hold the credential holds it under the lease.
LEMMA DeliverInv ==
    ASSUME DaemonInv, NEW c \in Clients, send_provider_descriptor(c)
    PROVE  DaemonInv'
<1>1. /\ daemon = "up" /\ thread[c].at = "deliver"
      /\ UNCHANGED <<daemon, svc, stopping, disk, wire, nextLease, client, faults>>
  BY DEF send_provider_descriptor, At
<1>2. /\ thread[c] \in Thread /\ thread[c].op = "borrow" /\ StageOk(thread[c])
      /\ BorrowOk(c, thread[c]) /\ SharedType /\ ThreadType
      /\ Mine(c) => lease # NoLease /\ lease \in BorrowLease /\ lease.client = c
  BY <1>1, BorrowerFacts DEF DaemonInv
<1>3. Mine(c) /\ Revocable => lease.state = "issued"
  BY <1>1, <1>2 DEF BorrowOk, Mine, PendingStages, IssuedStages, Revocable
<1>4. CASE lease' = Finalized(c) /\ (Done(c) \/ Fault(c, "idle")) /\ UNCHANGED holders
  <2>1. QuietShared
    BY <1>1, <1>2, <1>4, FinalizedShrinks, LeaseStep DEF SharedType, peer
  <2>. QED  BY <1>1, <1>2, <1>4, <2>1, BorrowerEnds
<1>5. ASSUME Mine(c), Revocable
      PROVE  \A s \in {"established", "revoking"} :
                LET l == [Finalized(c) EXCEPT !.state = s]
                IN  l \in BorrowLease /\ l.id = lease.id /\ l.client = c /\ l.state = s
  BY <1>2, <1>5 DEF Finalized, BorrowLease
<1>6. PICK k : k = [thread[c] EXCEPT !.at = "kill", !.then = "idle"]
  OBVIOUS
<1>7. /\ k \in Thread /\ k.at = "kill" /\ k.then = "idle" /\ k.op = "borrow"
      /\ k.lease = thread[c].lease
  BY <1>2, <1>6 DEF Thread, BorrowStages, Revoking
<1>8. StageOk(k)
  BY <1>2, <1>7 DEF StageOk, BorrowStages, Revoking, Operations
<1>9. CASE /\ Mine(c) /\ Revocable
           /\ lease' = [Finalized(c) EXCEPT !.state = "revoking"]
           /\ thread' = [thread EXCEPT ![c].at = "kill", ![c].then = "idle"]
           /\ UNCHANGED holders
  <2>1. thread' = [thread EXCEPT ![c] = k]
    BY <1>6, <1>9
  <2>2. LeaseShrinks
    BY <1>2, <1>5, <1>9 DEF LeaseShrinks
  <2>3. QuietShared
    BY <1>1, <1>2, <1>9, <2>2, LeaseStep DEF SharedType, peer
  <2>4. BorrowOk(c, k)
    BY <1>2, <1>7, <1>9 DEF BorrowOk, Mine, PendingStages, IssuedStages
  <2>. QED  BY <1>1, <1>2, <1>7, <1>8, <2>1, <2>3, <2>4, BorrowerGoesOn
<1>10. ASSUME NEW r \in Thread, NEW s \in {"established", "revoking"}, Mine(c), Revocable, Free,
              ~svc.faulted, svc.vault = "unlocked", client[c] = "live",
              lease' = [Finalized(c) EXCEPT !.state = s],
              holders' \in {holders, holders \cup {c}},
              thread' = [thread EXCEPT ![c] = r], r.op = "borrow", r.lease = thread[c].lease,
              r.at \notin PendingStages \cup IssuedStages, StageOk(r)
       PROVE  DaemonInv'
  <2>1. Live /\ marker # "none"
    BY <1>1, <1>10, BusyMarked DEF Live
  <2>2. lease' \in BorrowLease /\ lease'.id = lease.id /\ lease'.client = c /\ lease'.state = s
    BY <1>5, <1>10
  <2>3. UNCHANGED <<worker, inbox, replies, mapping, marker, armed>>
    BY <1>1 DEF disk, wire
  <2>4. holders \subseteq {c}
    BY <1>2, <1>10, <2>1 DEF DaemonInv, CredentialLeased, Live
  <2>5. SharedType'
    BY <1>1, <1>2, <1>10, <2>2, <2>3, <2>4 DEF SharedType
  <2>6. StageOk(r)' /\ BorrowOk(c, r)'
    BY <1>1, <1>10, <2>2 DEF StageOk, BorrowOk
  <2>7. ASSUME NEW d \in Clients, d # c, thread[d].op = "borrow"
        PROVE  thread[d].lease # lease'.id
    BY <1>2, <1>10, <2>2, <2>7, BorrowerFacts DEF BorrowOk
  <2>8. lease'.id < nextLease' /\ nextLease <= nextLease'
    BY <1>1, <1>2, <1>10, <2>2 DEF DaemonInv, LeaseKept, SharedType
  <2>9. /\ lease'.client = c /\ lease'.state \in {"established", "revoking"}
        /\ holders' \subseteq {c} /\ client[c] # "gone" /\ marker # "none"
    BY <1>10, <2>1, <2>2, <2>4
  <2>10. thread[c].at # "idle" /\ svc.vault # "locked" /\ marker' = marker
    BY <1>1, <1>10, <2>3
  <2>. QED  BY <1>1, <1>10, <2>1, <2>3, <2>5, <2>6, <2>7, <2>8, <2>9, <2>10, LoanMove
<1>11. CASE /\ Mine(c) /\ Revocable /\ Free /\ ~svc.faulted /\ svc.vault = "unlocked"
            /\ client[c] = "live"
            /\ lease' = [Finalized(c) EXCEPT !.state = "established"]
            /\ holders' = holders \cup {c}
            /\ Go(c, "monitor")
  <2>1. PICK r \in Thread : /\ thread' = [thread EXCEPT ![c] = r]
                            /\ r.at = "monitor" /\ SameBut(thread[c], r)
    BY <1>2, <1>11, GoRecord, MainApart DEF Stages, BorrowStages
  <2>2. r.op = "borrow" /\ r.lease = thread[c].lease
        /\ r.at \notin PendingStages \cup IssuedStages
    BY <1>2, <2>1 DEF SameBut, PendingStages, IssuedStages
  <2>3. StageOk(r)
    BY <1>2, <2>1, <2>2 DEF StageOk, BorrowStages, Operations, Revoking
  <2>. QED  BY <1>10, <1>11, <2>1, <2>2, <2>3
<1>12. CASE /\ Mine(c) /\ Revocable /\ Free /\ ~svc.faulted /\ svc.vault = "unlocked"
            /\ client[c] = "live"
            /\ lease' = [Finalized(c) EXCEPT !.state = "revoking"]
            /\ holders' \in {holders, holders \cup {c}}
            /\ thread' = [thread EXCEPT ![c].at = "kill", ![c].then = "idle"]
  <2>1. thread' = [thread EXCEPT ![c] = k]
    BY <1>6, <1>12
  <2>2. k.at \notin PendingStages \cup IssuedStages
    BY <1>7 DEF PendingStages, IssuedStages
  <2>. QED  BY <1>7, <1>8, <1>10, <1>12, <2>1, <2>2
<1>. QED  BY <1>4, <1>9, <1>11, <1>12 DEF send_provider_descriptor

(***************************************************************************)
(* The start and the ends of the process.                                  *)
(***************************************************************************)
\* The state of a process that is gone satisfies the invariant.
Gone ==
    /\ SharedType /\ Down /\ daemon # "up" /\ OpenIsMarked
    /\ \A c \in holders : client[c] # "gone"

\* It relies on nothing that went with the process.
LEMMA DownInv ==
    Gone => DaemonInv
<1>. SUFFICES ASSUME SharedType, Down, daemon # "up", OpenIsMarked,
                     \A c \in holders : client[c] # "gone"
              PROVE  DaemonInv
  BY DEF Gone
<1>1. /\ thread = [t \in Threads |-> Idle] /\ lease = NoLease /\ inbox = <<>> /\ replies = <<>>
      /\ worker = NoWorker
  BY DEF Down
<1>2. ThreadType /\ \A t \in Threads : thread[t] = Idle
  BY <1>1, IdleFields DEF ThreadType
<1>3. ThreadsOk
  <2>1. \A t \in Threads : RecordOk(t, thread[t])
    BY <1>2, RestingRecords
  <2>. QED  BY <1>2, <2>1, IdleFields, MainApart DEF ThreadsOk
<1>4. OneOwner /\ Channel /\ UnlockedMarked /\ CredentialLeased /\ Contained /\ LeaseKept
  BY <1>1 DEF OneOwner, Channel, UnlockedMarked, CredentialLeased, Contained, LeaseKept, Live
<1>5. Attestations /\ CommandsMarked
  BY <1>1 DEF Attestations, CommandsMarked
<1>6. Leaving
  BY <1>2, IdleFields, MainApart DEF Leaving
<1>. QED  BY <1>2, <1>3, <1>4, <1>5, <1>6 DEF DaemonInv

\* The same of the state behind a step.
LEMMA DownInvNext ==
    Gone' => DaemonInv'
BY DownInv, PTL

\* The process ends and leaves the marker, if anything is open or lent.
LEMMA EndsInv ==
    ASSUME DaemonInv, NEW how \in {"ok", "error", "killed"}, Ends(how),
           UNCHANGED <<nextLease, client, holders>>, faults' \in Nat,
           mapping' \in {"closed", "open"}, marker' \in {"none", "partial", "whole"},
           OpenIsMarked'
    PROVE  DaemonInv'
<1>1. SharedType'
  <2>1. svc' \in ServiceState /\ (svc'.faulted <=> svc'.vault = "faulted")
    BY DEF Ends, Serving, ServiceState, Vault
  <2>2. worker' \in Worker
    BY DEF Ends, NoWorker, Worker
  <2>3. /\ inbox' \in Seq([op : Commands, from : Clients])
        /\ replies' \in Seq([to : Clients, op : Commands, code : {"ok", "refused", "bad"}])
    BY DEF Ends
  <2>. QED  BY <2>1, <2>2, <2>3 DEF DaemonInv, SharedType, Ends
<1>2. Down' /\ daemon' # "up"
  BY DEF Down, Ends
<1>3. \A c \in holders' : client'[c] # "gone"
  BY DEF DaemonInv, LeaseKept
<1>. QED  BY <1>1, <1>2, <1>3, DownInvNext DEF Gone

\* The three ends of the process in one step: an error behind the fault, the exit behind
\* the fault procedure, and a kill at any time.
LEMMA LeaveInv ==
    ASSUME DaemonInv, LeaveWithError \/ Exit \/ Killed
    PROVE  DaemonInv'
<1>1. /\ mapping \in {"closed", "open"} /\ marker \in {"none", "partial", "whole"}
      /\ faults \in Nat /\ OpenIsMarked
  BY DEF DaemonInv, SharedType
<1>2. ASSUME NEW how \in {"ok", "error", "killed"}, Ends(how), faults' \in Nat,
             UNCHANGED <<marker, mapping, nextLease, peer>>
      PROVE  DaemonInv'
  <2>1. OpenIsMarked'
    BY <1>1, <1>2 DEF OpenIsMarked, peer
  <2>. QED  BY <1>1, <1>2, <2>1, EndsInv DEF peer
<1>3. CASE LeaveWithError
  <2>1. CASE svc.faulted
    BY <1>1, <1>2, <1>3, <2>1 DEF LeaveWithError
  <2>2. CASE ~svc.faulted
    <3>1. /\ daemon = "up" /\ thread[Main].at = "leave" /\ Fault(Main, "exit")
          /\ UNCHANGED <<daemon, svc, stopping, disk, wire, loan, peer, faults>>
      BY <1>3, <2>2 DEF LeaveWithError, At
    <3>. QED  BY <3>1, Unmoved, GoesToFault, MainApart
  <2>. QED  BY <2>1, <2>2
<1>4. CASE Exit
  BY <1>1, <1>2, <1>4 DEF Exit
<1>5. CASE Killed
  BY <1>1, <1>2, <1>5 DEF Killed, Fails
<1>. QED  BY <1>3, <1>4, <1>5

\* The clean end: the marker goes behind the closed mapping.
LEMMA ShutdownInv ==
    ASSUME DaemonInv, shutdown
    PROVE  DaemonInv'
<1>1. /\ Ends("ok") /\ UNCHANGED <<nextLease, peer, faults>> /\ lease = NoLease /\ daemon = "up"
  BY DEF shutdown, At
<1>2. /\ mapping \in {"closed", "open"} /\ marker \in {"none", "partial", "whole"}
      /\ faults \in Nat /\ OpenIsMarked
  BY DEF DaemonInv, SharedType
<1>3. CASE UNCHANGED <<marker, mapping>>
  <2>1. OpenIsMarked'
    BY <1>1, <1>2, <1>3 DEF OpenIsMarked, peer
  <2>. QED  BY <1>1, <1>2, <1>3, <2>1, EndsInv DEF peer
<1>4. CASE ~svc.faulted /\ mapping' = "closed" /\ marker' = "none"
  <2>1. holders = {}
    BY <1>1, <1>4, NothingLent, MainApart DEF Live
  <2>2. OpenIsMarked'
    BY <1>1, <1>4, <2>1 DEF OpenIsMarked, peer
  <2>. QED  BY <1>1, <1>2, <1>4, <2>2, EndsInv DEF peer
<1>. QED  BY <1>3, <1>4 DEF shutdown, ShutdownCleanly

\* The worker, the mapping and the marker behind the handlers, in a shutdown that fails.
LEMMA ShutdownMove ==
    ASSUME DaemonInv, Live, thread[Main].at = "shutdown", lease = NoLease, Fault(Main, "exit"),
           UNCHANGED <<daemon, svc, stopping, inbox, replies, lease, nextLease, client, holders>>,
           SharedType', mapping' = mapping \/ mapping' = "closed",
           marker' = marker \/ mapping' = "closed",
           worker'.up => worker.up /\ marker' = marker
    PROVE  DaemonInv'
<1>1. PICK r \in Thread : r = FaultRecord("exit")
  BY FaultFields
<1>2. r.at = "fault" /\ r.op = "none" /\ thread' = [thread EXCEPT ![Main] = r]
  BY <1>1, FaultFields DEF Fault, FaultRecord
<1>3. SharedType /\ ThreadType /\ ThreadsOk
  BY DEF DaemonInv
<1>4. /\ thread'[Main] = r /\ \A c \in Clients : thread'[c] = thread[c]
      /\ ThreadType'
  BY <1>2, <1>3, MovedThreads, MainApart
<1>5. \A c \in Clients : thread[c].at = "idle"
  BY DEF DaemonInv, Leaving, Live
<1>6. \A c \in Clients : thread[c].op = "none" /\ StageOk(thread[c])
  BY <1>3, <1>5, RecordFacts, MainApart DEF RecordOk, StageOk, Thread, OwnerStages, BorrowStages,
     PendingStages, IssuedStages, Dispatched, Revoking
<1>7. ThreadsOk'
  <2>1. ASSUME NEW u \in Threads PROVE RecordOk(u, thread[u])'
    <3>1. CASE u = Main
      <4>1. r.lease < nextLease' /\ thread'[u] = r
        BY <1>1, <1>3, <1>4, <3>1, FaultFields DEF SharedType
      <4>. QED  BY <1>2, <4>1 DEF RecordOk, StageOk, OwnerOk, MarkedOk, BorrowOk, ContainOk,
                InFault, Operations, PlainStages, Revoking
    <3>2. CASE u # Main
      <4>1. /\ thread'[u] = thread[u] /\ thread[u].at = "idle" /\ thread[u].op = "none"
            /\ StageOk(thread[u])
        BY <1>4, <1>5, <1>6, <3>2 DEF Threads
      <4>2. StageOk(thread[u])'
        BY <4>1 DEF StageOk
      <4>. QED  BY <4>1, <4>2 DEF RecordOk, OwnerOk, MarkedOk, BorrowOk, ContainOk, InFault,
                Operations, Revoking
    <3>. QED  BY <3>1, <3>2
  <2>. QED  BY <1>2, <1>4, <2>1 DEF ThreadsOk
<1>8. \A c \in Clients : ~Own(c) /\ ~Own(c)'
  BY <1>4, <1>6 DEF Own, Operations
<1>9. OneOwner' /\ Channel'
  BY <1>8 DEF DaemonInv, OneOwner, Channel, Live, Awaited, Free, Borrows
<1>10. Attestations' /\ CommandsMarked'
  BY DEF DaemonInv, Attestations, CommandsMarked
<1>11. holders = {}
  BY NothingLent, MainApart
<1>12. OpenIsMarked' /\ LeaseKept' /\ CredentialLeased'
  BY <1>11 DEF DaemonInv, OpenIsMarked, LeaseKept, CredentialLeased, Live, Free
<1>13. UnlockedMarked' /\ Leaving' /\ Contained' /\ Down'
  BY <1>2, <1>4, <1>5 DEF UnlockedMarked, Leaving, Contained, Down, Live
<1>. QED  BY <1>4, <1>7, <1>9, <1>10, <1>12, <1>13 DEF DaemonInv

\* The shutdown that fails ends in the fault procedure.
LEMMA ShutdownFailsInv ==
    ASSUME DaemonInv, ShutdownFails
    PROVE  DaemonInv'
<1>1. /\ daemon = "up" /\ thread[Main].at = "shutdown" /\ Fault(Main, "exit")
      /\ UNCHANGED <<daemon, svc, stopping, lease, nextLease, client, holders>>
  BY DEF ShutdownFails, At, loan, peer
<1>2. SharedType
  BY DEF DaemonInv
<1>3. CASE UNCHANGED <<wire, disk, faults>>
  <2>1. QuietShared
    BY <1>1, <1>3, Unmoved DEF loan, peer
  <2>. QED  BY <1>1, <2>1, GoesToFault, MainApart
<1>4. CASE /\ lease = NoLease /\ ~svc.faulted /\ Fails
           /\ worker' = [worker EXCEPT !.held = FALSE]
           /\ mapping' \in {mapping, "closed"}
           /\ UNCHANGED <<disk, inbox, replies>>
  <2>1. worker' \in Worker /\ worker'.up = worker.up
    BY <1>2, <1>4, WorkerRecords DEF SharedType
  <2>2. faults' \in Nat /\ UNCHANGED <<marker, armed>>
    BY <1>2, <1>4 DEF Fails, SharedType, disk
  <2>3. SharedType'
    BY <1>1, <1>2, <1>4, <2>1, <2>2 DEF SharedType
  <2>4. Live
    BY <1>1, <1>4 DEF Live
  <2>. QED  BY <1>1, <1>4, <2>1, <2>2, <2>3, <2>4, ShutdownMove
<1>5. CASE /\ lease = NoLease /\ ~svc.faulted /\ ShutdownCleanly /\ DisarmFails
           /\ worker' = [NoWorker EXCEPT !.terminal = TRUE]
           /\ UNCHANGED <<inbox, replies>>
  <2>1. worker' \in Worker /\ worker'.up = FALSE
    BY <1>5, WorkerRecords
  <2>2. faults' \in Nat /\ armed' \in BOOLEAN /\ marker' \in {"none", "partial", "whole"}
    BY <1>2, <1>5 DEF DisarmFails, Fails, Works, SharedType
  <2>3. mapping' = "closed" /\ Live
    BY <1>1, <1>5 DEF ShutdownCleanly, Live
  <2>4. SharedType'
    BY <1>1, <1>2, <1>5, <2>1, <2>2, <2>3 DEF SharedType
  <2>. QED  BY <1>1, <1>5, <2>1, <2>3, <2>4, ShutdownMove
<1>. QED  BY <1>3, <1>4, <1>5 DEF ShutdownFails

\* A process that starts: nothing is open or lent unless the marker says so.
LEMMA StartInv ==
    ASSUME DaemonInv, Start
    PROVE  DaemonInv'
<1>1. /\ daemon # "up" /\ daemon' = "up"
      /\ UNCHANGED <<stopping, mapping, lease, nextLease, client, holders, inbox, replies, marker>>
  BY DEF Start, loan, peer
<1>2. /\ lease = NoLease /\ inbox = <<>> /\ replies = <<>> /\ worker = NoWorker
      /\ thread = [t \in Threads |-> Idle] /\ armed = FALSE /\ stopping = FALSE
  BY <1>1 DEF DaemonInv, Down
<1>3. SharedType /\ OpenIsMarked /\ LeaseKept /\ ThreadType
  BY DEF DaemonInv
<1>4. ASSUME NEW v \in {"locked", "unavailable", "faulted"}, svc' = Serving(v)
      PROVE  /\ svc' \in ServiceState /\ svc'.vault = v /\ (svc'.faulted <=> v = "faulted")
             /\ svc'.busy = FALSE /\ svc'.origin = FALSE
  BY <1>4 DEF Serving, ServiceState, Vault
<1>5. ASSUME NEW v \in {"locked", "unavailable", "faulted"}, svc' = Serving(v),
             v = "locked" => mapping = "closed", v # "faulted" => marker = "none",
             NEW r \in Thread, r.op = "none", r.lease = 0, r.at \in {"serve", "fault"},
             thread' = [thread EXCEPT ![Main] = r], worker' \in Worker, armed' \in BOOLEAN,
             faults' \in Nat,
             v = "faulted" => r.at = "fault" \/ (worker'.up = FALSE /\ marker # "none")
      PROVE  DaemonInv'
  <2>1. /\ svc' \in ServiceState /\ svc'.vault = v /\ (svc'.faulted <=> v = "faulted")
        /\ Free'
    BY <1>4, <1>5 DEF Free
  <2>2. SharedType'
    BY <1>1, <1>3, <1>5, <2>1 DEF SharedType
  <2>3. /\ thread'[Main] = r /\ \A c \in Clients : thread'[c] = Idle
        /\ ThreadType'
    BY <1>2, <1>3, <1>5, MovedThreads, MainApart
  <2>4. 0 < nextLease'
    BY <2>2 DEF SharedType
  <2>5. ThreadsOk'
    <3>1. ASSUME NEW u \in Threads PROVE RecordOk(u, thread[u])'
      <4>1. /\ thread'[u].op = "none" /\ thread'[u].lease = 0
            /\ thread'[u].at \in {"idle", "serve", "fault"}
            /\ thread'[u].at = "idle" => thread'[u].code = "none"
        BY <1>5, <2>3, IdleFields DEF Threads
      <4>. QED  BY <2>4, <4>1 DEF RecordOk, StageOk, OwnerOk, MarkedOk, BorrowOk, ContainOk, InFault,
                Operations, PlainStages, Revoking
    <3>. QED  BY <1>5, <2>3, <3>1 DEF ThreadsOk
  <2>6. \A c \in Clients : ~Own(c)'
    BY <2>3, IdleFields DEF Own, Operations
  <2>7. OneOwner' /\ Channel' /\ Attestations' /\ CommandsMarked'
    BY <1>1, <1>2, <2>6 DEF OneOwner, Channel, Attestations, CommandsMarked, Borrows
  <2>8. OpenIsMarked' /\ UnlockedMarked' /\ LeaseKept'
    BY <1>1, <1>2, <1>3, <1>5, <2>1 DEF OpenIsMarked, UnlockedMarked, LeaseKept, Live
  <2>9. CredentialLeased'
    BY <1>1, <1>3, <1>5, <2>1 DEF CredentialLeased, OpenIsMarked
  <2>10. Leaving' /\ Down'
    BY <1>1, <1>5, <2>3 DEF Leaving, Down
  <2>11. Contained'
    BY <1>1, <1>2, <1>5, <2>1, <2>3, MainApart DEF Contained
  <2>. QED  BY <2>2, <2>3, <2>5, <2>7, <2>8, <2>9, <2>10, <2>11 DEF DaemonInv
<1>6. PICK s : s = [Idle EXCEPT !.at = "serve"]
  OBVIOUS
<1>7. s \in Thread /\ s.at = "serve" /\ s.op = "none" /\ s.lease = 0
  BY <1>6 DEF Idle, Thread, PlainStages
<1>8. thread[Main] = Idle /\ [thread EXCEPT ![Main].at = "serve"] = [thread EXCEPT ![Main] = s]
  BY <1>2, <1>6, MainApart
<1>9. CASE /\ marker # "none" /\ armed' = TRUE /\ svc' = Serving("faulted")
           /\ thread' = [thread EXCEPT ![Main].at = "serve"]
           /\ UNCHANGED worker /\ Works
  <2>1. worker' \in Worker /\ worker'.up = FALSE /\ faults' \in Nat
    BY <1>2, <1>3, <1>9, WorkerRecords DEF Works, SharedType
  <2>. QED  BY <1>5, <1>7, <1>8, <1>9, <2>1
<1>10. CASE /\ marker = "none" /\ UNCHANGED armed
            /\ worker' = [NoWorker EXCEPT !.up = TRUE]
            /\ svc' = Serving(IF mapping = "closed" THEN "locked" ELSE "unavailable")
            /\ thread' = [thread EXCEPT ![Main].at = "serve"]
            /\ Works
  <2>1. worker' \in Worker /\ armed' \in BOOLEAN /\ faults' \in Nat
    BY <1>2, <1>3, <1>10 DEF Works, SharedType, Worker, NoWorker
  <2>2. PICK v \in {"locked", "unavailable", "faulted"} :
            v = IF mapping = "closed" THEN "locked" ELSE "unavailable"
    OBVIOUS
  <2>3. svc' = Serving(v)
    BY <1>10, <2>2 DEF Serving
  <2>4. (v = "locked" => mapping = "closed") /\ v # "faulted"
    BY <2>2
  <2>. QED  BY <1>5, <1>7, <1>8, <1>10, <2>1, <2>3, <2>4
<1>11. CASE /\ marker = "none" /\ Fails /\ UNCHANGED armed
            /\ worker' = [NoWorker EXCEPT !.up = TRUE, !.terminal = TRUE]
            /\ svc' = Serving("faulted")
            /\ Fault(Main, "shutdown")
  <2>1. worker' \in Worker /\ armed' \in BOOLEAN /\ faults' \in Nat
    <3>1. worker' \in Worker
      BY <1>11 DEF Worker, NoWorker
    <3>2. armed' \in BOOLEAN /\ faults' \in Nat
      BY <1>2, <1>3, <1>11 DEF Fails, SharedType
    <3>. QED  BY <3>1, <3>2
  <2>2. PICK r \in Thread : r = FaultRecord("shutdown")
    BY FaultFields
  <2>3. r.op = "none" /\ r.lease = 0 /\ r.at = "fault" /\ thread' = [thread EXCEPT ![Main] = r]
    BY <1>11, <2>2, FaultFields DEF Fault, FaultRecord
  <2>. QED  BY <1>5, <1>11, <2>1, <2>3
<1>. QED  BY <1>9, <1>10, <1>11 DEF Start

(***************************************************************************)
(* The theorems.                                                           *)
(***************************************************************************)
\* The invariant holds before the first start.
LEMMA InitInv ==
    Init => DaemonInv
<1>. SUFFICES ASSUME Init PROVE DaemonInv
  OBVIOUS
<1>1. SharedType
  <2>1. svc \in ServiceState /\ (svc.faulted <=> svc.vault = "faulted")
    BY DEF Init, Serving, ServiceState, Vault
  <2>2. worker \in Worker
    BY DEF Init, NoWorker, Worker
  <2>3. /\ inbox \in Seq([op : Commands, from : Clients])
        /\ replies \in Seq([to : Clients, op : Commands, code : {"ok", "refused", "bad"}])
    BY DEF Init
  <2>4. client \in [Clients -> {"live", "orphans", "gone"}] /\ holders \subseteq Clients
    BY DEF Init
  <2>5. stopping \in BOOLEAN /\ armed \in BOOLEAN
    BY DEF Init
  <2>6. /\ daemon \in {"up", "ok", "error", "killed"} /\ marker \in {"none", "partial", "whole"}
        /\ mapping \in {"closed", "open"} /\ lease \in BorrowLease \cup {NoLease}
        /\ nextLease \in Nat \ {0} /\ faults \in Nat
    BY DEF Init
  <2>. QED  BY <2>1, <2>2, <2>3, <2>4, <2>5, <2>6 DEF SharedType
<1>2. Down /\ daemon # "up" /\ OpenIsMarked /\ \A c \in holders : client[c] # "gone"
  BY DEF Init, Down, OpenIsMarked
<1>. QED  BY <1>1, <1>2, DownInv DEF Gone

\* A handler keeps the invariant.
LEMMA HandlerInv ==
    ASSUME DaemonInv, LoanInv, NEW c \in Clients, Handler(c)
    PROVE  DaemonInv'
<1>1. CASE Request(c)
  BY <1>1, BeginInv, BeginBorrowInv, RefuseInv DEF Request
<1>2. CASE \/ SecretGate(c) \/ DispatchArm(c) \/ Rollback(c) \/ Send(c) \/ Receive(c)
           \/ Finish(c) \/ Attested(c)
  BY <1>2, SecretGateInv, DispatchArmInv, RollbackInv, SendInv, ReceiveInv, FinishInv, AttestedInv
<1>3. CASE \/ provider_borrow_dispatch_ready(c) \/ cancel_pending_lease(c)
           \/ mark_lease_potentially_issued(c) \/ fail_ambiguous_borrow(c) \/ FinishBorrow(c)
           \/ MountCodexHome(c) \/ send_provider_descriptor(c) \/ monitor_provider_lease(c)
           \/ complete_normal_lease(c)
  BY <1>3, BorrowReadyInv, CancelPendingInv, IssueInv, AmbiguousInv, MountInv, FinishBorrowInv,
     DeliverInv, MonitorInv
<1>4. CASE mark_pre_mutation_fault(c) \/ cancel_clean(c) \/ FinalizeCleanFault(c)
  BY <1>4, CleanFaultInv
<1>. QED  BY <1>1, <1>2, <1>3, <1>4 DEF Handler

\* Every step keeps the invariant.
LEMMA NextInv ==
    DaemonInv /\ LoanInv /\ [Next]_vars => DaemonInv'
<1>. SUFFICES ASSUME DaemonInv, LoanInv, [Next]_vars PROVE DaemonInv'
  OBVIOUS
<1>1. CASE MainThread
  BY <1>1, SweepInv, ServeInv, DrainInv, LeaveInv, ShutdownInv, ShutdownFailsInv DEF MainThread
<1>2. ASSUME NEW c \in Clients, Handler(c) PROVE DaemonInv'
  BY <1>2, HandlerInv
<1>3. ASSUME NEW t \in Threads, Procedures(t) PROVE DaemonInv'
  BY <1>3, RevokeInv, KillBorrowerInv, AwaitEvidenceInv, MarkFaultInv, TerminateInv, ContainInv
     DEF Procedures
<1>4. CASE Environment
  BY <1>4, HandleCommandInv, WorkerDiesInv, EnvironmentQuiet, LeaveInv, StartInv, AcceptInv
     DEF Environment
<1>5. CASE UNCHANGED vars
  <2>1. /\ UNCHANGED <<daemon, svc, stopping, disk, wire, loan, peer, faults>> /\ UNCHANGED thread
        /\ UNCHANGED <<stopping, armed, lease>>
    BY <1>5 DEF vars, disk, wire, loan, peer
  <2>. QED  BY <2>1, Unmoved, NobodyMoves
<1>. QED  BY <1>1, <1>2, <1>3, <1>4, <1>5 DEF Next

\* The marker is removed only by a daemon that is up, without a fault and without a lease.
LEMMA MarkerStep ==
    ASSUME DaemonInv, Next, marker # "none", marker' = "none"
    PROVE  daemon = "up" /\ ~svc.faulted /\ lease = NoLease
<1>0. SharedType /\ ~MarkerGrows /\ ~UNCHANGED marker
  BY DEF DaemonInv, MarkerGrows
<1>1. ASSUME NEW c \in Clients, Handler(c) PROVE daemon = "up" /\ ~svc.faulted /\ lease = NoLease
  <2>1. CASE Attested(c)
    <3>1. daemon = "up" /\ thread[c].at = "attested"
      BY <2>1 DEF Attested, At
    <3>2. ~svc.faulted
      BY <1>0, <2>1 DEF Attested, validate_completion, disk
    <3>3. lease = NoLease
      BY <3>1, <3>2, OwnerFacts DEF Live
    <3>. QED  BY <3>1, <3>2, <3>3
  <2>2. CASE DispatchArm(c)
    <3>1. UNCHANGED disk \/ arm_lifecycle \/ ArmFails
      BY <2>2 DEF DispatchArm
    <3>. QED  BY <1>0, <3>1, MarkerSteps DEF disk
  <2>3. CASE begin_provider_borrow(c)
    <3>1. arm_lifecycle \/ ArmFails
      BY <2>3 DEF begin_provider_borrow
    <3>. QED  BY <1>0, <3>1, MarkerSteps
  <2>4. CASE Finish(c)
    <3>1. UNCHANGED disk \/ arm_lifecycle \/ ArmFails
      BY <2>4 DEF Finish
    <3>. QED  BY <1>0, <3>1, MarkerSteps DEF disk
  <2>5. CASE \/ SecretGate(c) \/ Rollback(c) \/ Send(c) \/ Receive(c) \/ FinishBorrow(c)
             \/ MountCodexHome(c) \/ provider_borrow_dispatch_ready(c) \/ cancel_pending_lease(c)
             \/ mark_lease_potentially_issued(c) \/ fail_ambiguous_borrow(c)
    BY <1>0, <2>5 DEF SecretGate, Rollback, Send, Receive, FinishBorrow, MountCodexHome,
       provider_borrow_dispatch_ready, cancel_pending_lease, mark_lease_potentially_issued,
       fail_ambiguous_borrow, disk
  <2>6. CASE \/ send_provider_descriptor(c) \/ monitor_provider_lease(c) \/ complete_normal_lease(c)
             \/ mark_pre_mutation_fault(c) \/ cancel_clean(c) \/ FinalizeCleanFault(c)
    BY <1>0, <2>6 DEF send_provider_descriptor, monitor_provider_lease, complete_normal_lease,
       mark_pre_mutation_fault, cancel_clean, FinalizeCleanFault, disk
  <2>7. CASE Request(c) /\ ~begin_provider_borrow(c)
    BY <1>0, <2>7 DEF Request, begin_unlock, begin_lock, begin_provider_operation, FaultedRequest,
       Refuse, disk
  <2>. QED  BY <1>1, <2>1, <2>2, <2>3, <2>4, <2>5, <2>6, <2>7 DEF Handler
<1>2. ASSUME NEW t \in Threads, Procedures(t)
      PROVE  daemon = "up" /\ ~svc.faulted /\ lease = NoLease
  <2>1. UNCHANGED disk \/ arm_lifecycle \/ ArmFails
    BY <1>2 DEF Procedures, revoke_provider_lease, KillBorrower, AwaitEvidence, mark_fault_by,
       fault_and_terminate, Contain
  <2>. QED  BY <1>0, <2>1, MarkerSteps DEF disk
<1>3. CASE MainThread
  <2>1. CASE shutdown
    BY <1>0, <2>1 DEF shutdown, At
  <2>2. CASE ShutdownFails
    BY <1>0, <2>2 DEF ShutdownFails, At, disk
  <2>3. CASE MainThread /\ ~shutdown /\ ~ShutdownFails
    BY <1>0, <2>3 DEF MainThread, sweep_expired_lease, serve_connections, DrainHandlers,
       JoinHandlers, LeaveWithError, Exit, disk
  <2>. QED  BY <1>3, <2>1, <2>2, <2>3
<1>4. CASE Environment
  BY <1>0, <1>4 DEF Environment, handle_command, WorkerDies, StopSignal, Killed, Start,
     accept_connection, ClientExits, ClientReturns, disk
<1>. QED  BY <1>1, <1>2, <1>3, <1>4 DEF Next

(***************************************************************************)
(* What a mounted home relies on.                                          *)
(***************************************************************************)
\* A thread that does not bring a borrow further than it was.
Follows(r, q) ==
    q.op = "borrow" /\ q.at \in IssuedStages \cup UnlentStages =>
        /\ r.op = "borrow"
        /\ q.at \in IssuedStages => r.at \in IssuedStages /\ q.lease = r.lease
        /\ q.at \in UnlentStages => r.at \in UnlentStages
        /\ q.at = "mount" => r.at = "mount" /\ r.code = q.code
AllFollow == \A c \in Clients : Follows(thread[c], thread'[c])

\* Threads that follow, holders that end and a lease that stays in the registry.
LEMMA LoanKept ==
    ASSUME LoanInv, LeaseMarked', AllFollow, holders' \subseteq holders,
           \A c \in Clients : thread'[c].op = "borrow" /\ thread'[c].at \in IssuedStages =>
                lease'.id = lease.id /\ lease'.final = lease.final
    PROVE  LoanInv'
<1>. SUFFICES ASSUME NEW c \in Clients, thread'[c].op = "borrow"
              PROVE  LoanOk(c, thread[c])'
  BY DEF LoanInv, LoanOk
<1>1. LoanOk(c, thread[c]) /\ Follows(thread[c], thread'[c])
  BY DEF LoanInv, AllFollow
<1>2. thread'[c].at \in IssuedStages => lease'.id = thread'[c].lease /\ ~lease'.final
  BY <1>1 DEF LoanOk, Follows
<1>3. thread'[c].at \in UnlentStages => c \notin holders'
  BY <1>1 DEF LoanOk, Follows
<1>4. thread'[c].at = "mount" => thread'[c].code = "ok"
  BY <1>1 DEF LoanOk, Follows, IssuedStages
<1>. QED  BY <1>2, <1>3, <1>4 DEF LoanOk

\* A lease is marked when it appears and the marker stays as long as it does.
LEMMA MarkedStep ==
    ASSUME DaemonInv, LoanInv, Next, lease = NoLease => lease' = NoLease \/ marker' # "none"
    PROVE  LeaseMarked'
BY MarkerStep DEF LoanInv, LeaseMarked

\* How the threads go on that are not on the way to a credential.
Turns(t) ==
    \/ \E q : thread' = [thread EXCEPT ![t] = q]
              /\ (q.op = "borrow" => q.at \notin IssuedStages \cup UnlentStages)
    \/ UNCHANGED thread

\* They bring no borrow further.
LEMMA TurnsFollow ==
    ASSUME ThreadType, NEW t \in Threads, Turns(t) PROVE AllFollow
<1>1. \A c \in Clients : c \in Threads
  BY MainApart
<1>. QED  BY <1>1 DEF Turns, AllFollow, Follows, ThreadType

\* Nor does anything the main thread does for itself.
LEMMA MainFollows ==
    ASSUME ThreadType, NEW q, thread' = [thread EXCEPT ![Main] = q] PROVE AllFollow
<1>1. \A c \in Clients : c \in Threads /\ c # Main
  BY MainApart
<1>. QED  BY <1>1 DEF AllFollow, Follows, ThreadType

\* The usual ways of going on.
LEMMA UsualTurns ==
    ASSUME ThreadType, NEW t \in Threads
    PROVE  /\ Done(t) => Turns(t)
           /\ \A back : Fault(t, back) => Turns(t)
           /\ \A l, then : Revoke(t, l, then) => Turns(t)
           /\ \A a : Go(t, a) /\ (thread[t].op = "borrow" => a \notin IssuedStages \cup UnlentStages)
                => Turns(t)
<1>0. thread[t] \in Thread
  BY DEF ThreadType
<1>1. Done(t) => Turns(t)
  BY IdleFields DEF Done, Turns
<1>2. ASSUME NEW back, Fault(t, back) PROVE Turns(t)
  <2>1. [Idle EXCEPT !.at = "fault", !.back = back].op = "none"
    BY DEF Idle
  <2>. QED  BY <1>2, <2>1 DEF Fault, Turns
<1>3. ASSUME NEW l, NEW then, Revoke(t, l, then) PROVE Turns(t)
  <2>1. PICK q : q = [thread[t] EXCEPT !.at = "revoke", !.lease = l, !.then = then]
    OBVIOUS
  <2>2. q.at = "revoke"
    BY <1>0, <2>1 DEF Thread
  <2>3. thread' = [thread EXCEPT ![t] = q]
    BY <1>3, <2>1 DEF Revoke
  <2>. QED  BY <2>2, <2>3 DEF Turns, IssuedStages, UnlentStages, PendingStages
<1>4. ASSUME NEW a, Go(t, a), thread[t].op = "borrow" => a \notin IssuedStages \cup UnlentStages
      PROVE  Turns(t)
  <2>1. PICK q : q = [thread[t] EXCEPT !.at = a]
    OBVIOUS
  <2>2. q.at = a /\ q.op = thread[t].op
    BY <1>0, <2>1 DEF Thread
  <2>3. thread' = [thread EXCEPT ![t] = q]
    BY <1>4, <2>1 DEF Go
  <2>. QED  BY <1>4, <2>2, <2>3 DEF Turns
<1>. QED  BY <1>1, <1>2, <1>3, <1>4

\* Where they lead.
LEMMA UsualStages ==
    ASSUME ThreadType, NEW t \in Threads
    PROVE  /\ Done(t) => thread'[t].at = "idle"
           /\ \A back : Fault(t, back) => thread'[t].at = "fault"
           /\ \A l, then : Revoke(t, l, then) => thread'[t].at = "revoke"
           /\ \A a : Go(t, a) => thread'[t].at = a
<1>0. thread[t] \in Thread
  BY DEF ThreadType
<1>1. Done(t) => thread'[t].at = "idle"
  BY IdleFields DEF Done, ThreadType
<1>2. ASSUME NEW back, Fault(t, back) PROVE thread'[t].at = "fault"
  <2>1. [Idle EXCEPT !.at = "fault", !.back = back].at = "fault"
    BY DEF Idle
  <2>. QED  BY <1>2, <2>1 DEF Fault, ThreadType
<1>3. ASSUME NEW l, NEW then, Revoke(t, l, then) PROVE thread'[t].at = "revoke"
  BY <1>0, <1>3 DEF Revoke, ThreadType, Thread
<1>4. ASSUME NEW a, Go(t, a) PROVE thread'[t].at = a
  BY <1>0, <1>4 DEF Go, ThreadType, Thread
<1>. QED  BY <1>1, <1>2, <1>3, <1>4

\* A step that leaves the lease alone or only marks it for revocation.
LEMMA LoanQuiet ==
    ASSUME DaemonInv, LoanInv, Next, AllFollow, holders' \subseteq holders,
           lease' = lease \/ lease' = [lease EXCEPT !.state = "revoking"],
           lease = NoLease => lease' = NoLease
    PROVE  LoanInv'
<1>1. lease'.id = lease.id /\ lease'.final = lease.final
  BY DEF DaemonInv, SharedType, BorrowLease, NoLease
<1>. QED  BY <1>1, MarkedStep, LoanKept

\* Only one borrow is under way with the lease in the registry.
LEMMA OneBorrow ==
    ASSUME DaemonInv, LoanInv, NEW c \in Clients, thread[c].op = "borrow", Mine(c),
           NEW d \in Clients, thread[d].op = "borrow", thread[d].at \in IssuedStages
    PROVE  d = c
<1>1. Mine(d)
  BY DEF LoanInv, LoanOk, Mine
<1>. QED  BY <1>1, BorrowerFacts

\* The borrower of the lease leaves the way to a credential, whatever becomes of the lease.
LEMMA LoanEnds ==
    ASSUME DaemonInv, LoanInv, Next, NEW c \in Clients, thread[c].op = "borrow", Mine(c),
           NEW q, thread' = [thread EXCEPT ![c] = q],
           q.op = "borrow" => q.at \notin IssuedStages \cup UnlentStages,
           holders' \subseteq holders \cup {c}
    PROVE  LoanInv'
<1>1. LeaseMarked'
  BY BorrowerFacts, MarkedStep
<1>2. ASSUME NEW d \in Clients, thread'[d].op = "borrow" PROVE LoanOk(d, thread[d])'
  <2>1. CASE d = c
    <3>1. thread'[d] = q
      BY <2>1, MainApart DEF DaemonInv, ThreadType
    <3>. QED  BY <1>2, <3>1 DEF LoanOk, IssuedStages
  <2>2. CASE d # c
    <3>1. thread'[d] = thread[d]
      BY <2>2, MainApart DEF DaemonInv, ThreadType
    <3>2. thread[d].at \notin IssuedStages
      BY <1>2, <2>2, <3>1, OneBorrow
    <3>3. thread[d].at \in UnlentStages => d \notin holders'
      BY <1>2, <2>2, <3>1 DEF LoanInv, LoanOk
    <3>. QED  BY <3>1, <3>2, <3>3 DEF LoanOk, IssuedStages
  <2>. QED  BY <2>1, <2>2
<1>. QED  BY <1>1, <1>2 DEF LoanInv, LoanOk

\* The same of a borrower that ends or turns to a revocation.
LEMMA BorrowerLeaves ==
    ASSUME DaemonInv, LoanInv, Next, NEW c \in Clients, thread[c].op = "borrow", Mine(c),
           Turns(c), ~UNCHANGED thread, holders' = holders
    PROVE  LoanInv'
BY LoanEnds DEF Turns

\* Requests, and the operations that borrow nothing.
LEMMA OperationLoan ==
    ASSUME DaemonInv, LoanInv, Next, NEW c \in Clients,
           \/ begin_unlock(c) \/ begin_lock(c) \/ FaultedRequest(c) \/ Refuse(c)
           \/ begin_provider_operation(c, "mutate") \/ begin_provider_operation(c, "read")
           \/ SecretGate(c) \/ DispatchArm(c) \/ Rollback(c) \/ Finish(c) \/ Attested(c)
           \/ mark_pre_mutation_fault(c) \/ cancel_clean(c) \/ FinalizeCleanFault(c)
           \/ monitor_provider_lease(c) \/ accept_connection(c)
    PROVE  LoanInv'
<1>1. ThreadType /\ c \in Threads /\ thread[c] \in Thread /\ StageOk(thread[c])
  BY RecordFacts, MainApart DEF DaemonInv, RecordOk
<1>2. holders' = holders /\ (lease' = lease \/ lease' = [lease EXCEPT !.state = "revoking"])
      /\ (lease = NoLease => lease' = NoLease)
  BY DEF begin_unlock, begin_lock, FaultedRequest, Refuse, begin_provider_operation, SecretGate,
     DispatchArm, Rollback, Finish, Attested, mark_pre_mutation_fault, cancel_clean,
     FinalizeCleanFault, monitor_provider_lease, accept_connection, loan, peer
<1>3. CASE begin_unlock(c) \/ begin_lock(c) \/ \E op \in {"mutate", "read"} :
                                                  begin_provider_operation(c, op)
  <2>1. \E q : thread' = [thread EXCEPT ![c] = q] /\ q.op # "borrow"
    <3>1. CASE begin_unlock(c)
      <4>1. PICK q : q = [thread[c] EXCEPT !.at = "gate", !.op = "unlock"]
        OBVIOUS
      <4>2. q.op # "borrow"
        BY <1>1, <4>1 DEF Thread
      <4>3. thread' = [thread EXCEPT ![c] = q]
        BY <3>1, <4>1 DEF begin_unlock
      <4>. QED  BY <4>2, <4>3
    <3>2. CASE begin_lock(c) /\ lease = NoLease
      <4>1. PICK q : q = [thread[c] EXCEPT !.at = "arm", !.op = "lock"]
        OBVIOUS
      <4>2. q.op # "borrow"
        BY <1>1, <4>1 DEF Thread
      <4>3. thread' = [thread EXCEPT ![c] = q]
        BY <3>2, <4>1 DEF begin_lock
      <4>. QED  BY <4>2, <4>3
    <3>3. CASE begin_lock(c) /\ lease # NoLease
      <4>1. PICK q : q = [thread[c] EXCEPT !.at = "revoke", !.op = "lock", !.lease = lease.id,
                                           !.then = "arm"]
        OBVIOUS
      <4>2. q.op # "borrow"
        BY <1>1, <4>1 DEF Thread
      <4>3. thread' = [thread EXCEPT ![c] = q]
        BY <3>3, <4>1 DEF begin_lock
      <4>. QED  BY <4>2, <4>3
    <3>4. ASSUME NEW op \in {"mutate", "read"}, begin_provider_operation(c, op)
          PROVE  \E q : thread' = [thread EXCEPT ![c] = q] /\ q.op # "borrow"
      <4>1. PICK q : q = [thread[c] EXCEPT !.at = "arm", !.op = op]
        OBVIOUS
      <4>2. q.op # "borrow"
        BY <1>1, <4>1 DEF Thread
      <4>3. thread' = [thread EXCEPT ![c] = q]
        BY <3>4, <4>1 DEF begin_provider_operation
      <4>. QED  BY <4>2, <4>3
    <3>. QED  BY <1>3, <3>1, <3>2, <3>3, <3>4
  <2>2. Turns(c)
    BY <2>1 DEF Turns
  <2>. QED  BY <1>1, <1>2, <2>2, TurnsFollow, LoanQuiet
<1>4. CASE ~(begin_unlock(c) \/ begin_lock(c) \/ \E op \in {"mutate", "read"} :
                                                    begin_provider_operation(c, op))
  <2>1. thread[c].at = "arm" => thread[c].op # "borrow"
    BY <1>1 DEF StageOk, BorrowStages, PendingStages, IssuedStages, Revoking
  <2>2. \/ Done(c) \/ Fault(c, "idle")
        \/ \E a \in {"accepted", "prefault", "arm", "rollback", "cancel_clean", "preclean",
                     "watch"} : Go(c, a)
        \/ Go(c, "send") /\ thread[c].op # "borrow"
    BY <1>4, <2>1 DEF FaultedRequest, Refuse, SecretGate, DispatchArm, Rollback, Finish, Attested,
       mark_pre_mutation_fault, cancel_clean, FinalizeCleanFault, monitor_provider_lease,
       accept_connection, At
  <2>3. Turns(c)
    BY <1>1, <2>2, UsualTurns DEF IssuedStages, UnlentStages, PendingStages
  <2>. QED  BY <1>1, <1>2, <2>3, TurnsFollow, LoanQuiet
<1>. QED  BY <1>3, <1>4

\* The channel: a borrow stays on its way, and was lent nothing.
LEMMA ChannelLoan ==
    ASSUME DaemonInv, LoanInv, Next, NEW c \in Clients, Send(c) \/ Receive(c)
    PROVE  LoanInv'
<1>1. ThreadType /\ c \in Threads /\ thread[c] \in Thread
  BY RecordFacts, MainApart DEF DaemonInv
<1>2. holders' = holders /\ lease' = lease
  BY DEF Send, Receive, loan, peer
<1>3. CASE Fault(c, "idle")
  BY <1>1, <1>2, <1>3, UsualTurns, TurnsFollow, LoanQuiet
<1>4. CASE ~Fault(c, "idle")
  <2>1. thread[c].at \in {"send", "reply"}
    BY DEF Send, Receive, At
  <2>2. \E q : /\ thread' = [thread EXCEPT ![c] = q]
               /\ q.op = thread[c].op /\ q.lease = thread[c].lease
               /\ q.at \in {"reply", "ambiguous", "finish", "attested"}
    <3>1. ASSUME NEW a \in {"reply", "ambiguous"}, Go(c, a)
          PROVE  \E q : /\ thread' = [thread EXCEPT ![c] = q]
                        /\ q.op = thread[c].op /\ q.lease = thread[c].lease /\ q.at = a
      <4>1. PICK q : q = [thread[c] EXCEPT !.at = a]
        OBVIOUS
      <4>2. q.op = thread[c].op /\ q.lease = thread[c].lease /\ q.at = a
        BY <1>1, <4>1 DEF Thread
      <4>3. thread' = [thread EXCEPT ![c] = q]
        BY <3>1, <4>1 DEF Go
      <4>. QED  BY <4>2, <4>3
    <3>2. ASSUME NEW a \in {"attested", "finish"}, NEW code,
                 thread' = [thread EXCEPT ![c].at = a, ![c].code = code]
          PROVE  \E q : /\ thread' = [thread EXCEPT ![c] = q]
                        /\ q.op = thread[c].op /\ q.lease = thread[c].lease /\ q.at = a
      <4>1. PICK q : q = [thread[c] EXCEPT !.at = a, !.code = code]
        OBVIOUS
      <4>2. q.op = thread[c].op /\ q.lease = thread[c].lease /\ q.at = a
        BY <1>1, <4>1 DEF Thread
      <4>3. thread' = [thread EXCEPT ![c] = q]
        BY <3>2, <4>1
      <4>. QED  BY <4>2, <4>3
    <3>3. CASE Send(c)
      BY <1>4, <3>1, <3>3 DEF Send, Unanswered
    <3>4. CASE Receive(c) /\ Unanswered(c)
      BY <1>4, <3>1, <3>4 DEF Unanswered
    <3>5. CASE Receive(c) /\ ~Unanswered(c)
      <4>1. \E a \in {"attested", "finish"} : \E code :
               thread' = [thread EXCEPT ![c].at = a, ![c].code = code]
        BY <1>1, <3>5 DEF Receive, ThreadType
      <4>. QED  BY <3>2, <4>1
    <3>. QED  BY <3>3, <3>4, <3>5
  <2>3. AllFollow
    BY <1>1, <2>1, <2>2, MainApart DEF AllFollow, Follows, ThreadType, IssuedStages, UnlentStages,
       PendingStages
  <2>. QED  BY <1>2, <2>3, LoanQuiet
<1>. QED  BY <1>3, <1>4

\* A borrow begins behind the marker and without a holder.
LEMMA BeginLoan ==
    ASSUME DaemonInv, LoanInv, Next, NEW c \in Clients, begin_provider_borrow(c)
    PROVE  LoanInv'
<1>1. ThreadType /\ c \in Threads /\ thread[c] \in Thread /\ SharedType
  BY RecordFacts, MainApart DEF DaemonInv
<1>2. Live /\ lease = NoLease /\ holders' = holders /\ daemon = "up"
  BY DEF begin_provider_borrow, Admitted, At, Live, peer
<1>3. holders = {}
  BY <1>2, NothingLent, MainApart
<1>4. CASE Fault(c, "idle") /\ UNCHANGED loan
  BY <1>1, <1>2, <1>4, UsualTurns, TurnsFollow, LoanQuiet DEF loan
<1>5. CASE /\ arm_lifecycle
           /\ thread' = [thread EXCEPT ![c].at = "ready", ![c].op = "borrow",
                                       ![c].lease = nextLease]
  <2>1. marker' = "whole"
    BY <1>5 DEF arm_lifecycle
  <2>2. thread'[c].at = "ready" /\ \A d \in Clients : d # c => thread'[d] = thread[d]
    BY <1>1, <1>5, MainApart DEF ThreadType, Thread
  <2>3. ASSUME NEW d \in Clients, thread'[d].op = "borrow" PROVE LoanOk(d, thread[d])'
    <3>1. CASE d = c
      BY <1>2, <1>3, <2>2, <3>1 DEF LoanOk, IssuedStages
    <3>2. CASE d # c
      <4>1. thread[d].at \notin IssuedStages
        <5>1. thread[d].lease # 0
          BY <2>2, <2>3, <3>2, BorrowerFacts
        <5>. QED  BY <1>2, <2>2, <2>3, <3>2, <5>1, MainApart DEF LoanInv, LoanOk
      <4>. QED  BY <1>2, <1>3, <2>2, <3>2, <4>1 DEF LoanOk, IssuedStages
    <3>. QED  BY <3>1, <3>2
  <2>. QED  BY <2>1, <2>3 DEF LoanInv, LoanOk, LeaseMarked
<1>. QED  BY <1>4, <1>5 DEF begin_provider_borrow

\* Before the command: the lease is issued, or left.
LEMMA ReadyLoan ==
    ASSUME DaemonInv, LoanInv, Next, NEW c \in Clients,
           \/ provider_borrow_dispatch_ready(c) \/ cancel_pending_lease(c)
           \/ mark_lease_potentially_issued(c)
    PROVE  LoanInv'
<1>1. ThreadType /\ c \in Threads /\ thread[c] \in Thread /\ SharedType
  BY RecordFacts, MainApart DEF DaemonInv
<1>2. thread[c].at \in PendingStages /\ thread[c].op = "borrow" /\ holders' = holders
  <2>1. thread[c].at \in {"ready", "cancel", "issue"}
    BY DEF provider_borrow_dispatch_ready, cancel_pending_lease, mark_lease_potentially_issued, At
  <2>. QED  BY <2>1, BorrowerFacts DEF provider_borrow_dispatch_ready, cancel_pending_lease,
            mark_lease_potentially_issued, PendingStages, peer
<1>3. ASSUME Done(c) \/ \E l, then : Revoke(c, l, then), lease' = lease \/ Mine(c) PROVE LoanInv'
  <2>1. Turns(c)
    BY <1>1, <1>3, UsualTurns
  <2>2. CASE lease' = lease
    BY <1>1, <1>2, <2>1, <2>2, TurnsFollow, LoanQuiet
  <2>3. CASE Mine(c)
    <3>1. ~UNCHANGED thread
      <4>1. thread'[c].at \in {"idle", "revoke"}
        BY <1>1, <1>3, UsualStages
      <4>. QED  BY <1>2, <4>1 DEF PendingStages
    <3>. QED  BY <1>2, <2>1, <2>3, <3>1, BorrowerLeaves
  <2>. QED  BY <1>3, <2>2, <2>3
<1>4. ASSUME NEW a \in {"cancel", "issue"}, Go(c, a), lease' = lease PROVE LoanInv'
  <2>1. PICK q : q = [thread[c] EXCEPT !.at = a]
    OBVIOUS
  <2>2. thread' = [thread EXCEPT ![c] = q]
    BY <1>4, <2>1 DEF Go
  <2>4. q.op = "borrow" /\ q.at = a
    BY <1>1, <1>2, <2>1 DEF Thread
  <2>3. AllFollow
    BY <1>1, <1>2, <2>2, <2>4, MainApart DEF AllFollow, Follows, ThreadType, IssuedStages,
       UnlentStages, PendingStages
  <2>. QED  BY <1>2, <1>4, <2>3, LoanQuiet
<1>5. CASE /\ Mine(c) /\ lease' = [lease EXCEPT !.state = "issued", !.final = FALSE]
           /\ Go(c, "send")
  <2>1. LeaseMarked'
    BY <1>2, <1>5, BorrowerFacts, MarkedStep
  <2>2. lease'.id = lease.id /\ ~lease'.final
    BY <1>2, <1>5, BorrowerFacts DEF BorrowLease
  <2>3. /\ thread'[c].at = "send" /\ thread'[c].lease = thread[c].lease
        /\ \A d \in Clients : d # c => thread'[d] = thread[d]
    BY <1>1, <1>5, MainApart DEF Go, ThreadType, Thread
  <2>4. ASSUME NEW d \in Clients, thread'[d].op = "borrow" PROVE LoanOk(d, thread[d])'
    <3>1. CASE d = c
      <4>1. c \notin holders'
        BY <1>2 DEF LoanInv, LoanOk, UnlentStages
      <4>. QED  BY <1>5, <2>2, <2>3, <3>1, <4>1 DEF LoanOk, Mine
    <3>2. CASE d # c
      <4>1. thread[d].at \notin IssuedStages
        BY <1>2, <1>5, <2>3, <2>4, <3>2, OneBorrow
      <4>. QED  BY <1>2, <2>3, <2>4, <3>2, <4>1 DEF LoanInv, LoanOk, IssuedStages
    <3>. QED  BY <3>1, <3>2
  <2>. QED  BY <2>1, <2>4 DEF LoanInv, LoanOk
<1>6. CASE provider_borrow_dispatch_ready(c)
  BY <1>3, <1>4, <1>6 DEF provider_borrow_dispatch_ready
<1>7. CASE cancel_pending_lease(c)
  BY <1>3, <1>7 DEF cancel_pending_lease
<1>8. CASE mark_lease_potentially_issued(c)
  BY <1>3, <1>5, <1>8 DEF mark_lease_potentially_issued
<1>. QED  BY <1>6, <1>7, <1>8

\* The mount: the borrower is a holder of the lease that is in the registry.
LEMMA MountLoan ==
    ASSUME DaemonInv, LoanInv, Next, NEW c \in Clients, MountCodexHome(c)
    PROVE  LoanInv'
<1>1. /\ ThreadType /\ c \in Threads /\ thread[c] \in Thread
      /\ thread[c].op = "borrow" /\ thread[c].at = "finish" /\ thread[c].code = "ok"
      /\ holders' \subseteq holders \cup {c} /\ lease' = lease
  BY RecordFacts, MainApart DEF DaemonInv, MountCodexHome, At, loan
<1>2. lease.id = thread[c].lease /\ ~lease.final
  BY <1>1 DEF LoanInv, LoanOk, IssuedStages
<1>3. PICK r \in Thread : /\ thread' = [thread EXCEPT ![c] = r]
                          /\ r.at = "mount" /\ SameBut(thread[c], r)
  BY <1>1, GoRecord DEF MountCodexHome, Stages, BorrowStages, IssuedStages
<1>4. thread'[c] = r /\ \A d \in Clients : d # c => thread'[d] = thread[d]
  BY <1>1, <1>3, MovedThreads, MainApart
<1>5. LeaseMarked'
  BY <1>1, MarkedStep
<1>6. ASSUME NEW d \in Clients, thread'[d].op = "borrow" PROVE LoanOk(d, thread[d])'
  <2>1. CASE d = c
    BY <1>1, <1>2, <1>3, <1>4, <2>1 DEF LoanOk, SameBut, UnlentStages, PendingStages
  <2>2. CASE d # c
    BY <1>1, <1>4, <1>6, <2>2 DEF LoanInv, LoanOk
  <2>. QED  BY <2>1, <2>2
<1>. QED  BY <1>5, <1>6 DEF LoanInv, LoanOk

\* The end of the borrow: what is delivered was not released, what is left is not lent again.
LEMMA FinishLoan ==
    ASSUME DaemonInv, LoanInv, Next, NEW c \in Clients,
           FinishBorrow(c) \/ fail_ambiguous_borrow(c)
    PROVE  LoanInv'
<1>1. /\ ThreadType /\ c \in Threads /\ thread[c] \in Thread /\ thread[c].op = "borrow"
      /\ thread[c].at \in {"finish", "mount", "ambiguous"} /\ holders' = holders
  <2>1. thread[c].at \in {"finish", "mount", "ambiguous"} /\ holders' = holders
    BY DEF FinishBorrow, fail_ambiguous_borrow, At, peer
  <2>2. thread[c].op = "borrow"
    BY BorrowerFacts DEF FinishBorrow, fail_ambiguous_borrow, At
  <2>. QED  BY <2>1, <2>2, RecordFacts, MainApart DEF DaemonInv
<1>2. Mine(c)
  BY <1>1 DEF LoanInv, LoanOk, IssuedStages, Mine
<1>3. ASSUME NEW a \in {"ambiguous", "deliver"}, Go(c, a), lease' = lease PROVE LoanInv'
  <2>1. PICK r \in Thread : /\ thread' = [thread EXCEPT ![c] = r]
                            /\ r.at = a /\ SameBut(thread[c], r)
    BY <1>1, <1>3, GoRecord DEF Stages, BorrowStages, IssuedStages
  <2>2. thread'[c] = r /\ \A d \in Clients : d # c => thread'[d] = thread[d]
    BY <1>1, <2>1, MovedThreads, MainApart
  <2>3. AllFollow
    BY <1>1, <2>1, <2>2 DEF AllFollow, Follows, SameBut, IssuedStages, UnlentStages, PendingStages
  <2>. QED  BY <1>1, <1>3, <2>3, LoanQuiet
<1>4. ASSUME Turns(c), thread'[c].at \in {"idle", "fault", "revoke"} PROVE LoanInv'
  BY <1>1, <1>2, <1>4, BorrowerLeaves
<1>5. ASSUME Done(c) \/ Fault(c, "idle") \/ \E l, then : Revoke(c, l, then) PROVE LoanInv'
  <2>1. thread'[c].at \in {"idle", "fault", "revoke"}
    BY <1>1, <1>5, UsualStages
  <2>. QED  BY <1>1, <1>4, <1>5, <2>1, UsualTurns
<1>6. CASE FinishBorrow(c)
  BY <1>3, <1>5, <1>6 DEF FinishBorrow
<1>7. CASE fail_ambiguous_borrow(c)
  BY <1>5, <1>7 DEF fail_ambiguous_borrow
<1>. QED  BY <1>6, <1>7

\* The delivery, and the end of a lease that was delivered.
LEMMA DeliverLoan ==
    ASSUME DaemonInv, LoanInv, Next, NEW c \in Clients, send_provider_descriptor(c)
    PROVE  LoanInv'
<1>1. /\ ThreadType /\ c \in Threads /\ thread[c] \in Thread /\ thread[c].op = "borrow"
      /\ thread[c].at = "deliver" /\ holders' \subseteq holders \cup {c}
  BY BorrowerFacts, MainApart DEF DaemonInv, send_provider_descriptor, At
<1>2. Mine(c)
  BY <1>1 DEF LoanInv, LoanOk, IssuedStages, Mine
<1>3. \/ Done(c) \/ Fault(c, "idle") \/ Go(c, "monitor")
      \/ thread' = [thread EXCEPT ![c].at = "kill", ![c].then = "idle"]
  BY DEF send_provider_descriptor
<1>4. Turns(c)
  <2>1. CASE thread' = [thread EXCEPT ![c].at = "kill", ![c].then = "idle"]
    <3>1. PICK q : q = [thread[c] EXCEPT !.at = "kill", !.then = "idle"]
      OBVIOUS
    <3>2. q.at = "kill"
      BY <1>1, <3>1 DEF Thread
    <3>3. thread' = [thread EXCEPT ![c] = q]
      BY <2>1, <3>1
    <3>. QED  BY <3>2, <3>3 DEF Turns, IssuedStages, UnlentStages, PendingStages
  <2>. QED  BY <1>1, <1>3, <2>1, UsualTurns DEF IssuedStages, UnlentStages, PendingStages
<1>5. ~UNCHANGED thread
  <2>1. thread'[c].at \in {"idle", "fault", "monitor", "kill"}
    <3>1. thread' = [thread EXCEPT ![c].at = "kill", ![c].then = "idle"] => thread'[c].at = "kill"
      BY <1>1 DEF ThreadType, Thread
    <3>. QED  BY <1>1, <1>3, <3>1, UsualStages
  <2>. QED  BY <1>1, <2>1
<1>. QED  BY <1>1, <1>2, <1>4, <1>5, LoanEnds DEF Turns

\* A lease ends only on the evidence, which no thread on the way to a credential allows.
LEMMA ReleasedLoan ==
    ASSUME DaemonInv, LoanInv, Next, AllFollow, holders' \subseteq holders,
           lease.final, lease' = NoLease
    PROVE  LoanInv'
<1>1. ASSUME NEW c \in Clients, thread'[c].op = "borrow", thread'[c].at \in IssuedStages
      PROVE  FALSE
  BY <1>1 DEF AllFollow, Follows, LoanInv, LoanOk
<1>. QED  BY <1>1, MarkedStep, LoanKept

\* The watch over a delivered lease.
LEMMA WatchLoan ==
    ASSUME DaemonInv, LoanInv, Next, NEW c \in Clients, complete_normal_lease(c)
    PROVE  LoanInv'
<1>1. ThreadType /\ c \in Threads /\ holders' = holders
  BY MainApart DEF DaemonInv, complete_normal_lease, peer
<1>2. AllFollow
  BY <1>1, UsualTurns, TurnsFollow DEF complete_normal_lease
<1>3. CASE lease' = lease
  BY <1>1, <1>2, <1>3, LoanQuiet
<1>4. CASE lease' = NoLease /\ Evidence(thread[c].lease) /\ Mine(c)
  BY <1>1, <1>2, <1>4, ReleasedLoan DEF Evidence, Mine
<1>. QED  BY <1>3, <1>4 DEF complete_normal_lease

\* Where a revocation continues there is no credential on the way.
LEMMA RevocationTurns ==
    ASSUME DaemonInv, NEW t \in Threads, thread[t].at \in Revoking,
           Resume(t) \/ RevocationFailed(t)
    PROVE  AllFollow
<1>1. /\ thread[t] \in Thread /\ ThreadType
      /\ thread[t].op # "borrow" \/ thread[t].then \in {"idle", "fault"}
      /\ t = Main \/ t # Main
  BY RevokerFacts
<1>2. CASE Resume(t) /\ thread[t].then \notin {"idle", "fault"}
  <2>1. PICK q : q = [thread[t] EXCEPT !.at = thread[t].then, !.then = "none", !.lease = 0]
    OBVIOUS
  <2>2. q.op # "borrow"
    BY <1>1, <1>2, <2>1 DEF Thread
  <2>3. thread' = [thread EXCEPT ![t] = q]
    BY <1>2, <2>1 DEF Resume
  <2>. QED  BY <1>1, <2>2, <2>3, TurnsFollow DEF Turns
<1>3. CASE Resume(t) /\ thread[t].then \in {"idle", "fault"}
  BY <1>1, <1>3, UsualTurns, TurnsFollow DEF Resume
<1>4. CASE RevocationFailed(t) /\ thread[t].then = "worker"
  <2>1. PICK q : q = [thread[t] EXCEPT !.at = "worker", !.then = "none", !.lease = 0,
                                       !.sound = FALSE, !.code = "none"]
    OBVIOUS
  <2>2. q.op # "borrow"
    BY <1>1, <1>4, <2>1 DEF Thread
  <2>3. thread' = [thread EXCEPT ![t] = q]
    BY <1>4, <2>1 DEF RevocationFailed
  <2>. QED  BY <1>1, <2>2, <2>3, TurnsFollow DEF Turns
<1>5. CASE RevocationFailed(t) /\ thread[t].then # "worker" /\ t = Main
  BY <1>1, <1>5, MainFollows DEF RevocationFailed
<1>6. CASE RevocationFailed(t) /\ thread[t].then # "worker" /\ t # Main
  BY <1>1, <1>6, UsualTurns, TurnsFollow DEF RevocationFailed
<1>. QED  BY <1>1, <1>2, <1>3, <1>4, <1>5, <1>6

\* Revocations and fault procedures, of any thread.
LEMMA ProcedureLoan ==
    ASSUME DaemonInv, LoanInv, Next, NEW t \in Threads, Procedures(t)
    PROVE  LoanInv'
<1>1. ThreadType /\ thread[t] \in Thread /\ StageOk(thread[t])
  BY RecordFacts DEF RecordOk
<1>2. CASE revoke_provider_lease(t)
  <2>1. holders' = holders /\ thread[t].at \in Revoking
    BY <1>2 DEF revoke_provider_lease, At, peer, Revoking
  <2>2. AllFollow
    BY <1>1, <1>2, <2>1, UsualTurns, TurnsFollow, RevocationTurns
       DEF revoke_provider_lease, IssuedStages, UnlentStages, PendingStages
  <2>3. lease' = lease \/ (lease # NoLease /\ lease' = [lease EXCEPT !.state = "revoking"])
    BY <1>2, <2>1, RevokerFacts DEF revoke_provider_lease
  <2>. QED  BY <2>1, <2>2, <2>3, LoanQuiet
<1>3. CASE KillBorrower(t)
  <2>1. holders' \subseteq holders /\ lease' = lease
    BY <1>3 DEF KillBorrower, loan
  <2>2. CASE Go(t, "await")
    BY <1>1, <2>1, <2>2, UsualTurns, TurnsFollow, LoanQuiet
       DEF IssuedStages, UnlentStages, PendingStages
  <2>3. CASE thread' = [thread EXCEPT ![t].at = "await", ![t].code = "unkilled"]
    <3>1. PICK q : q = [thread[t] EXCEPT !.at = "await", !.code = "unkilled"]
      OBVIOUS
    <3>2. q.at = "await"
      BY <1>1, <3>1 DEF Thread
    <3>3. thread' = [thread EXCEPT ![t] = q]
      BY <2>3, <3>1
    <3>4. Turns(t)
      BY <3>2, <3>3 DEF Turns, IssuedStages, UnlentStages, PendingStages
    <3>. QED  BY <1>1, <2>1, <3>4, TurnsFollow, LoanQuiet
  <2>. QED  BY <1>3, <2>2, <2>3 DEF KillBorrower
<1>4. CASE AwaitEvidence(t)
  <2>1. holders' = holders /\ thread[t].at \in Revoking
    BY <1>4 DEF AwaitEvidence, At, peer, Revoking
  <2>2. AllFollow
    BY <1>4, <2>1, RevocationTurns DEF AwaitEvidence
  <2>3. CASE lease' = lease
    BY <2>1, <2>2, <2>3, LoanQuiet
  <2>4. CASE lease' = NoLease /\ Evidence(thread[t].lease) /\ lease.id = thread[t].lease
    BY <2>1, <2>2, <2>4, ReleasedLoan DEF Evidence
  <2>. QED  BY <1>4, <2>3, <2>4 DEF AwaitEvidence
<1>5. CASE mark_fault_by(t)
  <2>1. holders' = holders /\ lease' = lease /\ thread[t].at = "fault"
    BY <1>5 DEF mark_fault_by, At, peer, loan
  <2>2. thread[t].op # "borrow"
    BY <1>1, <2>1 DEF StageOk, BorrowStages, PendingStages, IssuedStages, Revoking
  <2>3. PICK a : a = IF lease = NoLease THEN "worker" ELSE "revoke"
    OBVIOUS
  <2>4. \E q : thread' = [thread EXCEPT ![t] = q] /\ q.op = thread[t].op
    <3>1. CASE thread' = [thread EXCEPT ![t].at = a, ![t].lease = lease.id, ![t].then = "worker"]
      <4>1. PICK q : q = [thread[t] EXCEPT !.at = a, !.lease = lease.id, !.then = "worker"]
        OBVIOUS
      <4>2. q.op = thread[t].op
        BY <1>1, <4>1 DEF Thread
      <4>3. thread' = [thread EXCEPT ![t] = q]
        BY <3>1, <4>1
      <4>. QED  BY <4>2, <4>3
    <3>2. CASE thread' = [thread EXCEPT ![t].unmarked = TRUE, ![t].at = a, ![t].lease = lease.id,
                                        ![t].then = "worker"]
      <4>1. PICK q : q = [thread[t] EXCEPT !.unmarked = TRUE, !.at = a, !.lease = lease.id,
                                           !.then = "worker"]
        OBVIOUS
      <4>2. q.op = thread[t].op
        BY <1>1, <4>1 DEF Thread
      <4>3. thread' = [thread EXCEPT ![t] = q]
        BY <3>2, <4>1
      <4>. QED  BY <4>2, <4>3
    <3>. QED  BY <1>5, <2>3, <3>1, <3>2 DEF mark_fault_by
  <2>5. AllFollow
    BY <1>1, <2>2, <2>4, TurnsFollow DEF Turns
  <2>. QED  BY <2>1, <2>5, LoanQuiet
<1>6. CASE fault_and_terminate(t)
  <2>1. holders' = holders /\ lease' = lease /\ thread[t].at = "worker"
    BY <1>6 DEF fault_and_terminate, At, peer, loan
  <2>2. CASE Go(t, "contain")
    BY <1>1, <2>1, <2>2, UsualTurns, TurnsFollow, LoanQuiet
       DEF IssuedStages, UnlentStages, PendingStages
  <2>3. CASE thread' = [thread EXCEPT ![t].at = "contain", ![t].sound = FALSE]
    <3>1. PICK q : q = [thread[t] EXCEPT !.at = "contain", !.sound = FALSE]
      OBVIOUS
    <3>2. q.at = "contain"
      BY <1>1, <3>1 DEF Thread
    <3>3. thread' = [thread EXCEPT ![t] = q]
      BY <2>3, <3>1
    <3>4. Turns(t)
      BY <3>2, <3>3 DEF Turns, IssuedStages, UnlentStages, PendingStages
    <3>. QED  BY <1>1, <2>1, <3>4, TurnsFollow, LoanQuiet
  <2>. QED  BY <1>6, <2>2, <2>3 DEF fault_and_terminate
<1>7. CASE Contain(t)
  <2>1. holders' = holders /\ lease' = lease
    BY <1>7 DEF Contain, peer, loan
  <2>2. CASE Done(t)
    BY <1>1, <2>1, <2>2, UsualTurns, TurnsFollow, LoanQuiet
  <2>3. CASE thread' = [thread EXCEPT ![t] = [Idle EXCEPT !.at = thread[t].back, !.sound = FALSE]]
    <3>1. [Idle EXCEPT !.at = thread[t].back, !.sound = FALSE].op = "none"
      BY DEF Idle
    <3>2. Turns(t)
      BY <2>3, <3>1 DEF Turns
    <3>. QED  BY <1>1, <2>1, <3>2, TurnsFollow, LoanQuiet
  <2>. QED  BY <1>7, <2>2, <2>3 DEF Contain
<1>. QED  BY <1>2, <1>3, <1>4, <1>5, <1>6, <1>7 DEF Procedures

\* The main thread goes on, or the daemon ends and every thread with it.
LEMMA MainLoan ==
    ASSUME DaemonInv, LoanInv, Next, MainThread \/ Killed
    PROVE  LoanInv'
<1>1. ThreadType /\ Main \in Threads /\ thread[Main] \in Thread
  BY RecordFacts, MainApart
<1>2. ASSUME NEW how, Ends(how) PROVE LoanInv'
  <2>1. lease' = NoLease /\ \A c \in Clients : thread'[c].op = "none"
    BY <1>2, IdleFields, MainApart DEF Ends
  <2>. QED  BY <2>1 DEF LoanInv, LoanOk, LeaseMarked
<1>3. ASSUME \E q : thread' = [thread EXCEPT ![Main] = q], UNCHANGED <<loan, peer>> PROVE LoanInv'
  <2>1. lease' = lease /\ holders' = holders
    BY <1>3 DEF loan, peer
  <2>. QED  BY <1>1, <1>3, <2>1, MainFollows, LoanQuiet
<1>4. CASE sweep_expired_lease
  <2>1. PICK q : q = [thread[Main] EXCEPT !.at = "revoke", !.lease = lease.id, !.then = "serve"]
    OBVIOUS
  <2>. QED  BY <1>3, <1>4, <2>1 DEF sweep_expired_lease, Revoke
<1>5. CASE serve_connections
  BY <1>3, <1>5 DEF serve_connections, LeaveLoop
<1>6. CASE DrainHandlers
  <2>1. PICK q : q = [thread[Main] EXCEPT !.at = "join"]
    OBVIOUS
  <2>. QED  BY <1>3, <1>6, <2>1 DEF DrainHandlers, Go, Fault
<1>7. CASE JoinHandlers
  <2>1. PICK q : q = [thread[Main] EXCEPT !.at = IF thread[Main].sound THEN "shutdown" ELSE "leave"]
    OBVIOUS
  <2>2. PICK r : r = [thread[Main] EXCEPT !.at = "leave", !.sound = FALSE]
    OBVIOUS
  <2>. QED  BY <1>3, <1>7, <2>1, <2>2 DEF JoinHandlers, Go
<1>8. CASE LeaveWithError \/ Exit \/ shutdown \/ ShutdownFails \/ Killed
  BY <1>2, <1>3, <1>8 DEF LeaveWithError, Exit, shutdown, ShutdownFails, Killed, Fault
<1>. QED  BY <1>4, <1>5, <1>6, <1>7, <1>8 DEF MainThread

\* The worker, the signals, the peers and the start of the daemon.
LEMMA EnvironmentLoan ==
    ASSUME DaemonInv, LoanInv, Next, Environment
    PROVE  LoanInv'
<1>1. ThreadType /\ Main \in Threads /\ thread[Main] \in Thread
  BY RecordFacts, MainApart
<1>2. CASE Start
  <2>1. lease' = lease /\ holders' = holders
    BY <1>2 DEF Start, loan, peer
  <2>2. \E q : thread' = [thread EXCEPT ![Main] = q]
    <3>1. PICK q : q = [thread[Main] EXCEPT !.at = "serve"]
      OBVIOUS
    <3>. QED  BY <1>2, <3>1 DEF Start, Fault
  <2>. QED  BY <1>1, <2>1, <2>2, MainFollows, LoanQuiet
<1>3. CASE \/ handle_command \/ WorkerDies \/ StopSignal
           \/ \E c \in Clients : ClientExits(c) \/ ClientReturns(c)
  <2>1. lease' = lease /\ holders' \subseteq holders /\ thread' = thread
    BY <1>3 DEF handle_command, WorkerDies, StopSignal, ClientExits, ClientReturns, loan, peer
  <2>2. AllFollow
    BY <1>1, <2>1, TurnsFollow DEF Turns
  <2>. QED  BY <2>1, <2>2, LoanQuiet
<1>. QED  BY <1>2, <1>3, MainLoan, OperationLoan DEF Environment

\* Every step keeps it.
LEMMA LoanStep ==
    DaemonInv /\ LoanInv /\ [Next]_vars => LoanInv'
<1>. SUFFICES ASSUME DaemonInv, LoanInv, [Next]_vars PROVE LoanInv'
  OBVIOUS
<1>1. ASSUME Next, NEW c \in Clients, Handler(c) PROVE LoanInv'
  BY <1>1, OperationLoan, ChannelLoan, BeginLoan, ReadyLoan, MountLoan, FinishLoan, DeliverLoan,
     WatchLoan DEF Handler, Request
<1>2. CASE UNCHANGED vars
  BY <1>2 DEF vars, LoanInv, LoanOk, LeaseMarked
<1>. QED  BY <1>1, <1>2, MainLoan, ProcedureLoan, EnvironmentLoan DEF Next

\* The invariant of the daemon, over starts, kills, faults and restarts: who has the
\* service state, what the channel holds, what the lease, the marker and the mapping are.
THEOREM SupervisorInvariant ==
    Spec => []DaemonInv
<1>1. Init => LoanInv
  BY IdleFields, MainApart DEF Init, LoanInv, LoanOk, LeaseMarked
<1>2. Spec => [](DaemonInv /\ LoanInv)
  BY <1>1, InitInv, NextInv, LoanStep, PTL DEF Spec
<1>. QED  BY <1>2, PTL

\* As long as the Vault is decrypted or a credential is lent the marker is on the disk,
\* whichever process dies and whichever thread goes first.
THEOREM DecryptedIsMarked ==
    Spec => []OpenIsMarked
<1>1. DaemonInv => OpenIsMarked
  BY DEF DaemonInv
<1>. QED  BY <1>1, SupervisorInvariant, PTL

\* A daemon that says "locked" has nothing decrypted, no lease and no borrower.
THEOREM LockedMeansClosed ==
    Spec => []LockedIsClosed
<1>1. DaemonInv => LockedIsClosed
  <2>. SUFFICES ASSUME DaemonInv, daemon = "up", svc.vault = "locked"
                PROVE  mapping = "closed" /\ lease = NoLease /\ holders = {}
    BY DEF LockedIsClosed
  <2>1. Live
    BY DEF DaemonInv, SharedType, Live
  <2>2. mapping = "closed" /\ lease = NoLease
    BY <2>1 DEF DaemonInv, LeaseKept
  <2>. QED  BY <2>1, <2>2, NothingLent, MainApart
<1>. QED  BY <1>1, SupervisorInvariant, PTL

\* Without a fault, whoever holds a credential holds it under the registered lease, in a
\* state from which the daemon still revokes it.
THEOREM CredentialsAreLeased ==
    Spec => []CredentialLeased
<1>1. DaemonInv => CredentialLeased
  BY DEF DaemonInv
<1>. QED  BY <1>1, SupervisorInvariant, PTL

\* A fault that no thread is still handling has left no worker, no lease and the marker,
\* or the daemon is stopping.
THEOREM FaultsAreContained ==
    Spec => []FaultContained
<1>1. DaemonInv => FaultContained
  BY DEF DaemonInv, Contained, FaultContained, InFault, Revoking
<1>. QED  BY <1>1, SupervisorInvariant, PTL

\* A fault stays until the reboot: no step removes the marker while the daemon is down,
\* faulted or has a lease.
THEOREM MarkerStays ==
    Spec => MarkerOutlivesFault
<1>1. DaemonInv /\ [Next]_vars =>
        [marker # "none" /\ marker' = "none" =>
            daemon = "up" /\ ~svc.faulted /\ lease = NoLease]_vars
  BY MarkerStep
<1>. QED  BY <1>1, SupervisorInvariant, PTL DEF Spec, MarkerOutlivesFault

=============================================================================

-------------------------- MODULE VaultSupervisor --------------------------
(***************************************************************************)
(* The rescue Vault daemon (rescue_daemon/server.rs and runtime.rs): a     *)
(* supervisor with one thread per accepted connection and a main loop, a   *)
(* worker process that opens and closes the encrypted Vault, a marker      *)
(* file that outlives both, and one credential lease at a time.            *)
(*                                                                         *)
(* Every block of the code that runs under the `lifecycle` mutex is one    *)
(* step.  What another process may do inside such a block (a stop signal,  *)
(* an exit of the client) is part of the step.  Timeouts may fire whenever *)
(* the awaited event has not happened.  Versions and rate limits only add  *)
(* refusals, so they are Refuse.  A reboot, which clears /run and closes   *)
(* the mapping, ends the behaviours modelled here.                         *)
(***************************************************************************)
EXTENDS Integers, Sequences, FiniteSets

CONSTANTS
    Clients,     \* peers, each with at most one connection at a time
    Main,        \* the thread of serve_connections and run
    MaxFaults,   \* bound: failures of the disk, the kernel or the worker
    MaxLeases    \* bound: credential leases

ASSUME SupervisorAssumption ==
    /\ Main \notin Clients
    /\ IsFiniteSet(Clients)
    /\ MaxFaults \in Nat
    /\ MaxLeases \in Nat

VARIABLES
    daemon,     \* "up", or how the last process ended: "ok" "error" "killed"
    svc,        \* ServiceState of the supervisor
    stopping,   \* StopControl.requested
    marker,     \* /run/.../lifecycle-active-v1: "none" "partial" "whole"
    armed,      \* DaemonRuntime.marker_armed
    worker,     \* the worker process and the supervisor's handle of it
    inbox,      \* commands the worker has not handled
    replies,    \* responses nobody has received
    mapping,    \* the decrypted device: "closed" "open"
    lease,      \* LeaseRegistry.active
    nextLease,  \* LeaseRegistry.next_id
    client,     \* the peer's processes: "live" "orphans" "gone"
    holders,    \* clients one of whose processes holds a credential, or may
    thread,     \* where each thread of the daemon is
    faults      \* failures so far

vars == <<daemon, svc, stopping, marker, armed, worker, inbox, replies, mapping,
          lease, nextLease, client, holders, thread, faults>>

disk == <<marker, armed>>
wire == <<worker, inbox, replies, mapping>>
loan == <<lease, nextLease>>
peer == <<client, holders>>

Threads == Clients \union {Main}

NoLease == [id |-> 0, client |-> Main, state |-> "none", final |-> TRUE]

\* at: the block the thread runs next; op: the operation it serves; code: the
\* worker's answer; lease: the lease it handles; then: where a revocation
\* continues; back: where a fault procedure continues; sound: what this
\* procedure stopped so far was stopped; unmarked: its marker is not written.
Idle == [at |-> "idle", op |-> "none", code |-> "none", lease |-> 0,
         then |-> "none", back |-> "idle", sound |-> TRUE, unmarked |-> FALSE]

Serving(v) == [vault |-> v, origin |-> FALSE, busy |-> FALSE,
               faulted |-> v = "faulted", required |-> v = "faulted", clean |-> FALSE]

NoWorker == [up |-> FALSE, terminal |-> FALSE, held |-> FALSE]

Init ==
    /\ daemon = "killed"
    /\ svc = Serving("locked") /\ stopping = FALSE
    /\ marker = "none" /\ armed = FALSE
    /\ worker = NoWorker /\ inbox = <<>> /\ replies = <<>> /\ mapping = "closed"
    /\ lease = NoLease /\ nextLease = 1
    /\ client = [c \in Clients |-> "live"] /\ holders = {}
    /\ thread = [t \in Threads |-> Idle]
    /\ faults = 0

-----------------------------------------------------------------------------
(* Where a thread goes. *)

At(t, a) == daemon = "up" /\ thread[t].at = a
Go(t, a) == thread' = [thread EXCEPT ![t].at = a]
Done(t) == thread' = [thread EXCEPT ![t] = Idle]
Fault(t, back) == thread' = [thread EXCEPT ![t] = [Idle EXCEPT !.at = "fault", !.back = back]]

\* What the thread does once a revocation has released the lease, or once one has failed.
Revoke(t, l, then) ==
    thread' = [thread EXCEPT ![t].at = "revoke", ![t].lease = l, ![t].then = then]

Fails == faults < MaxFaults /\ faults' = faults + 1
Works == UNCHANGED faults

\* The process of the daemon is gone: its threads, its registry, and by
\* PR_SET_PDEATHSIG its worker.  The marker, the mapping and the clients stay.
Ends(how) ==
    /\ daemon' = how
    /\ svc' = Serving("locked") /\ stopping' = FALSE /\ armed' = FALSE
    /\ worker' = NoWorker /\ inbox' = <<>> /\ replies' = <<>>
    /\ lease' = NoLease
    /\ thread' = [t \in Threads |-> Idle]

-----------------------------------------------------------------------------
(* The lifecycle marker (runtime.rs). *)

\* arm_lifecycle: creates the file, or verifies the one that is there.
arm_lifecycle ==
    /\ marker # "partial"
    /\ marker' = "whole" /\ armed' = TRUE
    /\ Works

\* arm_lifecycle failed: a creation may have left no file, a short one or a whole one.
ArmFails ==
    /\ IF marker = "partial" THEN Works ELSE Fails
    /\ marker' \in IF marker = "none" THEN {"none", "partial", "whole"} ELSE {marker}
    /\ UNCHANGED armed

\* disarm_after_verified_locked.
disarm ==
    /\ IF armed THEN marker = "whole" ELSE marker = "none"
    /\ marker' = "none" /\ armed' = FALSE
    /\ Works

\* Its failure: the file was not as expected, was not removed, or was and the
\* directory was not synced.
DisarmFails ==
    /\ IF armed THEN marker # "whole" \/ faults < MaxFaults ELSE marker # "none"
    /\ IF armed /\ marker = "whole"
       THEN Fails /\ marker' \in {"whole", "none"}
       ELSE Works /\ UNCHANGED marker
    /\ UNCHANGED armed

Disarmed == ~armed /\ marker = "none"

-----------------------------------------------------------------------------
(* Starting the daemon (run, start_worker).  A stop or a missing cgroup during *)
(* the start ends it before anything has changed.                              *)

Start ==
    /\ daemon # "up"
    /\ UNCHANGED <<stopping, mapping, loan, peer, inbox, replies, marker>>
    /\ \/ \* A marker of any kind: only status is served and no worker is started.
          /\ marker # "none"
          /\ daemon' = "up" /\ armed' = TRUE /\ svc' = Serving("faulted")
          /\ thread' = [thread EXCEPT ![Main].at = "serve"]
          /\ UNCHANGED worker /\ Works
       \/ \* The worker's probe answers.
          /\ marker = "none"
          /\ daemon' = "up" /\ UNCHANGED armed
          /\ worker' = [NoWorker EXCEPT !.up = TRUE]
          /\ svc' = Serving(IF mapping = "closed" THEN "locked" ELSE "unavailable")
          /\ thread' = [thread EXCEPT ![Main].at = "serve"]
          /\ Works
       \/ \* The worker was not bootstrapped, or its probe failed: a fault, then the end.
          /\ marker = "none"
          /\ Fails
          /\ daemon' = "up" /\ UNCHANGED armed
          /\ worker' = [NoWorker EXCEPT !.up = TRUE, !.terminal = TRUE]
          /\ svc' = Serving("faulted")
          /\ Fault(Main, "shutdown")

-----------------------------------------------------------------------------
(* Connections and the begin_* decisions. *)

accept_connection(c) ==
    /\ At(Main, "serve") /\ ~stopping
    /\ At(c, "idle") /\ client[c] = "live"
    /\ Go(c, "accepted")
    /\ UNCHANGED <<daemon, svc, stopping, disk, wire, loan, peer, faults>>

\* The request does not arrive, is refused, or is a status that changes nothing.
Refuse(c) ==
    /\ At(c, "accepted")
    /\ Done(c)
    /\ UNCHANGED <<daemon, svc, stopping, disk, wire, loan, peer, faults>>

Admitted(c) == At(c, "accepted") /\ client[c] = "live" /\ ~svc.faulted /\ ~stopping
Free == ~svc.busy /\ ~svc.origin

\* A request that finds the fault repeats mark_fault_by.
FaultedRequest(c) ==
    /\ At(c, "accepted") /\ client[c] = "live" /\ svc.faulted
    /\ Fault(c, "idle")
    /\ UNCHANGED <<daemon, svc, stopping, disk, wire, loan, peer, faults>>

begin_unlock(c) ==
    /\ Admitted(c) /\ Free /\ svc.vault = "locked"
    /\ svc' = [svc EXCEPT !.vault = "unlocking", !.origin = TRUE]
    /\ thread' = [thread EXCEPT ![c].at = "gate", ![c].op = "unlock"]
    /\ UNCHANGED <<daemon, stopping, disk, wire, loan, peer, faults>>

\* Faulty variant: the lock begins over the lease and leaves it alone.
BeginLockKeepsLease(c) ==
    /\ Admitted(c) /\ Free /\ svc.vault = "unlocked"
    /\ svc' = [svc EXCEPT !.vault = "locking", !.origin = TRUE]
    /\ thread' = [thread EXCEPT ![c].at = "arm", ![c].op = "lock"]
    /\ UNCHANGED <<daemon, stopping, disk, wire, loan, peer, faults>>

\* A lock may begin over a lease: it is marked for revocation in the same decision.
begin_lock(c) ==
    /\ Admitted(c) /\ Free /\ svc.vault = "unlocked"
    /\ svc' = [svc EXCEPT !.vault = "locking", !.origin = TRUE]
    /\ IF lease = NoLease
       THEN /\ thread' = [thread EXCEPT ![c].at = "arm", ![c].op = "lock"]
            /\ UNCHANGED lease
       ELSE /\ lease' = [lease EXCEPT !.state = "revoking"]
            /\ thread' = [thread EXCEPT ![c].at = "revoke", ![c].op = "lock",
                                        ![c].lease = lease.id, ![c].then = "arm"]
    /\ UNCHANGED <<daemon, stopping, disk, wire, nextLease, peer, faults>>

\* Provider, application, fleet and repair requests: "mutate" or "read".
begin_provider_operation(c, op) ==
    /\ Admitted(c) /\ Free /\ svc.vault = "unlocked" /\ lease = NoLease
    /\ svc' = [svc EXCEPT !.busy = TRUE, !.origin = (op = "mutate")]
    /\ thread' = [thread EXCEPT ![c].at = "arm", ![c].op = op]
    /\ UNCHANGED <<daemon, stopping, disk, wire, loan, peer, faults>>

\* The marker is armed before the lease is pending.
begin_provider_borrow(c) ==
    /\ Admitted(c) /\ Free /\ svc.vault = "unlocked" /\ lease = NoLease
    /\ nextLease <= MaxLeases
    /\ \/ /\ arm_lifecycle
          /\ lease' = [id |-> nextLease, client |-> c, state |-> "pending", final |-> TRUE]
          /\ nextLease' = nextLease + 1
          /\ thread' = [thread EXCEPT ![c].at = "ready", ![c].op = "borrow",
                                      ![c].lease = nextLease]
       \/ /\ ArmFails
          /\ Fault(c, "idle")
          /\ UNCHANGED loan
    /\ UNCHANGED <<daemon, svc, stopping, wire, peer>>

-----------------------------------------------------------------------------
(* Dispatch: the secret gate, the arm, the worker's answer. *)

validate_completion(v) == ~svc.faulted /\ ~svc.busy /\ svc.origin /\ svc.vault = v
apply_completion(v) == svc' = [svc EXCEPT !.vault = v, !.origin = FALSE, !.busy = FALSE]

Transition(op) == IF op = "unlock" THEN "unlocking" ELSE "locking"

\* What the operation in progress expects of the service state.
Expected(op) ==
    IF op \in {"unlock", "lock"}
    THEN validate_completion(Transition(op))
    ELSE /\ ~svc.faulted /\ svc.busy /\ svc.vault = "unlocked"
         /\ svc.origin = (op = "mutate")

\* The end of a transition or an operation that was not dispatched.
RolledBack(op) ==
    svc' = [svc EXCEPT !.vault = IF op = "unlock" THEN "locked" ELSE "unlocked",
                       !.origin = FALSE, !.busy = FALSE]

\* handle_unlock before the arm: active swap is a fault that needs no marker,
\* a passphrase that cannot be read ends the transition.
SecretGate(c) ==
    /\ At(c, "gate")
    /\ \/ Fails /\ Go(c, "prefault") /\ UNCHANGED svc
       \/ /\ Works
          /\ \/ Go(c, "arm") /\ UNCHANGED svc
             \/ /\ validate_completion("unlocking") /\ apply_completion("locked")
                /\ Done(c)
             \/ ~validate_completion("unlocking") /\ Fault(c, "idle") /\ UNCHANGED svc
    /\ UNCHANGED <<daemon, stopping, disk, wire, loan, peer>>

\* arm_for_dispatch and provider_dispatch_ready, every outcome.
DispatchArm(c) ==
    /\ At(c, "arm")
    /\ LET op == thread[c].op
           gone == client[c] # "live" \/ stopping
           quiet == UNCHANGED <<stopping, client, holders>>
           \* A stop or the client's exit is noticed after the marker was written.
           late == \/ /\ stopping' = TRUE /\ UNCHANGED peer
                   \/ /\ client' = [client EXCEPT ![c] = "gone"]
                      /\ UNCHANGED <<stopping, holders>>
       IN  \/ ~Expected(op) /\ Fault(c, "idle") /\ quiet /\ UNCHANGED <<disk, faults>>
           \/ Expected(op) /\ gone /\ Go(c, "rollback") /\ quiet /\ UNCHANGED <<disk, faults>>
           \/ /\ Expected(op) /\ ~gone
              /\ \/ Fails /\ Fault(c, "idle") /\ quiet /\ UNCHANGED disk  \* swap is active
                 \/ op # "read" /\ ArmFails /\ Fault(c, "idle") /\ quiet
                 \/ op # "read" /\ arm_lifecycle /\ Go(c, "send") /\ quiet
                 \/ op # "read" /\ arm_lifecycle /\ Fault(c, "idle") /\ late
                 \/ op = "read" /\ Works /\ UNCHANGED disk /\ Go(c, "send") /\ quiet
                 \/ op = "read" /\ Works /\ UNCHANGED disk /\ Go(c, "rollback") /\ late
    /\ UNCHANGED <<daemon, svc, wire, loan>>

\* rollback_transition_for_stop, finish_provider_mutation_without_dispatch
\* and release_provider_status.
Rollback(c) ==
    /\ At(c, "rollback")
    /\ IF Expected(thread[c].op)
       THEN RolledBack(thread[c].op) /\ Done(c)
       ELSE Fault(c, "idle") /\ UNCHANGED svc
    /\ UNCHANGED <<daemon, stopping, disk, wire, loan, peer, faults>>

\* What the thread asks of the worker: after a lock or a refused unlock, to
\* attest that the Vault is locked and quiescent.
Command(t) == IF thread[t].code = "none" THEN thread[t].op ELSE "attest"

Unanswered(c) == IF thread[c].op = "borrow" THEN Go(c, "ambiguous") ELSE Fault(c, "idle")

\* transact holds the channel from the command to the response or the deadline.
ChannelFree == \A c \in Clients : thread[c].at # "reply"

\* transact: the command is sent, unless the worker is gone or given up.
Send(c) ==
    /\ At(c, "send")
    /\ \/ /\ worker.up /\ ~worker.terminal /\ ChannelFree
          /\ inbox' = Append(inbox, [op |-> Command(c), from |-> c])
          /\ Go(c, "reply")
       \/ /\ worker.terminal \/ (~worker.up /\ ChannelFree)
          /\ Unanswered(c) /\ UNCHANGED inbox
    /\ UNCHANGED <<daemon, svc, stopping, disk, worker, replies, mapping, loan, peer, faults>>

\* transact: the response, one that answers another request, or none in time.
Receive(c) ==
    /\ At(c, "reply")
    /\ \/ /\ replies # <<>> /\ worker.up
          /\ replies' = Tail(replies)
          /\ LET r == Head(replies)
             IN  IF r.to = c /\ r.op = Command(c)
                 THEN thread' = [thread EXCEPT
                        ![c].at = IF r.op = "attest" THEN "attested" ELSE "finish",
                        ![c].code = IF r.op = "attest" /\ r.code = "ok" THEN @ ELSE r.code]
                 ELSE Unanswered(c)
       \/ Unanswered(c) /\ UNCHANGED replies
    /\ UNCHANGED <<daemon, svc, stopping, disk, worker, inbox, mapping, loan, peer, faults>>

\* finish_unlock, the answer to Lock, finish_provider_mutation and the reads.
Finish(c) ==
    /\ At(c, "finish") /\ thread[c].op # "borrow"
    /\ LET op == thread[c].op
           code == thread[c].code
       IN  \/ \* complete_transition arms once more before it says Unlocked.
              /\ op = "unlock" /\ code = "ok"
              /\ \/ /\ validate_completion("unlocking") /\ arm_lifecycle
                    /\ apply_completion("unlocked") /\ Done(c)
                 \/ /\ validate_completion("unlocking") /\ ArmFails
                    /\ Fault(c, "idle") /\ UNCHANGED svc
                 \/ /\ ~validate_completion("unlocking")
                    /\ Fault(c, "idle") /\ UNCHANGED <<svc, disk, faults>>
           \/ /\ \/ op = "unlock" /\ code = "refused"
                 \/ op = "lock" /\ code = "ok"
              /\ Go(c, "send")
              /\ UNCHANGED <<svc, disk, faults>>
           \/ /\ op \in {"mutate", "read"} /\ code = "ok"
              /\ IF Expected(op)
                 THEN RolledBack(op) /\ Done(c)
                 ELSE Fault(c, "idle") /\ UNCHANGED svc
              /\ UNCHANGED <<disk, faults>>
           \/ /\ code = "bad" \/ (op = "lock" /\ code # "ok")
              /\ Fault(c, "idle")
              /\ UNCHANGED <<svc, disk, faults>>
    /\ UNCHANGED <<daemon, stopping, wire, loan, peer>>

\* complete_after_locked_attestation: the marker goes only behind the attestation.
Attested(c) ==
    /\ At(c, "attested")
    /\ LET op == thread[c].op
           sound == /\ thread[c].code # "bad"
                    /\ validate_completion(Transition(op))
                    /\ worker.up /\ ~worker.terminal
       IN  \/ /\ sound /\ disarm
              /\ \/ apply_completion("locked")
                 \/ op = "unlock" /\ apply_completion("unavailable")  \* the medium failed
              /\ Done(c)
           \/ sound /\ DisarmFails /\ Fault(c, "idle") /\ UNCHANGED svc
           \/ ~sound /\ Fault(c, "idle") /\ UNCHANGED <<svc, disk, faults>>
    /\ UNCHANGED <<daemon, stopping, wire, loan, peer>>

-----------------------------------------------------------------------------
(* The credential lease (handle_provider_borrow). *)

Mine(c) == lease.id = thread[c].lease
Revocable == lease.state # "revoking"
UnlockedAndFree == ~svc.faulted /\ Free /\ svc.vault = "unlocked"
\* The lease once the thread has closed its copy of the descriptor.
Finalized(c) == IF Mine(c) THEN [lease EXCEPT !.final = TRUE] ELSE lease
Alive(c) == client[c] = "live" /\ ~stopping

\* provider_borrow_dispatch_ready, and cancel_pending_lease behind it.
provider_borrow_dispatch_ready(c) ==
    /\ At(c, "ready")
    /\ \/ ~(Mine(c) /\ Revocable) /\ Done(c) /\ UNCHANGED <<lease, faults>>
       \/ /\ Mine(c) /\ Revocable /\ ~UnlockedAndFree
          /\ Revoke(c, lease.id, "fault") /\ UNCHANGED <<lease, faults>>
       \/ /\ Mine(c) /\ Revocable /\ UnlockedAndFree
          /\ \/ ~Alive(c) /\ Go(c, "cancel") /\ UNCHANGED <<lease, faults>>
             \/ Alive(c) /\ Go(c, "issue") /\ UNCHANGED <<lease, faults>>
             \/ Alive(c) /\ Fails /\ Revoke(c, lease.id, "fault") /\ UNCHANGED lease
    /\ UNCHANGED <<daemon, svc, stopping, disk, wire, nextLease, peer>>

cancel_pending_lease(c) ==
    /\ At(c, "cancel")
    /\ lease' = IF ~svc.faulted /\ Mine(c) /\ Revocable THEN NoLease ELSE lease
    /\ Done(c)
    /\ UNCHANGED <<daemon, svc, stopping, disk, wire, nextLease, peer, faults>>

\* From here a descriptor may exist, so the lease can only end by evidence.
mark_lease_potentially_issued(c) ==
    /\ At(c, "issue")
    /\ LET pending == Mine(c) /\ Revocable /\ ~svc.faulted
       IN  \/ ~pending /\ Done(c) /\ UNCHANGED lease
           \/ pending /\ Done(c) /\ lease' = NoLease  \* cancelled, by the deadline at the latest
           \/ /\ pending /\ Free /\ Alive(c)
              /\ lease' = [lease EXCEPT !.state = "issued", !.final = FALSE]
              /\ Go(c, "send")
    /\ UNCHANGED <<daemon, svc, stopping, disk, wire, nextLease, peer, faults>>

\* fail_ambiguous_borrow: nobody knows where the credential went.
fail_ambiguous_borrow(c) ==
    /\ At(c, "ambiguous")
    /\ lease' = Finalized(c)
    /\ Revoke(c, thread[c].lease, "fault")
    /\ UNCHANGED <<daemon, svc, stopping, disk, wire, nextLease, peer, faults>>

\* mount_codex_home: a Codex home is attached in the borrower's mount namespace,
\* outside the lifecycle mutex and before anything is answered.  The mounter is a
\* process of its own: the borrower counts as a holder from the request on, and
\* stays one when the request failed or its acknowledgement was lost.
MountCodexHome(c) ==
    /\ At(c, "finish") /\ thread[c].op = "borrow" /\ thread[c].code = "ok"
    /\ holders' = IF client[c] = "gone" THEN holders ELSE holders \union {c}
    /\ Go(c, "mount")
    /\ UNCHANGED <<daemon, svc, stopping, disk, wire, loan, client, faults>>

\* finish_provider_borrow_ready and finish_provider_borrow_unconfigured; a mount
\* that was refused or not acknowledged in time is ambiguous.
FinishBorrow(c) ==
    /\ At(c, "finish") \/ At(c, "mount")
    /\ thread[c].op = "borrow"
    /\ LET lost == ~(Mine(c) /\ Revocable) \/ stopping \/ svc.faulted
           code == thread[c].code
       IN  \/ /\ code = "bad" \/ At(c, "mount")
              /\ Go(c, "ambiguous") /\ UNCHANGED lease
           \/ /\ code # "bad" /\ lost
              /\ lease' = Finalized(c) /\ Done(c)
           \/ /\ code = "ok" /\ ~lost
              /\ Go(c, IF UnlockedAndFree THEN "deliver" ELSE "ambiguous")
              /\ UNCHANGED lease
           \/ /\ code = "refused" /\ ~lost
              /\ IF UnlockedAndFree
                 THEN lease' = NoLease /\ Done(c)
                 ELSE lease' = Finalized(c) /\ Fault(c, "idle")
    /\ UNCHANGED <<daemon, svc, stopping, disk, wire, nextLease, peer, faults>>

\* send_provider_descriptor: the lifecycle mutex is held over the send, and
\* the daemon's own copy is closed behind it.
send_provider_descriptor(c) ==
    /\ At(c, "deliver")
    /\ LET lost == ~(Mine(c) /\ Revocable)
           doomed == stopping \/ svc.faulted \/ client[c] # "live"
           unlocked == Free /\ svc.vault = "unlocked"
       IN  \/ /\ lost
              /\ lease' = Finalized(c) /\ Done(c) /\ UNCHANGED holders
           \/ /\ ~lost /\ ~unlocked
              /\ lease' = Finalized(c) /\ Fault(c, "idle") /\ UNCHANGED holders
           \/ /\ ~lost /\ unlocked /\ doomed
              /\ lease' = [Finalized(c) EXCEPT !.state = "revoking"]
              /\ thread' = [thread EXCEPT ![c].at = "kill", ![c].then = "idle"]
              /\ UNCHANGED holders
           \/ /\ ~lost /\ unlocked /\ ~doomed
              /\ \/ /\ lease' = [Finalized(c) EXCEPT !.state = "established"]
                    /\ holders' = holders \union {c}
                    /\ Go(c, "monitor")
                 \/ \* The send failed, or nobody can tell.
                    /\ lease' = [Finalized(c) EXCEPT !.state = "revoking"]
                    /\ holders' \in {holders, holders \union {c}}
                    /\ thread' = [thread EXCEPT ![c].at = "kill", ![c].then = "idle"]
    /\ UNCHANGED <<daemon, svc, stopping, disk, wire, nextLease, client, faults>>

\* Faulty variant: the exit of the peer itself is taken for the exit of its process tree.
EvidenceOfPeer(l) == lease.id = l => client[lease.client] # "live" /\ lease.final

\* wait_for_lease_evidence: every process of the borrower is gone and the
\* daemon closed its copy.  A lease that has left the registry had its evidence.
Evidence(l) == lease.id = l => client[lease.client] = "gone" /\ lease.final

\* monitor_provider_lease: the lease ends by itself, or at its deadline.
monitor_provider_lease(c) ==
    /\ At(c, "monitor")
    /\ IF Mine(c) /\ Revocable /\ ~svc.faulted THEN Go(c, "watch") ELSE Done(c)
    /\ UNCHANGED <<daemon, svc, stopping, disk, wire, loan, peer, faults>>

complete_normal_lease(c) ==
    /\ At(c, "watch")
    /\ \/ /\ Evidence(thread[c].lease)
          /\ lease' = IF Mine(c) /\ Revocable THEN NoLease ELSE lease
          /\ Done(c)
       \/ /\ ~Evidence(thread[c].lease)
          /\ Revoke(c, thread[c].lease, "idle")
          /\ UNCHANGED lease
    /\ UNCHANGED <<daemon, svc, stopping, disk, wire, nextLease, peer, faults>>

-----------------------------------------------------------------------------
(* Revocation, by whoever needs the lease gone. *)

Resume(t) ==
    CASE thread[t].then = "idle"  -> Done(t)
      [] thread[t].then = "fault" -> Fault(t, "idle")
      [] OTHER -> thread' = [thread EXCEPT ![t] =
                    [@ EXCEPT !.at = thread[t].then, !.then = "none", !.lease = 0]]

\* Faulty variant: whoever revokes goes on although the borrower was not seen to end.
RevocationForgiven(t) == Resume(t)

\* In a fault the failure is remembered, in the main loop it is the terminal
\* error, in a handler it is a fault.
RevocationFailed(t) ==
    CASE thread[t].then = "worker" ->
            thread' = [thread EXCEPT ![t] = [@ EXCEPT !.at = "worker", !.then = "none",
                          !.lease = 0, !.sound = FALSE, !.code = "none"]]
      [] t = Main /\ thread[t].then # "worker" ->
            thread' = [thread EXCEPT ![t] = [Idle EXCEPT !.sound = FALSE,
                        !.at = IF thread[t].then = "serve" THEN "stop" ELSE "drain"]]
      [] OTHER -> Fault(t, "idle")

revoke_provider_lease(t) ==
    /\ At(t, "revoke")
    /\ IF lease.id = thread[t].lease
       THEN lease' = [lease EXCEPT !.state = "revoking"] /\ Go(t, "kill")
       ELSE UNCHANGED lease /\ Resume(t)
    /\ UNCHANGED <<daemon, svc, stopping, disk, wire, nextLease, peer, faults>>

\* finish_provider_revocation: kill the borrower's process tree...
KillBorrower(t) ==
    /\ At(t, "kill")
    /\ LET c == lease.client
       IN  \/ /\ Works
              /\ client' = IF lease.id = thread[t].lease
                           THEN [client EXCEPT ![c] = "gone"] ELSE client
              /\ holders' = IF lease.id = thread[t].lease THEN holders \ {c} ELSE holders
              /\ Go(t, "await")
           \/ /\ Fails   \* cgroup.kill failed: at best the peer itself is dead
              /\ lease.id = thread[t].lease
              /\ client' \in {client, [client EXCEPT ![c] = IF @ = "live" THEN "orphans" ELSE @]}
              /\ UNCHANGED holders
              /\ thread' = [thread EXCEPT ![t].at = "await", ![t].code = "unkilled"]
    /\ UNCHANGED <<daemon, svc, stopping, disk, wire, loan>>

\* ...and release the lease only on the evidence.
AwaitEvidence(t) ==
    /\ At(t, "await")
    /\ IF Evidence(thread[t].lease)
       THEN /\ lease' = IF lease.id = thread[t].lease THEN NoLease ELSE lease
            /\ IF thread[t].code = "unkilled" THEN RevocationFailed(t) ELSE Resume(t)
       ELSE UNCHANGED lease /\ RevocationFailed(t)
    /\ UNCHANGED <<daemon, svc, stopping, disk, wire, nextLease, peer, faults>>

-----------------------------------------------------------------------------
(* Faults. *)

transition_state_to_fault(required) ==
    LET r == svc.required \/ required
    IN  [vault |-> "faulted", origin |-> FALSE, busy |-> FALSE, faulted |-> TRUE,
         required |-> r, clean |-> IF r THEN FALSE ELSE svc.clean]

\* mark_fault_by: refuse everything, write the marker, ...
mark_fault_by(t) ==
    /\ At(t, "fault")
    /\ svc' = transition_state_to_fault(TRUE)
    /\ \/ arm_lifecycle /\ thread' = [thread EXCEPT
            ![t].at = IF lease = NoLease THEN "worker" ELSE "revoke",
            ![t].lease = lease.id, ![t].then = "worker"]
       \/ ArmFails /\ thread' = [thread EXCEPT ![t].unmarked = TRUE,
            ![t].at = IF lease = NoLease THEN "worker" ELSE "revoke",
            ![t].lease = lease.id, ![t].then = "worker"]
    /\ UNCHANGED <<daemon, stopping, wire, loan, peer>>

\* ...revoke the lease, terminate the worker, ...
fault_and_terminate(t) ==
    /\ At(t, "worker")
    /\ \/ /\ Works
          /\ worker' = [NoWorker EXCEPT !.terminal = TRUE]
          /\ inbox' = <<>> /\ replies' = <<>>
          /\ Go(t, "contain")
       \/ /\ Fails /\ worker.up
          /\ worker' = [worker EXCEPT !.terminal = TRUE]
          /\ UNCHANGED <<inbox, replies>>
          /\ thread' = [thread EXCEPT ![t].at = "contain", ![t].sound = FALSE]
    /\ UNCHANGED <<daemon, svc, stopping, disk, mapping, loan, peer>>

\* Faulty variant: a failed step of the fault procedure does not stop the daemon.
ContainWithoutStop(t) ==
    /\ At(t, "contain")
    /\ \/ IF thread[t].unmarked THEN arm_lifecycle ELSE UNCHANGED <<disk, faults>>
       \/ thread[t].unmarked /\ ArmFails
    /\ IF thread[t].back = "idle" THEN Done(t)
       ELSE thread' = [thread EXCEPT ![t] = [Idle EXCEPT !.at = thread[t].back, !.sound = FALSE]]
    /\ UNCHANGED <<daemon, svc, stopping, wire, loan, peer>>

\* ...and stop the daemon when any of the three failed.
Contain(t) ==
    /\ At(t, "contain")
    /\ \/ /\ IF thread[t].unmarked THEN arm_lifecycle ELSE UNCHANGED <<disk, faults>>
          /\ stopping' = (stopping \/ ~thread[t].sound)
       \/ thread[t].unmarked /\ ArmFails /\ stopping' = TRUE
    /\ IF thread[t].back = "idle" THEN Done(t)
       ELSE thread' = [thread EXCEPT ![t] = [Idle EXCEPT !.at = thread[t].back, !.sound = FALSE]]
    /\ UNCHANGED <<daemon, svc, wire, loan, peer>>

\* mark_pre_mutation_fault_by: nothing was dispatched, so no marker is needed
\* if the idle worker is reaped cleanly.
mark_pre_mutation_fault(c) ==
    /\ At(c, "prefault")
    /\ IF ~svc.required /\ Disarmed
       THEN /\ svc' = [transition_state_to_fault(FALSE) EXCEPT !.clean = FALSE]
            /\ stopping' = TRUE
            /\ Go(c, "cancel_clean")
       ELSE Fault(c, "idle") /\ UNCHANGED <<svc, stopping>>
    /\ UNCHANGED <<daemon, disk, wire, loan, peer, faults>>

cancel_clean(c) ==
    /\ At(c, "cancel_clean")
    /\ \/ /\ Works
          /\ worker' = [NoWorker EXCEPT !.terminal = TRUE]
          /\ inbox' = <<>> /\ replies' = <<>>
          /\ Go(c, "preclean")
       \/ /\ Fails
          /\ worker' = [worker EXCEPT !.terminal = TRUE]
          /\ UNCHANGED <<inbox, replies>>
          /\ Fault(c, "idle")
    /\ UNCHANGED <<daemon, svc, stopping, disk, mapping, loan, peer>>

FinalizeCleanFault(c) ==
    /\ At(c, "preclean")
    /\ IF ~svc.required /\ Disarmed
       THEN svc' = [svc EXCEPT !.clean = TRUE] /\ Done(c)
       ELSE Fault(c, "idle") /\ UNCHANGED svc
    /\ UNCHANGED <<daemon, stopping, disk, wire, loan, peer, faults>>

-----------------------------------------------------------------------------
(* The worker process (worker.rs handle_command). *)

\* The answers to a command and what they leave of the mapping.  The worker's
\* own report of a closed mapping is not believed: the attestation is.
Outcomes(op) ==
    CASE op = "unlock" -> IF worker.held THEN {<<"refused", mapping, TRUE>>}
            ELSE {<<"ok", "open", TRUE>>,
                  <<"refused", "closed", FALSE>>, <<"refused", "open", FALSE>>,
                  <<"bad", "closed", FALSE>>, <<"bad", "open", FALSE>>}
      [] op = "lock" -> IF ~worker.held THEN {<<"bad", mapping, FALSE>>}
            ELSE {<<"ok", "closed", FALSE>>, <<"ok", "open", FALSE>>,
                  <<"bad", "closed", FALSE>>, <<"bad", "open", FALSE>>}
      [] op = "attest" -> {<<"bad", mapping, worker.held>>} \union
            IF worker.held \/ mapping = "open" THEN {} ELSE {<<"ok", mapping, FALSE>>}
      [] OTHER -> {<<"bad", mapping, worker.held>>} \union
            IF ~worker.held THEN {}
            ELSE {<<"ok", mapping, TRUE>>} \union   \* "refused": no credential is configured
                 IF op = "borrow" THEN {<<"refused", mapping, TRUE>>} ELSE {}

handle_command ==
    /\ worker.up /\ inbox # <<>>
    /\ \E o \in Outcomes(Head(inbox).op) :
          /\ replies' = Append(replies, [to |-> Head(inbox).from, op |-> Head(inbox).op,
                                         code |-> o[1]])
          /\ mapping' = o[2]
          /\ worker' = [worker EXCEPT !.held = o[3]]
    /\ inbox' = Tail(inbox)
    /\ UNCHANGED <<daemon, svc, stopping, disk, loan, peer, thread, faults>>

\* The worker is killed or exits by itself: the mapping stays as it is.
WorkerDies ==
    /\ worker.up /\ Fails
    /\ worker' = [worker EXCEPT !.up = FALSE, !.held = FALSE]
    /\ inbox' = <<>> /\ replies' = <<>>
    /\ UNCHANGED <<daemon, svc, stopping, disk, mapping, loan, peer, thread>>

-----------------------------------------------------------------------------
(* The main thread (serve_connections, run, shutdown). *)

\* The loop ends: the stop is latched and the active lease is revoked.
LeaveLoop(failed) ==
    /\ stopping' = TRUE
    /\ thread' = [thread EXCEPT ![Main] = [Idle EXCEPT !.sound = ~failed,
          !.at = IF lease = NoLease THEN "drain" ELSE "revoke",
          !.lease = lease.id, !.then = "drain"]]

sweep_expired_lease ==
    /\ At(Main, "serve") /\ ~stopping
    /\ lease # NoLease /\ Revocable
    /\ Revoke(Main, lease.id, "serve")
    /\ UNCHANGED <<daemon, svc, stopping, disk, wire, loan, peer, faults>>

\* The loop sees the stop, the worker's exit, a failed listener or a failed sweep.
serve_connections ==
    /\ \/ At(Main, "serve") /\ stopping /\ LeaveLoop(FALSE) /\ Works
       \/ At(Main, "serve") /\ ~svc.faulted /\ ~worker.up /\ LeaveLoop(TRUE) /\ Works
       \/ At(Main, "serve") /\ LeaveLoop(TRUE) /\ Fails
       \/ At(Main, "stop") /\ LeaveLoop(TRUE) /\ Works
    /\ UNCHANGED <<daemon, svc, disk, wire, loan, peer>>

\* With a terminal error the fault is marked before the handlers are awaited.
DrainHandlers ==
    /\ At(Main, "drain")
    /\ IF thread[Main].sound THEN Go(Main, "join") ELSE Fault(Main, "join")
    /\ UNCHANGED <<daemon, svc, stopping, disk, wire, loan, peer, faults>>

\* The handlers are joined, or the deadline leaves some behind.
JoinHandlers ==
    /\ At(Main, "join")
    /\ IF \A c \in Clients : thread[c].at = "idle"
       THEN Go(Main, IF thread[Main].sound THEN "shutdown" ELSE "leave")
       ELSE thread' = [thread EXCEPT ![Main].at = "leave", ![Main].sound = FALSE]
    /\ UNCHANGED <<daemon, svc, stopping, disk, wire, loan, peer, faults>>

\* run: an error of serve_connections ends the process behind the fault.
LeaveWithError ==
    /\ At(Main, "leave")
    /\ IF svc.faulted
       THEN /\ Ends("error")
            /\ UNCHANGED <<marker, mapping, nextLease, peer, faults>>
       ELSE /\ Fault(Main, "exit")
            /\ UNCHANGED <<daemon, svc, stopping, disk, wire, loan, peer, faults>>

Exit ==
    /\ At(Main, "exit")
    /\ Ends("error")
    /\ UNCHANGED <<marker, mapping, nextLease, peer, faults>>

\* Faulty variant: the worker exits without having locked the Vault.
ShutdownUnattested ==
    /\ worker.up /\ ~worker.terminal
    /\ UNCHANGED mapping

\* shutdown_clean: the worker closes the Vault, attests it and exits.
ShutdownCleanly ==
    /\ worker.up /\ ~worker.terminal
    /\ mapping' = "closed"

CleanFault == svc.faulted /\ ~svc.required /\ svc.clean /\ Disarmed

\* Supervisor::shutdown, its one clean end...
shutdown ==
    /\ At(Main, "shutdown") /\ lease = NoLease
    /\ \/ /\ CleanFault
          /\ UNCHANGED <<marker, mapping>>
       \/ /\ ~svc.faulted /\ ShutdownCleanly
          /\ marker = IF armed THEN "whole" ELSE "none"
          /\ marker' = "none"
    /\ Ends("ok")
    /\ UNCHANGED <<nextLease, peer, faults>>

\* ...and every other: a lease, a fault, a worker that does not end, a marker
\* that cannot be removed.
ShutdownFails ==
    /\ At(Main, "shutdown")
    /\ \/ /\ lease # NoLease \/ (svc.faulted /\ ~CleanFault)
          /\ UNCHANGED <<wire, disk, faults>>
       \/ /\ lease = NoLease /\ ~svc.faulted
          /\ \/ /\ ~(worker.up /\ ~worker.terminal)
                /\ UNCHANGED <<wire, disk, faults>>
             \/ /\ worker.up /\ ~worker.terminal /\ Fails
                /\ worker' = [worker EXCEPT !.held = FALSE]
                /\ mapping' \in {mapping, "closed"}
                /\ UNCHANGED <<disk, inbox, replies>>
             \/ /\ ShutdownCleanly /\ DisarmFails
                /\ worker' = [NoWorker EXCEPT !.terminal = TRUE]
                /\ UNCHANGED <<inbox, replies>>
    /\ Fault(Main, "exit")
    /\ UNCHANGED <<daemon, svc, stopping, loan, peer>>

-----------------------------------------------------------------------------
(* The environment. *)

StopSignal ==
    /\ daemon = "up" /\ ~stopping
    /\ stopping' = TRUE
    /\ UNCHANGED <<daemon, svc, disk, wire, loan, peer, thread, faults>>

Killed ==
    /\ daemon = "up" /\ Fails
    /\ Ends("killed")
    /\ UNCHANGED <<marker, mapping, nextLease, peer>>

\* The peer exits; processes of a borrower may stay, with what it borrowed.
ClientExits(c) ==
    /\ client[c] # "gone"
    /\ \E s \in {"gone"} \union IF lease.client = c THEN {"orphans"} \ {client[c]} ELSE {} :
          /\ client' = [client EXCEPT ![c] = s]
          /\ holders' = IF s = "gone" THEN holders \ {c} ELSE holders
    /\ UNCHANGED <<daemon, svc, stopping, disk, wire, loan, thread, faults>>

\* A new process of the same role.
ClientReturns(c) ==
    /\ client[c] = "gone" /\ lease.client # c /\ thread[c].at = "idle"
    /\ client' = [client EXCEPT ![c] = "live"]
    /\ UNCHANGED <<daemon, svc, stopping, disk, wire, loan, holders, thread, faults>>

-----------------------------------------------------------------------------
Request(c) ==
    \/ begin_unlock(c) \/ begin_lock(c) \/ begin_provider_borrow(c)
    \/ begin_provider_operation(c, "mutate") \/ begin_provider_operation(c, "read")
    \/ FaultedRequest(c) \/ Refuse(c)

Handler(c) ==
    \/ Request(c)
    \/ SecretGate(c) \/ DispatchArm(c) \/ Rollback(c) \/ Send(c) \/ Receive(c)
    \/ Finish(c) \/ Attested(c)
    \/ provider_borrow_dispatch_ready(c) \/ cancel_pending_lease(c)
    \/ mark_lease_potentially_issued(c) \/ fail_ambiguous_borrow(c)
    \/ MountCodexHome(c) \/ FinishBorrow(c)
    \/ send_provider_descriptor(c) \/ monitor_provider_lease(c) \/ complete_normal_lease(c)
    \/ mark_pre_mutation_fault(c) \/ cancel_clean(c) \/ FinalizeCleanFault(c)

Procedures(t) ==
    \/ revoke_provider_lease(t) \/ KillBorrower(t) \/ AwaitEvidence(t)
    \/ mark_fault_by(t) \/ fault_and_terminate(t) \/ Contain(t)

MainThread ==
    \/ sweep_expired_lease \/ serve_connections \/ DrainHandlers \/ JoinHandlers
    \/ LeaveWithError \/ Exit \/ shutdown \/ ShutdownFails

Environment ==
    \/ handle_command \/ WorkerDies \/ StopSignal \/ Killed \/ Start
    \/ \E c \in Clients : accept_connection(c) \/ ClientExits(c) \/ ClientReturns(c)

Next ==
    \/ MainThread
    \/ \E c \in Clients : Handler(c)
    \/ \E t \in Threads : Procedures(t)
    \/ Environment

Spec == Init /\ [][Next]_vars

-----------------------------------------------------------------------------
(* Properties. *)

\* Whatever dies and whenever: as long as the Vault is decrypted or a process
\* outside the daemon holds a credential, the marker is on the disk, so the
\* next daemon of this boot serves status only.
OpenIsMarked ==
    mapping = "open" \/ holders # {} => marker # "none"

\* The daemon says "locked" only when nothing is decrypted, no lease exists
\* and no borrower is left.
LockedIsClosed ==
    daemon = "up" /\ svc.vault = "locked" =>
        /\ mapping = "closed"
        /\ lease = NoLease
        /\ holders = {}

\* While the daemon is up, a credential outside is one it can still revoke: the
\* registry knows its borrower, from before a Codex home is mounted until every
\* process of the borrower is gone.
CredentialLeased ==
    \A c \in holders : daemon = "up" /\ ~svc.faulted =>
        lease.client = c /\ lease.state \in {"issued", "established", "revoking"}

\* A fault that has run its course is contained: no worker, no lease, and the
\* marker for the next daemon, or this daemon is on its way out.
FaultContained ==
    (/\ daemon = "up" /\ svc.faulted
     /\ \A t \in Threads : thread[t].at \in {"idle", "accepted", "serve"})
    => stopping \/ (~worker.up /\ lease = NoLease /\ marker # "none")

\* The marker is removed only by a daemon that is up, without a fault and
\* without a lease: a fault stays until the reboot.
MarkerOutlivesFault ==
    [][marker # "none" /\ marker' = "none" =>
          daemon = "up" /\ ~svc.faulted /\ lease = NoLease]_vars

=============================================================================

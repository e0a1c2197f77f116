--------------------------- MODULE SecureJournal ---------------------------
(***************************************************************************)
(* The encrypted journal (crates/storage/src/lib.rs): a database of chained *)
(* entries and, in a separate native secret store, its key and an anchor   *)
(* that names the authenticated head.  Neither store can be committed      *)
(* together with the other, so a process may die between any two writes,   *)
(* a write may fail with or without its effect, and the database file may  *)
(* be put back from an older copy.                                         *)
(*                                                                         *)
(* An entry hash covers the whole chain up to its entry, so the pair of    *)
(* sequence number and hash that identifies a head is modelled by the      *)
(* chain itself, and a key by a number.  Identifiers, keys and ciphertexts *)
(* are random: a new one is one that was never used before.                *)
(***************************************************************************)
EXTENDS Naturals, Sequences, SequencesExt

CONSTANTS
    MaxEntries,  \* MAX_JOURNAL_ENTRIES
    MaxFresh,    \* bound: identifiers, keys and entries ever generated
    MaxFaults    \* bound: crashes and failed writes

ASSUME EntryAssumption == MaxEntries \in Nat
ASSUME JournalBounds == MaxFresh \in Nat /\ MaxFaults \in Nat

VARIABLES
    db,        \* the committed database
    copy,      \* an older copy of it
    key,       \* the key in the secret store
    anchor,    \* the anchor in the secret store
    step,      \* the next durable write of the process, or what its handle is
    held,      \* the key generated and not stored yet
    trusted,   \* trusted_head of the handle
    fresh,     \* random values drawn so far
    acked,     \* the chain up to the last entry append_expected returned
    replaced,  \* an older copy was ever put back
    faults     \* crashes and failed writes so far

vars == <<db, copy, key, anchor, step, held, trusted, fresh, acked, replaced, faults>>

secrets == <<key, anchor>>
history == <<acked, replaced>>

\* No database, or one without a schema; a schema with the initialization marked
\* pending; a journal in use.
Chain == {c \in Seq(Nat) : Len(c) <= MaxEntries}
Database ==
    [state : {"blank", "pending", "ready"}, id : Nat, key : Nat, chain : Chain]
Blank == [state |-> "blank", id |-> 0, key |-> 0, chain |-> <<>>]

Anchor == [id : Nat, chain : Chain]
NoAnchor == [id |-> 0, chain |-> <<>>]
NoKey == 0

initial_anchor(id) == [id |-> id, chain |-> <<>>]
ChainHead == [id |-> db.id, chain |-> db.chain]

InitializationStep == {"initKey", "initAnchor", "initReady"}
RecoveryStep == {"recoverKey", "recoverAnchor", "recoverReady", "verify"}

TypeOK ==
    /\ db \in Database /\ copy \in Database
    /\ key \in Nat /\ anchor \in Anchor
    /\ step \in {"closed", "open", "committed", "poisoned"}
                \cup InitializationStep \cup RecoveryStep
    /\ held \in Nat /\ trusted \in Anchor /\ fresh \in Nat
    /\ acked \in Chain /\ replaced \in BOOLEAN /\ faults \in Nat

Init ==
    /\ db = Blank /\ copy = Blank
    /\ key = NoKey /\ anchor = NoAnchor
    /\ step = "closed" /\ held = NoKey /\ trusted = NoAnchor
    /\ fresh = 0 /\ acked = <<>> /\ replaced = FALSE /\ faults = 0

(***************************************************************************)
(* Opening.  An open whose guard fails returns an error and writes nothing. *)
(***************************************************************************)
\* initialize_new_journal: a blank database and no secret at all.
InitializeSchema ==
    /\ step = "closed" /\ db.state = "blank"
    /\ key = NoKey /\ anchor = NoAnchor
    /\ fresh < MaxFresh /\ fresh' = fresh + 1
    /\ db' = [state |-> "pending", id |-> fresh', key |-> fresh', chain |-> <<>>]
    /\ held' = fresh' /\ step' = "initKey"
    /\ UNCHANGED <<copy, secrets, trusted, history, faults>>

\* Faulty variant: a new key is generated and the record stays bound to the lost one.
RecoverKeepsRecord ==
    /\ step = "closed" /\ db.state = "pending" /\ db.chain = <<>>
    /\ key = NoKey /\ anchor = NoAnchor
    /\ fresh < MaxFresh /\ fresh' = fresh + 1
    /\ held' = fresh' /\ step' = "recoverKey"
    /\ UNCHANGED <<db, copy, secrets, trusted, history, faults>>

\* recover_pending_initialization, no secret stored: the generated key is lost,
\* and the record is bound to another one.
RecoverWithoutSecrets ==
    /\ step = "closed" /\ db.state = "pending" /\ db.chain = <<>>
    /\ key = NoKey /\ anchor = NoAnchor
    /\ fresh < MaxFresh /\ fresh' = fresh + 1
    /\ db' = [db EXCEPT !.key = fresh']
    /\ held' = fresh' /\ step' = "recoverKey"
    /\ UNCHANGED <<copy, secrets, trusted, history, faults>>

\* The key is stored and must open the record.
RecoverWithKey ==
    /\ step = "closed" /\ db.state = "pending" /\ db.chain = <<>>
    /\ key # NoKey /\ key = db.key /\ anchor = NoAnchor
    /\ step' = "recoverAnchor"
    /\ UNCHANGED <<db, copy, secrets, held, trusted, fresh, history, faults>>

\* Faulty variant: the stored anchor is not compared with the initial one.
RecoverAnyAnchor ==
    /\ step = "closed" /\ db.state = "pending" /\ db.chain = <<>>
    /\ key # NoKey /\ key = db.key /\ anchor # NoAnchor
    /\ step' = "recoverAnchor"
    /\ UNCHANGED <<db, copy, secrets, held, trusted, fresh, history, faults>>

\* Both are stored: only the marker is missing.
RecoverWithAnchor ==
    /\ step = "closed" /\ db.state = "pending" /\ db.chain = <<>>
    /\ key # NoKey /\ key = db.key /\ anchor = initial_anchor(db.id)
    /\ step' = "recoverReady"
    /\ UNCHANGED <<db, copy, secrets, held, trusted, fresh, history, faults>>

\* open on a journal in use needs both secrets and the key of its record.
OpenReady ==
    /\ step = "closed" /\ db.state = "ready"
    /\ key # NoKey /\ key = db.key /\ anchor # NoAnchor
    /\ step' = "verify"
    /\ UNCHANGED <<db, copy, secrets, held, trusted, fresh, history, faults>>

StoreKey(from, to) ==
    /\ step = from /\ step' = to
    /\ key' = held
    /\ UNCHANGED <<db, copy, anchor, held, trusted, fresh, history, faults>>

StoreInitialAnchor(from, to) ==
    /\ step = from /\ step' = to
    /\ anchor' = initial_anchor(db.id)
    /\ UNCHANGED <<db, copy, key, held, trusted, fresh, history, faults>>

\* finalize_pending_initialization.  A new journal is handed out at once; a
\* recovered one is verified first.
FinalizeInitialization(from, to) ==
    /\ step = from /\ step' = to
    /\ db.chain = <<>>
    /\ db' = [db EXCEPT !.state = "ready"]
    /\ trusted' = initial_anchor(db.id)
    /\ UNCHANGED <<copy, secrets, held, fresh, history, faults>>

(***************************************************************************)
(* head, first_entry, entries, replay: the complete chain is verified and  *)
(* an anchor that names an earlier prefix of it is advanced.               *)
(***************************************************************************)
validate_anchor == anchor.id = db.id /\ IsPrefix(anchor.chain, db.chain)

Readable == step \in {"verify", "open"} /\ Len(db.chain) <= MaxEntries /\ validate_anchor

Verify ==
    /\ Readable
    /\ anchor' = ChainHead /\ trusted' = ChainHead
    /\ step' = "open"
    /\ UNCHANGED <<db, copy, key, held, fresh, history, faults>>

\* The anchor was advanced and closing the read transaction failed: an open
\* handle keeps its old head, an opening process gives up.
VerifyCommitFails ==
    /\ Readable /\ faults < MaxFaults /\ faults' = faults + 1
    /\ anchor' = ChainHead
    /\ step' = IF step = "open" THEN "open" ELSE "closed"
    /\ UNCHANGED <<db, copy, key, held, trusted, fresh, history>>

\* store_anchor reported an error, with or without its effect.
VerifyAnchorFails ==
    /\ Readable /\ anchor # ChainHead /\ faults < MaxFaults /\ faults' = faults + 1
    /\ anchor' \in {anchor, ChainHead}
    /\ step' = IF step = "open" THEN "poisoned" ELSE "closed"
    /\ UNCHANGED <<db, copy, key, held, trusted, fresh, history>>

(***************************************************************************)
(* append_expected.                                                        *)
(***************************************************************************)
\* The head the caller expects is the one this handle trusts, the one the secret
\* store names and the one in the database (validate_expected_head).
HeadAgrees == anchor = trusted /\ ChainHead = trusted

Grown == [db EXCEPT !.chain = Append(db.chain, fresh')]

AppendCommit ==
    /\ step = "open" /\ HeadAgrees
    /\ Len(db.chain) < MaxEntries
    /\ fresh < MaxFresh /\ fresh' = fresh + 1
    /\ db' = Grown
    /\ step' = "committed"
    /\ UNCHANGED <<copy, secrets, held, trusted, history, faults>>

\* The commit, or hardening the files after it, reported an error.
AppendCommitFails ==
    /\ step = "open" /\ HeadAgrees
    /\ Len(db.chain) < MaxEntries
    /\ faults < MaxFaults /\ faults' = faults + 1
    /\ fresh < MaxFresh /\ fresh' = fresh + 1
    /\ db' \in {db, Grown}
    /\ step' = "poisoned"
    /\ UNCHANGED <<copy, secrets, held, trusted, history>>

\* Faulty variant: the entry is returned before the anchor is stored.
AcknowledgeFirst ==
    /\ step = "committed"
    /\ trusted' = ChainHead /\ acked' = db.chain
    /\ step' = "open"
    /\ UNCHANGED <<db, copy, secrets, held, fresh, replaced, faults>>

\* The anchor follows the commit, and only then the entry is returned.
AppendAnchor ==
    /\ step = "committed"
    /\ anchor' = ChainHead /\ trusted' = ChainHead
    /\ acked' = db.chain
    /\ step' = "open"
    /\ UNCHANGED <<db, copy, key, held, fresh, replaced, faults>>

AppendAnchorFails ==
    /\ step = "committed" /\ faults < MaxFaults /\ faults' = faults + 1
    /\ anchor' \in {anchor, ChainHead}
    /\ step' = "poisoned"
    /\ UNCHANGED <<db, copy, key, held, trusted, fresh, history>>

(***************************************************************************)
(* The environment.                                                        *)
(***************************************************************************)
\* A failed store_key or store_anchor during an initialization ends the open; so
\* does a crash, which a handle in use may meet at any step as well.
Crash ==
    /\ step # "closed" /\ faults < MaxFaults /\ faults' = faults + 1
    /\ step' = "closed"
    /\ UNCHANGED <<db, copy, secrets, held, trusted, fresh, history>>

Close ==
    /\ step \in {"open", "poisoned"}
    /\ step' = "closed"
    /\ UNCHANGED <<db, copy, secrets, held, trusted, fresh, history, faults>>

TakeCopy ==
    /\ copy # db /\ copy' = db
    /\ UNCHANGED <<db, secrets, step, held, trusted, fresh, history, faults>>

PutBack ==
    /\ step = "closed" /\ db # copy
    /\ db' = copy /\ replaced' = TRUE
    /\ UNCHANGED <<copy, secrets, step, held, trusted, fresh, acked, faults>>

Opening ==
    \/ InitializeSchema
    \/ RecoverWithoutSecrets \/ RecoverWithKey \/ RecoverWithAnchor
    \/ OpenReady
    \/ StoreKey("initKey", "initAnchor") \/ StoreKey("recoverKey", "recoverAnchor")
    \/ StoreInitialAnchor("initAnchor", "initReady")
    \/ StoreInitialAnchor("recoverAnchor", "recoverReady")
    \/ FinalizeInitialization("initReady", "open")
    \/ FinalizeInitialization("recoverReady", "verify")
    \/ Verify

Next ==
    \/ Opening
    \/ VerifyCommitFails \/ VerifyAnchorFails
    \/ AppendCommit \/ AppendCommitFails \/ AppendAnchor \/ AppendAnchorFails
    \/ Crash \/ Close \/ TakeCopy \/ PutBack

Spec == Init /\ [][Next]_vars

\* The product opens its journal whenever it starts, drops a handle it cannot use
\* any more, and its process keeps running between faults.
FairSpec ==
    /\ Spec
    /\ WF_vars(step # "open" /\ Opening)
    /\ WF_vars(AppendAnchor)
    /\ WF_vars(step = "poisoned" /\ Close)

(***************************************************************************)
(* Properties.                                                             *)
(***************************************************************************)
\* An entry append_expected has returned is in every journal that is open: no crash
\* window of the two stores and no older copy of the database loses it.
AcknowledgedKept == step \in {"open", "committed"} => IsPrefix(acked, db.chain)

\* The anchor is never ahead of the database and at most one entry behind it, unless
\* an older copy was put back: after any crash or failed write the journal can still
\* be verified, and what a lagging anchor is advanced over is the one entry of an
\* interrupted append.
AnchorTracks ==
    ~replaced /\ anchor # NoAnchor =>
        /\ anchor.id = db.id
        /\ IsPrefix(anchor.chain, db.chain)
        /\ Len(db.chain) <= Len(anchor.chain) + 1

\* The anchor moves forward along one chain of one journal: it is neither rewound
\* nor moved to another branch after an older copy was put back, and an existing
\* journal is never initialized again.
AnchorOnlyGrows ==
    [][anchor # NoAnchor => anchor'.id = anchor.id /\ IsPrefix(anchor.chain, anchor'.chain)]_vars

\* The inductive strengthening of the three: which of the two stores is ahead at
\* every step of an open and of an append.
JournalInv ==
    /\ TypeOK
    /\ AnchorTracks
    /\ IsPrefix(acked, anchor.chain)
    /\ step \in {"initKey", "initAnchor", "recoverKey", "recoverAnchor"} =>
          anchor = NoAnchor /\ db.chain = <<>>
    /\ step \in {"initReady", "recoverReady"} =>
          anchor = initial_anchor(db.id) /\ db.chain = <<>>
    /\ step = "open" => anchor.id = db.id /\ IsPrefix(anchor.chain, db.chain)
    /\ step = "committed" =>
          /\ anchor.id = db.id /\ IsPrefix(anchor.chain, db.chain)
          /\ Len(db.chain) = Len(anchor.chain) + 1

\* However often initialization, append and recovery are interrupted, a journal whose
\* database was not replaced by an older copy opens again.
JournalOpens == step = "closed" ~> (step = "open" \/ replaced \/ fresh = MaxFresh)
=============================================================================

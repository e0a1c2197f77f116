------------------------ MODULE SecureJournal_proofs ------------------------
(***************************************************************************)
(* The encrypted journal never loses an acknowledged entry, and its anchor *)
(* never gets ahead of the database or leaves its chain: proofs for every  *)
(* number of entries, faults and copies put back.                          *)
(***************************************************************************)
EXTENDS SecureJournal, TLAPS

(***************************************************************************)
(* Prefixes of chains.                                                     *)
(***************************************************************************)
LEMMA PrefixPointwise ==
    ASSUME NEW s \in Seq(Nat), NEW t \in Seq(Nat)
    PROVE  IsPrefix(s, t) <=> Len(s) <= Len(t) /\ \A i \in 1..Len(s) : s[i] = t[i]
<1>1. ASSUME Len(s) <= Len(t)
      PROVE  /\ SubSeq(s, 1, Len(s)) = s
             /\ SubSeq(t, 1, Len(s)) \in Seq(Nat)
             /\ Len(SubSeq(t, 1, Len(s))) = Len(s)
             /\ \A i \in 1..Len(s) : SubSeq(t, 1, Len(s))[i] = t[i]
  BY <1>1
<1>2. ASSUME Len(s) <= Len(t), \A i \in 1..Len(s) : s[i] = t[i]
      PROVE  SubSeq(t, 1, Len(s)) = s
  BY <1>1, <1>2
<1>3. ASSUME Len(s) <= Len(t), SubSeq(t, 1, Len(s)) = s
      PROVE  \A i \in 1..Len(s) : s[i] = t[i]
  BY <1>1, <1>3
<1>. QED  BY <1>1, <1>2, <1>3 DEF IsPrefix

\* Chains are prefixes of themselves.
LEMMA PrefixReflexive ==
    ASSUME NEW s \in Seq(Nat) PROVE IsPrefix(s, s)
BY PrefixPointwise

\* Prefixes of prefixes are prefixes.
LEMMA PrefixTransitive ==
    ASSUME NEW s \in Seq(Nat), NEW t \in Seq(Nat), NEW u \in Seq(Nat),
           IsPrefix(s, t), IsPrefix(t, u)
    PROVE  IsPrefix(s, u)
<1>1. Len(s) <= Len(t) /\ \A i \in 1..Len(s) : s[i] = t[i]
  BY PrefixPointwise
<1>2. Len(t) <= Len(u) /\ \A i \in 1..Len(t) : t[i] = u[i]
  BY PrefixPointwise
<1>3. Len(s) <= Len(u) /\ \A i \in 1..Len(s) : s[i] = u[i]
  BY <1>1, <1>2
<1>. QED  BY <1>3, PrefixPointwise

\* A chain is a prefix of what an append makes of it.
LEMMA PrefixAppend ==
    ASSUME NEW s \in Seq(Nat), NEW n \in Nat
    PROVE  /\ Append(s, n) \in Seq(Nat)
           /\ Len(Append(s, n)) = Len(s) + 1
           /\ IsPrefix(s, Append(s, n))
<1>1. PICK t : t = Append(s, n)
  OBVIOUS
<1>2. /\ t \in Seq(Nat) /\ Len(t) = Len(s) + 1 /\ Len(s) \in Nat
      /\ \A i \in 1..Len(s) : s[i] = t[i]
  BY <1>1
<1>3. IsPrefix(s, t)
  BY <1>2, PrefixPointwise
<1>. QED  BY <1>1, <1>2, <1>3, Zenon

\* A grown database is one entry longer, and its chain extends the old one.
LEMMA GrownChain ==
    ASSUME TypeOK, fresh' \in Nat, Len(db.chain) < MaxEntries
    PROVE  /\ Grown \in Database
           /\ Grown.id = db.id /\ Grown.chain = Append(db.chain, fresh')
           /\ IsPrefix(db.chain, Grown.chain)
           /\ Len(Grown.chain) = Len(db.chain) + 1
<1>1. db \in Database /\ db.chain \in Seq(Nat) /\ Len(db.chain) \in Nat /\ MaxEntries \in Nat
  BY EntryAssumption DEF TypeOK, Database, Chain
<1>2. /\ Append(db.chain, fresh') \in Seq(Nat)
      /\ Len(Append(db.chain, fresh')) = Len(db.chain) + 1
      /\ IsPrefix(db.chain, Append(db.chain, fresh'))
  BY <1>1, PrefixAppend
<1>3. Append(db.chain, fresh') \in Chain
  BY <1>1, <1>2 DEF Chain
<1>4. Grown = [state |-> db.state, id |-> db.id, key |-> db.key, chain |-> Append(db.chain, fresh')]
  BY <1>1 DEF Grown, Database
<1>. QED  BY <1>1, <1>2, <1>3, <1>4 DEF Database

\* What the types say of the parts a step reads.
LEMMA Parts ==
    ASSUME TypeOK
    PROVE  /\ db.state \in {"blank", "pending", "ready"} /\ db.id \in Nat /\ db.key \in Nat
           /\ db.chain \in Chain /\ db.chain \in Seq(Nat) /\ Len(db.chain) \in Nat
           /\ anchor.id \in Nat /\ anchor.chain \in Chain /\ anchor.chain \in Seq(Nat)
           /\ Len(anchor.chain) \in Nat
           /\ acked \in Seq(Nat)
           /\ ChainHead \in Anchor /\ initial_anchor(db.id) \in Anchor
           /\ <<>> \in Chain
BY EntryAssumption DEF TypeOK, Database, Anchor, Chain, ChainHead, initial_anchor

\* The invariant holds at the start: neither database nor secrets exist.
THEOREM InitEstablishes == Init => JournalInv
<1>. SUFFICES ASSUME Init PROVE JournalInv
  OBVIOUS
<1>1. <<>> \in Chain /\ <<>> \in Seq(Nat)
  BY EntryAssumption DEF Chain
<1>2. TypeOK
  BY <1>1 DEF Init, TypeOK, Database, Anchor, Blank, NoAnchor, NoKey
<1>3. IsPrefix(acked, anchor.chain)
  BY <1>1, PrefixReflexive DEF Init, NoAnchor
<1>. QED  BY <1>2, <1>3 DEF Init, JournalInv, AnchorTracks

(***************************************************************************)
(* Every step preserves the invariant and moves the anchor forward only.   *)
(***************************************************************************)
\* What a step may do to the anchor.
Forward == anchor # NoAnchor => anchor'.id = anchor.id /\ IsPrefix(anchor.chain, anchor'.chain)

\* A step that leaves database, anchor and acknowledged entries alone only has to
\* be right about the step it leads to.
LEMMA SameStores ==
    ASSUME JournalInv, TypeOK', db' = db, anchor' = anchor, acked' = acked, replaced' = replaced,
           step' = step \/ step' \in {"closed", "poisoned", "verify"}
    PROVE  JournalInv' /\ Forward
<1>1. Forward
  BY Parts, PrefixReflexive DEF Forward, JournalInv
<1>2. AnchorTracks' /\ IsPrefix(acked, anchor.chain)'
  BY DEF JournalInv, AnchorTracks
<1>. QED  BY <1>1, <1>2 DEF JournalInv, initial_anchor

\* The anchor moves to the head of a database that extends it.
LEMMA AnchorToHead ==
    ASSUME JournalInv, TypeOK', db' = db, anchor' = ChainHead, replaced' = replaced,
           anchor.id = db.id, IsPrefix(anchor.chain, db.chain),
           acked' = acked \/ acked' = db.chain,
           step' \in {"open", "closed", "poisoned"}
    PROVE  JournalInv' /\ Forward
<1>1. anchor'.id = db.id /\ anchor'.chain = db.chain
  BY DEF ChainHead
<1>2. IsPrefix(db.chain, db.chain) /\ Len(db.chain) <= Len(db.chain) + 1
  BY Parts, PrefixReflexive DEF JournalInv
<1>3. IsPrefix(acked', db.chain)
  <2>1. IsPrefix(acked, db.chain)
    BY Parts, PrefixTransitive DEF JournalInv
  <2>. QED  BY <2>1, <1>2
<1>4. AnchorTracks'
  BY <1>1, <1>2 DEF AnchorTracks
<1>. QED  BY <1>1, <1>2, <1>3, <1>4 DEF JournalInv, Forward

\* Every step keeps the types.
LEMMA TypePreserved ==
    ASSUME TypeOK, [Next]_vars PROVE TypeOK'
<1>. USE Parts DEF history, secrets
<1>1. CASE InitializeSchema
  BY <1>1 DEF InitializeSchema, TypeOK, Database, InitializationStep
<1>2. CASE RecoverWithoutSecrets
  <2>1. db \in Database /\ fresh' \in Nat /\ db' = [db EXCEPT !.key = fresh']
    BY <1>2 DEF RecoverWithoutSecrets, TypeOK
  <2>2. db' \in Database
    BY <2>1 DEF Database
  <2>. QED  BY <1>2, <2>1, <2>2 DEF RecoverWithoutSecrets, TypeOK, RecoveryStep
<1>3. CASE RecoverWithKey \/ RecoverWithAnchor \/ OpenReady
  BY <1>3 DEF RecoverWithKey, RecoverWithAnchor, OpenReady, TypeOK, RecoveryStep
<1>4. CASE StoreKey("initKey", "initAnchor") \/ StoreKey("recoverKey", "recoverAnchor")
  BY <1>4 DEF StoreKey, TypeOK, RecoveryStep, InitializationStep
<1>5. CASE \/ StoreInitialAnchor("initAnchor", "initReady")
           \/ StoreInitialAnchor("recoverAnchor", "recoverReady")
  BY <1>5 DEF StoreInitialAnchor, TypeOK, RecoveryStep, InitializationStep
<1>6. CASE \/ FinalizeInitialization("initReady", "open")
           \/ FinalizeInitialization("recoverReady", "verify")
  BY <1>6 DEF FinalizeInitialization, TypeOK, Database, RecoveryStep
<1>7. CASE Verify
  BY <1>7 DEF Verify, TypeOK
<1>8. CASE VerifyCommitFails \/ VerifyAnchorFails
  BY <1>8 DEF VerifyCommitFails, VerifyAnchorFails, TypeOK
<1>9. CASE AppendCommit \/ AppendCommitFails
  <2>1. /\ fresh' \in Nat /\ faults' \in Nat /\ Len(db.chain) < MaxEntries
        /\ db' \in {db, Grown} /\ step' \in {"committed", "poisoned"}
        /\ UNCHANGED <<copy, key, anchor, held, trusted, acked, replaced>>
    BY <1>9 DEF AppendCommit, AppendCommitFails, TypeOK
  <2>2. db' \in Database
    BY <2>1, GrownChain DEF TypeOK
  <2>. QED  BY <2>1, <2>2 DEF TypeOK
<1>10. CASE AppendAnchor \/ AppendAnchorFails
  BY <1>10 DEF AppendAnchor, AppendAnchorFails, TypeOK
<1>11. CASE Crash \/ Close
  BY <1>11 DEF Crash, Close, TypeOK
<1>12. CASE TakeCopy \/ PutBack
  BY <1>12 DEF TakeCopy, PutBack, TypeOK
<1>13. CASE UNCHANGED vars
  BY <1>13 DEF vars, TypeOK
<1>. QED
  BY <1>1, <1>2, <1>3, <1>4, <1>5, <1>6, <1>7, <1>8, <1>9, <1>10, <1>11, <1>12, <1>13
  DEF Next, Opening

\* Every step of open, recovery, append and verification, every crash and every
\* replaced database keeps the invariant.
THEOREM StepPreserves ==
    ASSUME JournalInv, [Next]_vars PROVE JournalInv' /\ Forward
<1>. TypeOK /\ TypeOK'
  BY TypePreserved DEF JournalInv
<1>. USE DEF history, secrets
<1>1. CASE InitializeSchema \/ RecoverWithoutSecrets
  <2>1. /\ anchor = NoAnchor /\ anchor' = anchor /\ acked' = acked
        /\ db'.chain = <<>> /\ step' \in {"initKey", "recoverKey"}
    <3>1. CASE InitializeSchema
      BY <3>1 DEF InitializeSchema
    <3>2. CASE RecoverWithoutSecrets
      <4>1. db \in Database /\ db.chain = <<>> /\ db' = [db EXCEPT !.key = fresh']
        BY <3>2 DEF RecoverWithoutSecrets, TypeOK
      <4>2. db'.chain = <<>>
        BY <4>1 DEF Database
      <4>. QED  BY <3>2, <4>2 DEF RecoverWithoutSecrets
    <3>. QED  BY <1>1, <3>1, <3>2
  <2>. QED  BY <2>1 DEF JournalInv, AnchorTracks, Forward
<1>2. CASE RecoverWithKey
  BY <1>2, Parts, PrefixReflexive DEF RecoverWithKey, JournalInv, AnchorTracks, Forward
<1>3. CASE RecoverWithAnchor
  BY <1>3, Parts, PrefixReflexive DEF RecoverWithAnchor, JournalInv, AnchorTracks, Forward, initial_anchor
<1>4. CASE OpenReady
  BY <1>4, SameStores DEF OpenReady
<1>5. CASE StoreKey("initKey", "initAnchor") \/ StoreKey("recoverKey", "recoverAnchor")
  BY <1>5 DEF StoreKey, JournalInv, AnchorTracks, Forward
<1>6. CASE \/ StoreInitialAnchor("initAnchor", "initReady")
           \/ StoreInitialAnchor("recoverAnchor", "recoverReady")
  <2>1. /\ anchor = NoAnchor /\ anchor' = initial_anchor(db.id) /\ acked' = acked
        /\ db' = db /\ db.chain = <<>> /\ step' \in {"initReady", "recoverReady"}
    BY <1>6 DEF StoreInitialAnchor, JournalInv
  <2>2. anchor.chain = <<>> /\ anchor'.chain = <<>> /\ anchor'.id = db.id
    BY <2>1 DEF NoAnchor, initial_anchor
  <2>3. IsPrefix(acked', anchor'.chain)
    BY <2>1, <2>2 DEF JournalInv
  <2>4. AnchorTracks'
    <3>1. anchor'.chain = db.chain
      BY <2>1, <2>2
    <3>2. IsPrefix(db.chain, db.chain) /\ Len(db.chain) <= Len(db.chain) + 1
      BY Parts, PrefixReflexive
    <3>. QED  BY <2>1, <2>2, <3>1, <3>2 DEF AnchorTracks
  <2>. QED  BY <2>1, <2>2, <2>3, <2>4 DEF JournalInv, Forward, initial_anchor
<1>7. CASE \/ FinalizeInitialization("initReady", "open")
           \/ FinalizeInitialization("recoverReady", "verify")
  <2>1. /\ anchor = initial_anchor(db.id) /\ anchor' = anchor /\ acked' = acked
        /\ db.chain = <<>> /\ db' = [db EXCEPT !.state = "ready"]
        /\ step' \in {"open", "verify"} /\ replaced' = replaced
    BY <1>7 DEF FinalizeInitialization, JournalInv
  <2>2. db'.chain = db.chain /\ db'.id = db.id
    BY <2>1 DEF TypeOK, Database
  <2>3. /\ anchor.id = db.id /\ anchor.chain = db.chain
        /\ IsPrefix(anchor.chain, db.chain)
    BY <2>1, Parts, PrefixReflexive DEF initial_anchor
  <2>4. AnchorTracks' /\ Forward
    BY <2>1, <2>2, <2>3, Parts DEF AnchorTracks, Forward
  <2>. QED  BY <2>1, <2>2, <2>3, <2>4 DEF JournalInv
<1>8. CASE Verify
  BY <1>8, AnchorToHead DEF Verify, Readable, validate_anchor
<1>9. CASE VerifyCommitFails
  BY <1>9, AnchorToHead DEF VerifyCommitFails, Readable, validate_anchor
<1>10. CASE VerifyAnchorFails
  <2>1. CASE anchor' = anchor
    BY <1>10, <2>1, SameStores DEF VerifyAnchorFails
  <2>2. CASE anchor' = ChainHead
    BY <1>10, <2>2, AnchorToHead DEF VerifyAnchorFails, Readable, validate_anchor
  <2>. QED  BY <1>10, <2>1, <2>2 DEF VerifyAnchorFails
<1>11. CASE AppendCommit \/ AppendCommitFails
  <2>1. /\ anchor = ChainHead /\ anchor' = anchor /\ acked' = acked /\ replaced' = replaced
        /\ fresh' \in Nat /\ Len(db.chain) < MaxEntries
        /\ \/ step' = "poisoned" /\ (db' = db \/ db' = Grown)
           \/ step' = "committed" /\ db' = Grown
    <3>1. CASE AppendCommit
      BY <3>1 DEF AppendCommit, HeadAgrees, TypeOK
    <3>2. CASE AppendCommitFails
      BY <3>2 DEF AppendCommitFails, HeadAgrees, TypeOK
    <3>. QED  BY <1>11, <3>1, <3>2
  <2>2. anchor.id = db.id /\ anchor.chain = db.chain /\ IsPrefix(db.chain, db.chain)
    BY <2>1, Parts, PrefixReflexive DEF ChainHead
  <2>3. CASE db' = db /\ step' = "poisoned"
    BY <2>1, <2>3, SameStores
  <2>4. CASE db' = Grown
    <3>1. /\ db'.id = db.id /\ IsPrefix(anchor.chain, db'.chain)
          /\ Len(db'.chain) = Len(anchor.chain) + 1
      BY <2>1, <2>2, <2>4, GrownChain
    <3>2. AnchorTracks' /\ Forward
      BY <2>1, <2>2, <3>1, Parts DEF AnchorTracks, Forward
    <3>. QED  BY <2>1, <2>2, <3>1, <3>2 DEF JournalInv
  <2>. QED  BY <2>1, <2>3, <2>4
<1>12. CASE AppendAnchor
  BY <1>12, AnchorToHead DEF AppendAnchor, JournalInv
<1>13. CASE AppendAnchorFails
  <2>1. CASE anchor' = anchor
    BY <1>13, <2>1, SameStores DEF AppendAnchorFails
  <2>2. CASE anchor' = ChainHead
    BY <1>13, <2>2, AnchorToHead DEF AppendAnchorFails, JournalInv
  <2>. QED  BY <1>13, <2>1, <2>2 DEF AppendAnchorFails
<1>14. CASE Crash \/ Close
  BY <1>14, SameStores DEF Crash, Close
<1>15. CASE TakeCopy
  BY <1>15, SameStores DEF TakeCopy
<1>16. CASE PutBack
  BY <1>16, Parts, PrefixReflexive DEF PutBack, JournalInv, AnchorTracks, Forward
<1>17. CASE UNCHANGED vars
  BY <1>17, SameStores DEF vars
<1>. QED
  BY <1>1, <1>2, <1>3, <1>4, <1>5, <1>6, <1>7, <1>8, <1>9, <1>10, <1>11, <1>12, <1>13,
     <1>14, <1>15, <1>16, <1>17
  DEF Next, Opening

\* The invariant that says which store is ahead at every step.
THEOREM JournalInvariant == Spec => []JournalInv
<1>1. JournalInv /\ [Next]_vars => JournalInv'
  BY StepPreserves
<1>. QED  BY InitEstablishes, <1>1, PTL DEF Spec

\* Type correctness of the two stores and of the handle, with the limit on entries.
THEOREM JournalTyped == Spec => []TypeOK
<1>1. JournalInv => TypeOK
  BY DEF JournalInv
<1>. QED  BY JournalInvariant, <1>1, PTL

\* An entry append_expected returned is in every journal that is open.
THEOREM AcknowledgedNeverLost == Spec => []AcknowledgedKept
<1>1. JournalInv => AcknowledgedKept
  <2>. SUFFICES ASSUME JournalInv, step \in {"open", "committed"} PROVE IsPrefix(acked, db.chain)
    BY DEF AcknowledgedKept
  <2>1. IsPrefix(acked, anchor.chain) /\ IsPrefix(anchor.chain, db.chain) /\ TypeOK
    BY DEF JournalInv
  <2>. QED  BY <2>1, Parts, PrefixTransitive
<1>. QED  BY JournalInvariant, <1>1, PTL

\* The anchor is never ahead of an untouched database and at most one entry behind.
THEOREM AnchorNeverAhead == Spec => []AnchorTracks
<1>1. JournalInv => AnchorTracks
  BY DEF JournalInv
<1>. QED  BY JournalInvariant, <1>1, PTL

\* The anchor moves forward along one chain only.
THEOREM AnchorMovesForward == Spec => AnchorOnlyGrows
<1>1. JournalInv /\ [Next]_vars => Forward
  BY StepPreserves
<1>2. JournalInv /\ [Next]_vars => [anchor # NoAnchor => anchor'.id = anchor.id /\ IsPrefix(anchor.chain, anchor'.chain)]_vars
  BY <1>1 DEF Forward
<1>. QED  BY JournalInvariant, <1>2, PTL DEF Spec, AnchorOnlyGrows
=============================================================================

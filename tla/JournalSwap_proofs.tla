------------------------ MODULE JournalSwap_proofs ------------------------
(***************************************************************************)
(* The swap of journal generations: proofs for any number of generations   *)
(* and any number of crashes and failed operations.                        *)
(***************************************************************************)
EXTENDS JournalSwap, TLAPS

(***************************************************************************)
(* The inductive invariant.  A component has its file of the current       *)
(* generation under the active or the backup names, and beside it at most  *)
(* one file of the successor, staged or installed.                         *)
(***************************************************************************)
A(c) == slot["active"][c]
B(c) == slot["backup"][c]
S(c) == slot["staging"][c]
Successor == Current + 1

\* The component is where it was, staged or not; ...
Original(c) == A(c) = Current /\ B(c) = 0 /\ S(c) \in {0, Successor}
\* ... is set aside; ...
Retired(c) == A(c) = 0 /\ B(c) = Current /\ S(c) \in {0, Successor}
\* ... is replaced by its successor.
Replaced(c) == A(c) = Successor /\ B(c) = Current /\ S(c) = 0

DirectoryOk ==
    /\ Current \in filled
    /\ marker = "none" => \A c \in Components : Original(c)
    /\ marker = "PREPARED" =>
        /\ Successor \in filled
        /\ \A c \in Components : Original(c) \/ Retired(c) \/ Replaced(c)
    /\ marker = "COMMITTED" => \A c \in Components : A(c) = Current /\ S(c) = 0

\* What the step that comes next finds.
StagingStep == {"StageCreate", "StageFill", "StageClose", "PrepareTemp", "PrepareRename"}
CommitStep == {"CommitTemp", "CommitRename"}

CompactionOk ==
    /\ step \in StagingStep => marker = "none" /\ handle = "open"
    /\ step = "StageCreate" => Current < MaxGenerations
    /\ step \in StagingStep \ {"StageCreate"} => \A c \in Components : S(c) = Successor
    /\ step \in StagingStep \ {"StageCreate", "StageFill"} => Successor \in filled
    /\ step = "Retire" =>
        /\ marker = "PREPARED" /\ handle = "open"
        /\ \A c \in Components : ~Replaced(c) /\ S(c) = Successor

SwapOk ==
    /\ step = "Install" =>
        /\ marker = "PREPARED"
        /\ \A c \in Components : Replaced(c) \/ (Retired(c) /\ S(c) = Successor)
    /\ step \in {"VerifyOpen", "VerifyClose"} =>
        \/ marker = "COMMITTED" /\ handle = "recovering"
        \/ marker = "PREPARED" /\ \A c \in Components : Replaced(c)
    /\ step \in CommitStep => marker = "PREPARED" /\ \A c \in Components : Replaced(c)
    /\ step = "CleanBackup" => marker = "COMMITTED"
    /\ step = "RemoveMarker" =>
        \/ marker = "COMMITTED" /\ \A c \in Components : B(c) = 0
        \/ marker = "PREPARED" /\ \A c \in Components : Original(c) /\ S(c) = 0

RecoveryOk ==
    /\ step \in {"Recover", "Rollback", "CleanStaging", "Serve"} => handle = "recovering"
    /\ step = "Rollback" => marker = "PREPARED"
    /\ step = "CleanStaging" =>
        /\ marker \in {"none", "PREPARED"}
        /\ \A c \in Components : Original(c)
    /\ step = "Serve" => marker = "none" /\ \A c \in Components : S(c) = 0

HandleOk ==
    /\ step = "idle" => handle # "recovering"
    /\ step # "idle" => handle \in {"open", "recovering"}
    /\ step = "idle" /\ handle = "open" => marker = "none" /\ \A c \in Components : S(c) = 0
    /\ temp => step \in {"PrepareRename", "CommitRename"} \/ handle = "closed"

SwapInv == TypeOK /\ DirectoryOk /\ CompactionOk /\ SwapOk /\ RecoveryOk /\ HandleOk

(***************************************************************************)
(* Facts about the files.                                                  *)
(***************************************************************************)
\* Loops pick a component that is there.
LEMMA FirstIsThere ==
    ASSUME NEW P \in SUBSET Components, P # {}
    PROVE  First(P) \in P /\ First(P) \in Components
BY DEF First, Components

\* A file has a generation, or is not there.
LEMMA FileTypes ==
    ASSUME SwapInv, NEW c \in Components
    PROVE  /\ A(c) \in 0..MaxGenerations /\ B(c) \in 0..MaxGenerations
           /\ S(c) \in 0..MaxGenerations
           /\ Current \in Nat /\ Current # 0 /\ Successor \in Nat /\ Successor # 0
           /\ Successor # Current /\ "database" \in Components
<1>1. Current \in Nat /\ Current # 0
  BY SwapAssumption DEF SwapInv, TypeOK, DirectoryOk
<1>. QED  BY <1>1 DEF SwapInv, TypeOK, A, B, S, Names, Successor, Components

\* Every file is where it was, and so is the current generation.
FilesKept ==
    /\ Current' = Current /\ Successor' = Successor
    /\ \A c \in Components :
        /\ A(c)' = A(c) /\ B(c)' = B(c) /\ S(c)' = S(c)
        /\ Original(c)' = Original(c) /\ Retired(c)' = Retired(c)
        /\ Replaced(c)' = Replaced(c)

\* A step that moves no file and leaves the marker.
LEMMA SameFiles ==
    ASSUME SwapInv, UNCHANGED <<slot, filled, marker>>
    PROVE  DirectoryOk' /\ FilesKept
<1>1. Current' = Current /\ Successor' = Successor
  BY DEF Current, Successor
<1>2. ASSUME NEW c \in Components
      PROVE  /\ A(c)' = A(c) /\ B(c)' = B(c) /\ S(c)' = S(c)
             /\ Original(c)' = Original(c) /\ Retired(c)' = Retired(c)
             /\ Replaced(c)' = Replaced(c)
  BY <1>1 DEF A, B, S, Original, Retired, Replaced
<1>3. DirectoryOk'
  BY <1>1, <1>2 DEF SwapInv, DirectoryOk
<1>. QED  BY <1>1, <1>2, <1>3 DEF FilesKept

\* What a removal and a move leave of the files.
LEMMA RemoveFiles ==
    ASSUME TypeOK, NEW n \in Names, NEW d \in Components, Remove(n, d)
    PROVE  /\ slot' \in [Names -> [Components -> 0..MaxGenerations]]
           /\ \A m \in Names, c \in Components :
                slot'[m][c] = IF m = n /\ c = d THEN 0 ELSE slot[m][c]
BY SwapAssumption DEF TypeOK, Remove

\* The same of a move.
LEMMA MoveFiles ==
    ASSUME TypeOK, NEW m \in Names, NEW n \in Names, m # n, NEW d \in Components, Move(m, n, d)
    PROVE  /\ slot' \in [Names -> [Components -> 0..MaxGenerations]]
           /\ slot[n][d] = 0
           /\ \A k \in Names, c \in Components :
                slot'[k][c] = IF k = m /\ c = d THEN 0
                              ELSE IF k = n /\ c = d THEN slot[m][d] ELSE slot[k][c]
<1>1. slot \in [Names -> [Components -> 0..MaxGenerations]] /\ slot[n][d] = 0
  BY DEF TypeOK, Move
<1>2. PICK e : e = [slot[m] EXCEPT ![d] = 0]
  OBVIOUS
<1>3. PICK f : f = [slot[n] EXCEPT ![d] = slot[m][d]]
  OBVIOUS
<1>4. slot' = [slot EXCEPT ![m] = e, ![n] = f]
  BY <1>1, <1>2, <1>3 DEF Move
<1>5. /\ e \in [Components -> 0..MaxGenerations] /\ f \in [Components -> 0..MaxGenerations]
      /\ \A c \in Components : /\ e[c] = IF c = d THEN 0 ELSE slot[m][c]
                               /\ f[c] = IF c = d THEN slot[m][d] ELSE slot[n][c]
  BY <1>1, <1>2, <1>3, SwapAssumption
<1>6. slot' \in [Names -> [Components -> 0..MaxGenerations]]
  BY <1>1, <1>4, <1>5
<1>7. \A k \in Names : slot'[k] = IF k = m THEN e ELSE IF k = n THEN f ELSE slot[k]
  BY <1>1, <1>4
<1>. QED  BY <1>1, <1>5, <1>6, <1>7

(***************************************************************************)
(* The steps that move no file and leave the marker.                       *)
(***************************************************************************)
\* The invariant at the start: the first generation is there.
LEMMA SwapInit ==
    Init => SwapInv
<1>. SUFFICES ASSUME Init PROVE SwapInv
  OBVIOUS
<1>1. TypeOK
  <2>1. slot \in [Names -> [Components -> 0..MaxGenerations]]
    BY SwapAssumption DEF Init
  <2>2. filled \in SUBSET (1..MaxGenerations) /\ faults \in 0..MaxFaults
    BY SwapAssumption DEF Init
  <2>3. temp \in BOOLEAN
    BY DEF Init
  <2>4. /\ sidecars \in SUBSET {"staging", "backup"} /\ marker \in {"none", "PREPARED", "COMMITTED"}
        /\ handle \in {"closed", "recovering", "open", "failed"} /\ step \in SwapStep \cup {"idle"}
    BY DEF Init
  <2>. QED  BY <2>1, <2>2, <2>3, <2>4 DEF TypeOK
<1>2. Current = 1
  BY DEF Init, Current, Names, Components
<1>3. \A c \in Components : A(c) = 1 /\ B(c) = 0 /\ S(c) = 0
  BY DEF Init, A, B, S, Names
<1>4. DirectoryOk
  BY <1>2, <1>3 DEF Init, DirectoryOk, Original
<1>5. CompactionOk /\ SwapOk /\ RecoveryOk /\ HandleOk
  BY DEF Init, CompactionOk, SwapOk, RecoveryOk, HandleOk, StagingStep, CommitStep
<1>. QED  BY <1>1, <1>4, <1>5 DEF SwapInv

\* The steps of the compaction between the moves.
LEMMA QuietCompaction ==
    ASSUME SwapInv, Begin \/ StageClose \/ PrepareTemp \/ CommitTemp \/ VerifyOpen
    PROVE  SwapInv'
<1>1. UNCHANGED <<slot, filled, marker, faults>>
  BY DEF Begin, StageClose, PrepareTemp, CommitTemp, VerifyOpen, WriteTemp
<1>2. DirectoryOk' /\ FilesKept
  BY <1>1, SameFiles
<1>3. TypeOK /\ CompactionOk /\ SwapOk /\ RecoveryOk /\ HandleOk /\ DirectoryOk
  BY DEF SwapInv
<1>4. CASE Begin
  <2>1. TypeOK'
    BY <1>1, <1>3, <1>4 DEF Begin, TypeOK, SwapStep
  <2>2. CASE Artefacts
    BY <1>1, <1>2, <1>3, <1>4, <2>1, <2>2 DEF Begin, SwapInv, CompactionOk, SwapOk, RecoveryOk,
       HandleOk, StagingStep, CommitStep, FilesKept
  <2>3. CASE ~Artefacts
    <3>1. marker = "none" /\ Current < MaxGenerations
      BY <1>4, <2>3 DEF Begin, Artefacts, Current
    <3>. QED  BY <1>1, <1>2, <1>3, <1>4, <2>1, <2>3, <3>1 DEF Begin, SwapInv, CompactionOk, SwapOk,
              RecoveryOk, HandleOk, StagingStep, CommitStep, FilesKept
  <2>. QED  BY <2>2, <2>3
<1>5. CASE StageClose \/ PrepareTemp
  <2>1. TypeOK'
    BY <1>1, <1>3, <1>5 DEF StageClose, PrepareTemp, WriteTemp, TypeOK, SwapStep
  <2>. QED  BY <1>1, <1>2, <1>3, <1>5, <2>1 DEF StageClose, PrepareTemp, WriteTemp, SwapInv,
            CompactionOk, SwapOk, RecoveryOk, HandleOk, StagingStep, CommitStep, FilesKept
<1>6. CASE CommitTemp \/ VerifyOpen
  <2>1. TypeOK'
    BY <1>1, <1>3, <1>6 DEF CommitTemp, VerifyOpen, WriteTemp, TypeOK, SwapStep
  <2>. QED  BY <1>1, <1>2, <1>3, <1>6, <2>1 DEF CommitTemp, VerifyOpen, WriteTemp, SwapInv,
            CompactionOk, SwapOk, RecoveryOk, HandleOk, StagingStep, CommitStep, FilesKept
<1>. QED  BY <1>4, <1>5, <1>6

\* The verification goes on to the commit, to the rollback, or fails.
LEMMA VerifyCloseInv ==
    ASSUME SwapInv, VerifyClose
    PROVE  SwapInv'
<1>1. UNCHANGED <<slot, filled, marker, temp, faults>>
  BY DEF VerifyClose
<1>2. DirectoryOk' /\ FilesKept
  BY <1>1, SameFiles
<1>3. TypeOK /\ CompactionOk /\ SwapOk /\ RecoveryOk /\ HandleOk /\ DirectoryOk
  BY DEF SwapInv
<1>4. TypeOK'
  BY <1>1, <1>3 DEF VerifyClose, TypeOK, SwapStep
<1>5. /\ step = "VerifyClose" /\ ~temp
      /\ handle \in {"open", "recovering"}
      /\ \/ marker = "COMMITTED" /\ handle = "recovering"
         \/ marker = "PREPARED" /\ \A c \in Components : Replaced(c)
  BY <1>3 DEF VerifyClose, SwapOk, HandleOk
<1>6. \/ step' = "CleanBackup" /\ marker = "COMMITTED" /\ handle' = handle
      \/ step' = "CommitTemp" /\ marker # "COMMITTED" /\ handle' = handle
      \/ step' = "Rollback" /\ handle' = "recovering" /\ marker = "PREPARED"
      \/ step' = "idle" /\ handle' \in {"failed", "closed"}
  BY <1>5 DEF VerifyClose
<1>. QED  BY <1>1, <1>2, <1>4, <1>5, <1>6 DEF SwapInv, CompactionOk, SwapOk, RecoveryOk, HandleOk,
          StagingStep, CommitStep, FilesKept

\* The steps that open and close the handle, and the errors and crashes.
LEMMA HandleInv ==
    ASSUME SwapInv,
           \/ Open \/ Close \/ Crash \/ OperationFails \/ RollForwardFails \/ RecoverRefused
           \/ Serve
    PROVE  SwapInv'
<1>1. UNCHANGED <<slot, filled, marker>>
  BY DEF Open, Close, Crash, OperationFails, RollForwardFails, RecoverRefused, Serve
<1>2. DirectoryOk' /\ FilesKept
  BY <1>1, SameFiles
<1>3. TypeOK /\ CompactionOk /\ SwapOk /\ RecoveryOk /\ HandleOk /\ DirectoryOk
  BY DEF SwapInv
<1>4. faults' \in 0..MaxFaults /\ temp' \in BOOLEAN /\ sidecars' \in SUBSET {"staging", "backup"}
  <2>1. faults' \in 0..MaxFaults
    BY <1>3, SwapAssumption DEF Open, Close, Crash, OperationFails, RollForwardFails, RecoverRefused,
       Serve, Fault, TypeOK
  <2>2. temp' \in BOOLEAN
    BY <1>3 DEF Open, Close, Crash, OperationFails, RollForwardFails, RecoverRefused, Serve, TypeOK
  <2>3. sidecars' \in SUBSET {"staging", "backup"}
    BY <1>3 DEF Open, Close, Crash, OperationFails, RollForwardFails, RecoverRefused, Serve, TypeOK
  <2>. QED  BY <2>1, <2>2, <2>3
<1>5. CASE Open \/ Close \/ Crash \/ RecoverRefused \/ OperationFails
  <2>1. \/ step' = "Recover" /\ handle' = "recovering" /\ temp' = FALSE
        \/ step' = "idle" /\ handle' \in {"closed", "failed"} /\ (temp' => handle' = "closed")
    BY <1>3, <1>5 DEF Open, Close, Crash, OperationFails, RecoverRefused, HandleOk, TypeOK
  <2>2. TypeOK'
    BY <1>1, <1>3, <1>4, <2>1 DEF TypeOK, SwapStep
  <2>. QED  BY <1>1, <1>2, <2>1, <2>2 DEF SwapInv, CompactionOk, SwapOk, RecoveryOk, HandleOk,
            StagingStep, CommitStep, FilesKept
<1>6. CASE RollForwardFails
  <2>1. /\ step' = "Rollback" /\ handle' = "recovering" /\ marker = "PREPARED" /\ temp' = temp
        /\ ~temp
    BY <1>3, <1>6 DEF RollForwardFails, RollForwardTried, HandleOk
  <2>2. TypeOK'
    BY <1>1, <1>3, <1>4, <2>1 DEF TypeOK, SwapStep
  <2>. QED  BY <1>1, <1>2, <2>1, <2>2 DEF SwapInv, CompactionOk, SwapOk, RecoveryOk, HandleOk,
            StagingStep, CommitStep, FilesKept
<1>7. CASE Serve
  <2>1. /\ step' = "idle" /\ handle' \in {"open", "closed"} /\ temp' = temp /\ ~temp
        /\ marker = "none" /\ \A c \in Components : S(c) = 0
    BY <1>3, <1>7 DEF Serve, HandleOk, RecoveryOk
  <2>2. TypeOK'
    BY <1>1, <1>3, <1>4, <2>1 DEF TypeOK, SwapStep
  <2>. QED  BY <1>1, <1>2, <2>1, <2>2 DEF SwapInv, CompactionOk, SwapOk, RecoveryOk, HandleOk,
            StagingStep, CommitStep, FilesKept
<1>. QED  BY <1>5, <1>6, <1>7

\* What recovery knows of the files under one set of names.
LEMMA Presence ==
    ASSUME TypeOK
    PROVE  /\ Present("active") = {c \in Components : A(c) # 0}
           /\ Present("backup") = {c \in Components : B(c) # 0}
           /\ Present("staging") = {c \in Components : S(c) # 0}
BY DEF Present, A, B, S

\* The recovery takes up the swap where the files say it was left.
LEMMA RecoverInv ==
    ASSUME SwapInv, RecoverUnmarked \/ RecoverCommitted \/ RecoverPrepared
    PROVE  SwapInv'
<1>1. /\ UNCHANGED <<slot, filled, sidecars, marker, temp, handle, faults>>
      /\ step = "Recover" /\ ~Refused
  BY DEF RecoverUnmarked, RecoverCommitted, RecoverPrepared, Continue
<1>2. DirectoryOk' /\ FilesKept
  BY <1>1, SameFiles
<1>3. TypeOK /\ CompactionOk /\ SwapOk /\ RecoveryOk /\ HandleOk /\ DirectoryOk
  BY DEF SwapInv
<1>4. handle = "recovering" /\ ~temp
  BY <1>1, <1>3 DEF RecoveryOk, HandleOk
<1>5. \/ step' = "CleanStaging" /\ marker \in {"none", "PREPARED"} /\ \A c \in Components : Original(c)
      \/ step' = "Serve" /\ marker = "none" /\ \A c \in Components : S(c) = 0
      \/ step' = "VerifyOpen" /\ marker = "COMMITTED"
      \/ step' = "CleanBackup" /\ marker = "COMMITTED"
      \/ step' = "VerifyOpen" /\ marker = "PREPARED" /\ \A c \in Components : Replaced(c)
      \/ /\ step' = "Install" /\ marker = "PREPARED"
         /\ \A c \in Components : Replaced(c) \/ (Retired(c) /\ S(c) = Successor)
      \/ step' = "Rollback" /\ marker = "PREPARED"
  <2>1. CASE RecoverUnmarked
    BY <1>3, <2>1, Presence DEF RecoverUnmarked, Continue, Staged, DirectoryOk
  <2>2. CASE RecoverCommitted
    BY <2>2 DEF RecoverCommitted, Continue
  <2>3. CASE RecoverPrepared
    <3>1. /\ marker = "PREPARED"
          /\ \A c \in Components : Original(c) \/ Retired(c) \/ Replaced(c)
      BY <1>3, <2>3 DEF RecoverPrepared, DirectoryOk
    <3>2. CASE Present("backup") = {}
      <4>1. Present("active") = Components
        BY <1>1, <3>1, <3>2 DEF Refused
      <4>2. \A c \in Components : Original(c)
        BY <1>3, <3>1, <3>2, Presence, FileTypes DEF Retired, Replaced
      <4>3. step' = "CleanStaging"
        BY <2>3, <3>2 DEF RecoverPrepared, Continue, Components
      <4>. QED  BY <3>1, <4>2, <4>3
    <3>3. CASE Present("backup") = Components /\ Complementary
      <4>1. ASSUME NEW c \in Components
            PROVE  Replaced(c) \/ (Retired(c) /\ S(c) = Successor)
        <5>1. B(c) # 0 /\ (A(c) # 0 <=> S(c) = 0)
          BY <1>3, <3>3, Presence DEF Complementary, A, S
        <5>. QED  BY <3>1, <5>1 DEF Original, Retired
      <4>2. Present("staging") = {} => \A c \in Components : Replaced(c)
        BY <1>3, <4>1, Presence, FileTypes
      <4>3. step' = IF Present("staging") = {} THEN "VerifyOpen" ELSE "Install"
        BY <2>3, <3>3 DEF RecoverPrepared, Continue, Components
      <4>. QED  BY <3>1, <4>1, <4>2, <4>3
    <3>4. CASE Present("backup") # {} /\ ~(Present("backup") = Components /\ Complementary)
      BY <2>3, <3>1, <3>4 DEF RecoverPrepared, Continue
    <3>. QED  BY <3>2, <3>3, <3>4
  <2>. QED  BY <2>1, <2>2, <2>3
<1>6. TypeOK'
  BY <1>1, <1>3, <1>5 DEF TypeOK, SwapStep
<1>. QED  BY <1>1, <1>2, <1>4, <1>5, <1>6 DEF SwapInv, CompactionOk, SwapOk, RecoveryOk, HandleOk,
          StagingStep, CommitStep, FilesKept

(***************************************************************************)
(* The steps that change the marker.                                       *)
(***************************************************************************)
\* The intent is recorded: the successor is staged, nothing is set aside.
LEMMA PrepareInv ==
    ASSUME SwapInv, PrepareRename
    PROVE  SwapInv' /\ Current' = Current
<1>1. /\ UNCHANGED <<slot, filled, sidecars, handle, faults>> /\ step = "PrepareRename"
      /\ step' = "Retire" /\ marker = "none" /\ marker' = "PREPARED" /\ temp' = FALSE
  BY DEF PrepareRename, RenameTemp
<1>2. TypeOK /\ CompactionOk /\ DirectoryOk
  BY DEF SwapInv
<1>3. /\ handle = "open" /\ Successor \in filled
      /\ \A c \in Components : Original(c) /\ S(c) = Successor
  BY <1>1, <1>2 DEF CompactionOk, StagingStep, DirectoryOk
<1>4. \A c \in Components : A(c)' = A(c) /\ B(c)' = B(c) /\ S(c)' = S(c)
  BY <1>1 DEF A, B, S
<1>5. Current' = Current /\ Successor' = Successor
  <2>1. B("database") = 0 /\ B("database")' = 0
    BY <1>3, <1>4 DEF Original, Components
  <2>. QED  BY <1>1, <2>1 DEF Current, Successor, B
<1>6. \A c \in Components : Original(c)' /\ S(c)' = Successor' /\ ~Replaced(c)'
  <2>1. Current # 0 /\ Successor # Current
    BY FileTypes DEF Components
  <2>. QED  BY <1>3, <1>4, <1>5, <2>1 DEF Original, Replaced
<1>7. TypeOK'
  BY <1>1, <1>2 DEF TypeOK, SwapStep
<1>8. DirectoryOk'
  BY <1>1, <1>2, <1>3, <1>5, <1>6 DEF DirectoryOk
<1>. QED  BY <1>1, <1>3, <1>5, <1>6, <1>7, <1>8 DEF SwapInv, CompactionOk, SwapOk, RecoveryOk,
          HandleOk, StagingStep, CommitStep

\* The commit: from one step to the next the successor is the generation that counts.
LEMMA CommitInv ==
    ASSUME SwapInv, CommitRename
    PROVE  SwapInv' /\ Current' = Current + 1 /\ Current < MaxGenerations
<1>1. /\ UNCHANGED <<slot, filled, sidecars, handle, faults>> /\ step = "CommitRename"
      /\ step' = "CleanBackup" /\ marker = "PREPARED" /\ marker' = "COMMITTED" /\ temp' = FALSE
  BY DEF CommitRename, RenameTemp
<1>2. TypeOK /\ SwapOk /\ DirectoryOk /\ HandleOk
  BY DEF SwapInv
<1>3. Successor \in filled /\ \A c \in Components : Replaced(c)
  BY <1>1, <1>2 DEF SwapOk, CommitStep, DirectoryOk
<1>4. \A c \in Components : A(c)' = Successor /\ S(c)' = 0
  BY <1>1, <1>3 DEF A, S, Replaced
<1>5. Current' = Successor
  BY <1>1, <1>4 DEF Current, A, Components
<1>6. DirectoryOk'
  BY <1>1, <1>3, <1>4, <1>5 DEF DirectoryOk
<1>7. TypeOK'
  BY <1>1, <1>2 DEF TypeOK, SwapStep
<1>8. Current < MaxGenerations
  BY <1>2, <1>3, SwapAssumption, FileTypes DEF TypeOK, Successor, Components
<1>9. handle' \in {"open", "recovering"}
  BY <1>1, <1>2 DEF HandleOk
<1>. QED  BY <1>1, <1>5, <1>6, <1>7, <1>8, <1>9 DEF SwapInv, CompactionOk, SwapOk, RecoveryOk,
          HandleOk, StagingStep, CommitStep, Successor

\* The marker goes when one generation alone is left.
LEMMA RemoveMarkerInv ==
    ASSUME SwapInv, RemoveMarker
    PROVE  SwapInv' /\ Current' = Current
<1>1. /\ UNCHANGED <<slot, filled, sidecars, temp, handle, faults>> /\ step = "RemoveMarker"
      /\ step' = IF handle = "recovering" THEN "Serve" ELSE "idle"
      /\ marker' = "none"
  BY DEF RemoveMarker
<1>2. TypeOK /\ SwapOk /\ DirectoryOk /\ HandleOk
  BY DEF SwapInv
<1>3. \A c \in Components : A(c) = Current /\ B(c) = 0 /\ S(c) = 0
  BY <1>1, <1>2 DEF SwapOk, DirectoryOk, Original
<1>4. Current' = Current
  BY <1>1, <1>3 DEF Current, A, Components
<1>5. \A c \in Components : Original(c)' /\ S(c)' = 0
  BY <1>1, <1>3, <1>4 DEF Original, A, B, S
<1>6. DirectoryOk'
  BY <1>1, <1>2, <1>4, <1>5 DEF DirectoryOk
<1>7. TypeOK'
  BY <1>1, <1>2 DEF TypeOK, SwapStep
<1>8. handle' \in {"open", "recovering"} /\ ~temp'
  BY <1>1, <1>2 DEF HandleOk
<1>. QED  BY <1>1, <1>4, <1>5, <1>6, <1>7, <1>8 DEF SwapInv, CompactionOk, SwapOk, RecoveryOk,
          HandleOk, StagingStep, CommitStep

(***************************************************************************)
(* The steps that move files.                                              *)
(***************************************************************************)
\* A component whose files did not move is where it was.
LEMMA ComponentKept ==
    ASSUME Current' = Current, NEW c \in Components,
           A(c)' = A(c), B(c)' = B(c), S(c)' = S(c)
    PROVE  /\ Original(c)' = Original(c) /\ Retired(c)' = Retired(c) /\ Replaced(c)' = Replaced(c)
           /\ Successor' = Successor
BY DEF Original, Retired, Replaced, Successor

\* The first component of the successor that is not staged yet is staged.
LEMMA StageCreateInv ==
    ASSUME SwapInv, StageCreate
    PROVE  SwapInv' /\ Current' = Current
<1>1. TypeOK /\ CompactionOk /\ DirectoryOk /\ HandleOk
  BY DEF SwapInv
<1>2. /\ step = "StageCreate" /\ marker = "none" /\ handle = "open" /\ Current < MaxGenerations
      /\ ~temp /\ UNCHANGED <<marker, temp, handle, faults>>
      /\ Current = A("database") /\ Current \in Nat
      /\ \A c \in Components : Original(c)
  BY <1>1, FileTypes DEF StageCreate, CompactionOk, StagingStep, HandleOk, Current, A, DirectoryOk,
     Components
<1>3. PICK d \in Components : d = First(Components \ Present("staging"))
  BY DEF First, Components
<1>4. PICK e : e = [slot["staging"] EXCEPT ![d] = Successor]
  OBVIOUS
<1>5. slot' = [slot EXCEPT !["staging"] = e]
  BY <1>2, <1>3, <1>4 DEF StageCreate, Successor, A
<1>6. Successor \in 0..MaxGenerations /\ slot \in [Names -> [Components -> 0..MaxGenerations]]
  BY <1>1, <1>2, SwapAssumption DEF Successor, TypeOK
<1>7. /\ e \in [Components -> 0..MaxGenerations]
      /\ \A c \in Components : e[c] = IF c = d THEN Successor ELSE S(c)
  BY <1>4, <1>6 DEF Names, S
<1>8. slot' \in [Names -> [Components -> 0..MaxGenerations]]
  BY <1>5, <1>6, <1>7
<1>9. \A c \in Components : A(c)' = A(c) /\ B(c)' = B(c) /\ S(c)' = e[c]
  BY <1>5, <1>6 DEF A, B, S, Names
<1>10. Current' = Current /\ Successor' = Successor
  BY <1>2, <1>9 DEF Current, A, Successor, Components
<1>11. \A c \in Components : Original(c)'
  BY <1>2, <1>7, <1>9, <1>10 DEF Original
<1>12. Current \in filled'
  BY <1>1, <1>2 DEF StageCreate, DirectoryOk, A
<1>13. \/ step' = "StageCreate"
       \/ step' = "StageFill" /\ \A c \in Components : S(c)' = Successor'
  <2>1. CASE Components \ Present("staging") = {d}
    <3>1. \A c \in Components : c # d => S(c) # 0
      BY <1>1, <2>1, Presence
    <3>. QED  BY <1>2, <1>3, <1>7, <1>9, <1>10, <2>1, <3>1 DEF StageCreate, Original
  <2>2. CASE Components \ Present("staging") # {d}
    BY <1>2, <1>3, <2>2 DEF StageCreate
  <2>. QED  BY <2>1, <2>2
<1>14. TypeOK'
  <2>1. filled' \in SUBSET (1..MaxGenerations) /\ sidecars' \in SUBSET {"staging", "backup"}
    BY <1>1 DEF StageCreate, TypeOK
  <2>. QED  BY <1>1, <1>2, <1>8, <1>13, <2>1 DEF TypeOK, SwapStep
<1>15. DirectoryOk'
  BY <1>2, <1>10, <1>11, <1>12 DEF DirectoryOk
<1>. QED  BY <1>2, <1>10, <1>11, <1>13, <1>14, <1>15 DEF SwapInv, CompactionOk, SwapOk, RecoveryOk,
          HandleOk, StagingStep, CommitStep

\* The snapshot is written.
LEMMA StageFillInv ==
    ASSUME SwapInv, StageFill
    PROVE  SwapInv' /\ Current' = Current
<1>1. TypeOK /\ CompactionOk /\ DirectoryOk /\ HandleOk
  BY DEF SwapInv
<1>2. /\ step = "StageFill" /\ marker = "none" /\ handle = "open" /\ ~temp /\ step' = "StageClose"
      /\ UNCHANGED <<slot, sidecars, marker, temp, handle, faults>>
      /\ \A c \in Components : Original(c) /\ S(c) = Successor
  BY <1>1 DEF StageFill, CompactionOk, StagingStep, HandleOk, DirectoryOk
<1>3. Current' = Current /\ Successor' = Successor
  BY <1>2 DEF Current, Successor
<1>4. \A c \in Components : Original(c)' /\ S(c)' = Successor'
  BY <1>2, <1>3 DEF Original, A, B, S
<1>5. filled' = filled \cup {Successor}
  BY <1>2 DEF StageFill, S, Components
<1>6. Successor \in 1..MaxGenerations
  BY <1>2, FileTypes, SwapAssumption DEF Components
<1>7. TypeOK' /\ DirectoryOk'
  BY <1>1, <1>2, <1>3, <1>4, <1>5, <1>6 DEF TypeOK, SwapStep, DirectoryOk
<1>. QED  BY <1>2, <1>3, <1>4, <1>5, <1>7 DEF SwapInv, CompactionOk, SwapOk, RecoveryOk, HandleOk,
          StagingStep, CommitStep

\* One component after the other is set aside.
LEMMA RetireInv ==
    ASSUME SwapInv, Retire
    PROVE  SwapInv' /\ Current' = Current
<1>1. TypeOK /\ CompactionOk /\ DirectoryOk /\ HandleOk
  BY DEF SwapInv
<1>2. /\ step = "Retire" /\ marker = "PREPARED" /\ handle = "open" /\ ~temp
      /\ UNCHANGED <<filled, sidecars, marker, temp, handle, faults>>
      /\ Present("active") # {}
      /\ \A c \in Components : (Original(c) \/ Retired(c)) /\ S(c) = Successor
  BY <1>1 DEF Retire, MoveGeneration, CompactionOk, HandleOk, DirectoryOk
<1>3. PICK d \in Components : d = First(Present("active")) /\ A(d) # 0
  BY <1>1, <1>2, FirstIsThere, Presence
<1>4. /\ Move("active", "backup", d)
      /\ step' = IF Present("active") = {d} THEN "Install" ELSE "Retire"
  BY <1>2, <1>3 DEF Retire, MoveGeneration
<1>5. /\ slot' \in [Names -> [Components -> 0..MaxGenerations]]
      /\ B(d) = 0
      /\ A(d)' = 0 /\ B(d)' = A(d) /\ S(d)' = S(d)
      /\ \A c \in Components : c # d => A(c)' = A(c) /\ B(c)' = B(c) /\ S(c)' = S(c)
  BY <1>1, <1>4, MoveFiles DEF Names, A, B, S
<1>6. Original(d)
  BY <1>2, <1>3 DEF Retired
<1>7. Current' = Current /\ Successor' = Successor
  <2>0. Current = IF B("database") # 0 THEN B("database") ELSE A("database")
    BY <1>2 DEF Current, A, B
  <2>1. Current' = IF B("database")' # 0 THEN B("database")' ELSE A("database")'
    BY <1>2 DEF Current, A, B
  <2>2. CASE d = "database"
    BY <1>3, <1>5, <2>0, <2>1, <2>2 DEF A, B, Successor
  <2>3. CASE d # "database"
    BY <1>5, <2>0, <2>1, <2>3 DEF Components, A, B, Successor
  <2>. QED  BY <2>2, <2>3
<1>8. Retired(d)' /\ S(d)' = Successor'
  BY <1>2, <1>5, <1>6, <1>7 DEF Original, Retired
<1>9. \A c \in Components : (Original(c)' \/ Retired(c)') /\ S(c)' = Successor'
  BY <1>2, <1>5, <1>7, <1>8 DEF Original, Retired
<1>10. \A c \in Components : ~Replaced(c)'
  BY <1>7, <1>9, FileTypes DEF Replaced
<1>11. step' = "Install" => \A c \in Components : Retired(c)'
  <2>. SUFFICES ASSUME step' = "Install", NEW c \in Components, c # d PROVE A(c)' = 0
    <3>1. Current' # 0
      BY <1>7, FileTypes
    <3>. QED  BY <1>8, <1>9, <3>1 DEF Original
  <2>. QED  BY <1>1, <1>4, <1>5, Presence
<1>12. TypeOK' /\ DirectoryOk'
  BY <1>1, <1>2, <1>4, <1>5, <1>7, <1>9 DEF TypeOK, SwapStep, DirectoryOk
<1>13. step' \in {"Install", "Retire"}
  BY <1>4
<1>. QED  BY <1>2, <1>7, <1>9, <1>10, <1>11, <1>12, <1>13 DEF SwapInv, CompactionOk, SwapOk,
          RecoveryOk, HandleOk, StagingStep, CommitStep

\* One component after the other is replaced.
LEMMA InstallInv ==
    ASSUME SwapInv, Install
    PROVE  SwapInv' /\ Current' = Current
<1>1. TypeOK /\ SwapOk /\ DirectoryOk /\ HandleOk
  BY DEF SwapInv
<1>2. /\ step = "Install" /\ marker = "PREPARED" /\ handle \in {"open", "recovering"} /\ ~temp
      /\ UNCHANGED <<filled, sidecars, marker, temp, handle, faults>>
      /\ Present("staging") # {}
      /\ \A c \in Components : Replaced(c) \/ (Retired(c) /\ S(c) = Successor)
  BY <1>1 DEF Install, MoveGeneration, SwapOk, HandleOk, DirectoryOk
<1>3. PICK d \in Components : d = First(Present("staging")) /\ S(d) # 0
  BY <1>1, <1>2, FirstIsThere, Presence
<1>4. /\ Move("staging", "active", d)
      /\ step' = IF Present("staging") = {d} THEN "VerifyOpen" ELSE "Install"
  BY <1>2, <1>3 DEF Install, MoveGeneration
<1>5. /\ slot' \in [Names -> [Components -> 0..MaxGenerations]]
      /\ S(d)' = 0 /\ A(d)' = S(d) /\ B(d)' = B(d)
      /\ \A c \in Components : c # d => A(c)' = A(c) /\ B(c)' = B(c) /\ S(c)' = S(c)
  BY <1>1, <1>4, MoveFiles DEF Names, A, B, S
<1>6. Retired(d) /\ S(d) = Successor
  BY <1>2, <1>3 DEF Replaced
<1>7. Current' = Current /\ Successor' = Successor
  <2>1. B("database")' = B("database") /\ B("database") # 0
    BY <1>2, <1>5, FileTypes DEF Replaced, Retired, Components
  <2>. QED  BY <1>2, <2>1 DEF Current, B, Successor
<1>8. Replaced(d)'
  BY <1>5, <1>6, <1>7 DEF Retired, Replaced
<1>9. \A c \in Components : Replaced(c)' \/ (Retired(c)' /\ S(c)' = Successor')
  BY <1>2, <1>5, <1>7, <1>8 DEF Replaced, Retired
<1>10. step' = "VerifyOpen" => \A c \in Components : Replaced(c)'
  <2>. SUFFICES ASSUME step' = "VerifyOpen", NEW c \in Components, c # d PROVE S(c)' = 0
    <3>1. Successor' # 0
      BY <1>7, FileTypes
    <3>. QED  BY <1>8, <1>9, <3>1
  <2>. QED  BY <1>1, <1>4, <1>5, Presence
<1>11. TypeOK' /\ DirectoryOk'
  BY <1>1, <1>2, <1>4, <1>5, <1>7, <1>9 DEF TypeOK, SwapStep, DirectoryOk
<1>12. step' \in {"VerifyOpen", "Install"}
  BY <1>4
<1>. QED  BY <1>2, <1>7, <1>9, <1>10, <1>11, <1>12 DEF SwapInv, CompactionOk, SwapOk, RecoveryOk,
          HandleOk, StagingStep, CommitStep

\* The files of the backup go after the commit.
LEMMA CleanBackupInv ==
    ASSUME SwapInv, CleanBackup
    PROVE  SwapInv' /\ Current' = Current
<1>1. TypeOK /\ SwapOk /\ DirectoryOk /\ HandleOk
  BY DEF SwapInv
<1>2. /\ step = "CleanBackup" /\ marker = "COMMITTED" /\ handle \in {"open", "recovering"} /\ ~temp
      /\ UNCHANGED <<filled, marker, temp, handle, faults>>
      /\ \A c \in Components : A(c) = Current /\ S(c) = 0
  BY <1>1 DEF CleanBackup, SwapOk, HandleOk, DirectoryOk
<1>3. /\ slot' \in [Names -> [Components -> 0..MaxGenerations]]
      /\ \A c \in Components : A(c)' = A(c) /\ S(c)' = S(c)
  <2>1. CASE UNCHANGED slot
    BY <1>1, <2>1 DEF TypeOK, A, S
  <2>2. CASE Present("backup") # {} /\ Remove("backup", First(Present("backup")))
    <3>1. PICK d \in Components : d = First(Present("backup"))
      BY <1>1, <2>2, FirstIsThere, Presence
    <3>. QED  BY <1>1, <2>2, <3>1, RemoveFiles DEF Names, A, S
  <2>. QED  BY <2>1, <2>2 DEF CleanBackup
<1>4. sidecars' \in SUBSET {"staging", "backup"}
  BY <1>1 DEF CleanBackup, TypeOK
<1>5. \/ step' = "CleanBackup"
      \/ step' = "RemoveMarker" /\ UNCHANGED slot /\ Present("backup") = {}
  BY <1>2 DEF CleanBackup
<1>6. step' = "RemoveMarker" => \A c \in Components : B(c)' = 0
  BY <1>1, <1>5, Presence DEF B
<1>7. Current' = Current
  BY <1>2, <1>3 DEF Current, A, Components
<1>8. TypeOK' /\ DirectoryOk'
  BY <1>1, <1>2, <1>3, <1>4, <1>5, <1>7 DEF TypeOK, SwapStep, DirectoryOk
<1>. QED  BY <1>2, <1>5, <1>6, <1>7, <1>8 DEF SwapInv, CompactionOk, SwapOk, RecoveryOk, HandleOk,
          StagingStep, CommitStep

\* The staged files go, with or without the marker of the swap.
LEMMA CleanStagingInv ==
    ASSUME SwapInv, CleanStaging
    PROVE  SwapInv' /\ Current' = Current
<1>1. TypeOK /\ RecoveryOk /\ DirectoryOk /\ HandleOk
  BY DEF SwapInv
<1>2. /\ step = "CleanStaging" /\ marker \in {"none", "PREPARED"} /\ handle = "recovering" /\ ~temp
      /\ UNCHANGED <<filled, marker, temp, handle, faults>>
      /\ \A c \in Components : Original(c)
  BY <1>1 DEF CleanStaging, RecoveryOk, HandleOk
<1>3. /\ slot' \in [Names -> [Components -> 0..MaxGenerations]]
      /\ \A c \in Components : A(c)' = A(c) /\ B(c)' = B(c) /\ S(c)' \in {0, S(c)}
  <2>1. CASE UNCHANGED slot
    BY <1>1, <2>1 DEF TypeOK, A, B, S
  <2>2. CASE Present("staging") # {} /\ Remove("staging", First(Present("staging")))
    <3>1. PICK d \in Components : d = First(Present("staging"))
      BY <1>1, <2>2, FirstIsThere, Presence
    <3>. QED  BY <1>1, <2>2, <3>1, RemoveFiles DEF Names, A, B, S
  <2>. QED  BY <2>1, <2>2 DEF CleanStaging
<1>4. sidecars' \in SUBSET {"staging", "backup"}
  BY <1>1 DEF CleanStaging, TypeOK
<1>5. \/ step' = "CleanStaging"
      \/ step' = "RemoveMarker" /\ UNCHANGED slot /\ Present("staging") = {} /\ marker = "PREPARED"
      \/ step' = "Serve" /\ UNCHANGED slot /\ Present("staging") = {} /\ marker = "none"
  BY <1>2 DEF CleanStaging
<1>6. step' # "CleanStaging" => \A c \in Components : S(c)' = 0
  BY <1>1, <1>5, Presence DEF S
<1>7. Current' = Current /\ Successor' = Successor
  <2>1. B("database") = 0 /\ B("database")' = 0 /\ A("database")' = A("database")
    BY <1>2, <1>3 DEF Original, Components
  <2>. QED  BY <1>2, <2>1 DEF Current, A, B, Successor
<1>8. \A c \in Components : Original(c)'
  BY <1>2, <1>3, <1>7 DEF Original
<1>9. TypeOK' /\ DirectoryOk'
  BY <1>1, <1>2, <1>3, <1>4, <1>5, <1>7, <1>8 DEF TypeOK, SwapStep, DirectoryOk
<1>. QED  BY <1>2, <1>5, <1>6, <1>7, <1>8, <1>9 DEF SwapInv, CompactionOk, SwapOk, RecoveryOk,
          HandleOk, StagingStep, CommitStep

\* The rollback takes one component at a time back to where it was.
LEMMA RollbackInv ==
    ASSUME SwapInv, Rollback
    PROVE  SwapInv' /\ Current' = Current
<1>. DEFINE open == {c \in Components : \/ slot["backup"][c] # 0 \/ slot["staging"][c] # 0
                                        \/ slot["active"][c] = 0}
            d == First(open)
<1>1. TypeOK /\ RecoveryOk /\ DirectoryOk /\ HandleOk
  BY DEF SwapInv
<1>2. /\ step = "Rollback" /\ marker = "PREPARED" /\ handle = "recovering" /\ ~temp
      /\ UNCHANGED <<filled, sidecars, marker, temp, faults>>
      /\ Successor \in filled
      /\ \A c \in Components : Original(c) \/ Retired(c) \/ Replaced(c)
  BY <1>1 DEF Rollback, RecoveryOk, HandleOk, DirectoryOk
<1>3. Current = IF B("database") # 0 THEN B("database") ELSE A("database")
  BY <1>2 DEF Current, A, B
<1>4. Current' = IF B("database")' # 0 THEN B("database")' ELSE A("database")'
  BY <1>2 DEF Current, A, B
<1>5. Current \in Nat /\ Current # 0 /\ Successor # 0 /\ "database" \in Components
  BY FileTypes DEF Components
<1>6. CASE open = {}
  <2>1. step' = "CleanStaging" /\ UNCHANGED <<slot, handle>>
    BY <1>6 DEF Rollback
  <2>2. DirectoryOk' /\ FilesKept
    BY <1>2, <2>1, SameFiles
  <2>3. \A c \in Components : Original(c)
    BY <1>2, <1>5, <1>6 DEF Retired, Replaced, A, B, S
  <2>4. TypeOK'
    BY <1>1, <1>2, <2>1 DEF TypeOK, SwapStep
  <2>. QED  BY <1>2, <2>1, <2>2, <2>3, <2>4 DEF SwapInv, CompactionOk, SwapOk, RecoveryOk, HandleOk,
            StagingStep, CommitStep, FilesKept
<1>7. ASSUME open # {} PROVE d \in Components
  BY <1>7, FirstIsThere
<1>8. ASSUME NEW e \in Components, UNCHANGED <<step, handle>>,
             slot' \in [Names -> [Components -> 0..MaxGenerations]],
             \A c \in Components : c # e => A(c)' = A(c) /\ B(c)' = B(c) /\ S(c)' = S(c),
             \/ A(e)' = 0 /\ B(e)' = Current /\ S(e)' \in {0, Successor} /\ B(e) = Current
             \/ A(e)' = Current /\ B(e)' = 0 /\ S(e)' \in {0, Successor}
      PROVE  SwapInv' /\ Current' = Current
  <2>1. Current' = Current /\ Successor' = Successor
    <3>1. CASE e = "database"
      BY <1>3, <1>4, <1>5, <1>8, <3>1 DEF A, B, Successor
    <3>2. CASE e # "database"
      BY <1>3, <1>4, <1>5, <1>8, <3>2 DEF A, B, Successor
    <3>. QED  BY <3>1, <3>2
  <2>2. Original(e)' \/ Retired(e)'
    BY <1>8, <2>1 DEF Original, Retired
  <2>3. \A c \in Components : Original(c)' \/ Retired(c)' \/ Replaced(c)'
    BY <1>2, <1>8, <2>1, <2>2, ComponentKept
  <2>4. TypeOK' /\ DirectoryOk'
    BY <1>1, <1>2, <1>8, <2>1, <2>3 DEF TypeOK, SwapStep, DirectoryOk
  <2>. QED  BY <1>2, <1>8, <2>1, <2>4 DEF SwapInv, CompactionOk, SwapOk, RecoveryOk, HandleOk,
            StagingStep, CommitStep
<1>9. CASE open # {} /\ slot["backup"][d] # 0 /\ slot["active"][d] # 0
  <2>1. Remove("active", d) /\ UNCHANGED <<step, handle>>
    BY <1>9 DEF Rollback
  <2>2. PICK e \in Components : e = d
    BY <1>7, <1>9
  <2>3. Remove("active", e) /\ Replaced(e)
    BY <1>2, <1>9, <2>1, <2>2 DEF Original, Retired, A, B
  <2>4. /\ slot' \in [Names -> [Components -> 0..MaxGenerations]]
        /\ A(e)' = 0 /\ B(e)' = B(e) /\ S(e)' = S(e)
        /\ \A c \in Components : c # e => A(c)' = A(c) /\ B(c)' = B(c) /\ S(c)' = S(c)
    BY <1>1, <2>3, RemoveFiles DEF Names, A, B, S
  <2>. QED  BY <1>8, <2>1, <2>3, <2>4 DEF Replaced
<1>10. CASE open # {} /\ slot["backup"][d] # 0 /\ slot["active"][d] = 0
  <2>1. Move("backup", "active", d) /\ UNCHANGED <<step, handle>>
    BY <1>10 DEF Rollback
  <2>2. PICK e \in Components : e = d
    BY <1>7, <1>10
  <2>3. Move("backup", "active", e) /\ Retired(e)
    BY <1>2, <1>5, <1>10, <2>1, <2>2 DEF Original, Replaced, A, B
  <2>4. /\ slot' \in [Names -> [Components -> 0..MaxGenerations]]
        /\ A(e)' = B(e) /\ B(e)' = 0 /\ S(e)' = S(e)
        /\ \A c \in Components : c # e => A(c)' = A(c) /\ B(c)' = B(c) /\ S(c)' = S(c)
    BY <1>1, <2>3, MoveFiles DEF Names, A, B, S
  <2>. QED  BY <1>8, <2>1, <2>3, <2>4 DEF Retired
<1>11. CASE open # {} /\ slot["backup"][d] = 0
  <2>2. PICK e \in Components : e = d
    BY <1>7, <1>11
  <2>3. Original(e) /\ slot["active"][e] # 0
    BY <1>2, <1>5, <1>11, <2>2 DEF Original, Retired, Replaced, A, B
  <2>4. Remove("staging", e) /\ UNCHANGED <<step, handle>>
    BY <1>11, <2>2, <2>3 DEF Rollback
  <2>5. /\ slot' \in [Names -> [Components -> 0..MaxGenerations]]
        /\ A(e)' = A(e) /\ B(e)' = B(e) /\ S(e)' = 0
        /\ \A c \in Components : c # e => A(c)' = A(c) /\ B(c)' = B(c) /\ S(c)' = S(c)
    BY <1>1, <2>4, RemoveFiles DEF Names, A, B, S
  <2>. QED  BY <1>8, <2>3, <2>4, <2>5 DEF Original
<1>. QED  BY <1>6, <1>9, <1>10, <1>11

(***************************************************************************)
(* The theorems.                                                           *)
(***************************************************************************)
\* Every step keeps the invariant.
LEMMA SwapNext ==
    SwapInv /\ [Next]_vars => SwapInv'
<1>. SUFFICES ASSUME SwapInv, [Next]_vars PROVE SwapInv'
  OBVIOUS
<1>1. CASE Begin \/ Open \/ Close \/ OperationFails \/ RollForwardFails \/ Crash
  BY <1>1, QuietCompaction, HandleInv
<1>2. CASE CompactionStep
  BY <1>2, QuietCompaction, StageCreateInv, StageFillInv, PrepareInv, RetireInv DEF CompactionStep
<1>3. CASE SharedStep
  BY <1>3, QuietCompaction, InstallInv, VerifyCloseInv, CommitInv, CleanBackupInv, RemoveMarkerInv
     DEF SharedStep
<1>4. CASE RecoveryStep
  BY <1>4, HandleInv, RecoverInv, RollbackInv, CleanStagingInv DEF RecoveryStep
<1>5. CASE UNCHANGED vars
  <2>1. /\ UNCHANGED <<slot, filled, marker>> /\ UNCHANGED <<sidecars, temp, handle, step, faults>>
    BY <1>5 DEF vars
  <2>2. DirectoryOk' /\ FilesKept
    BY <2>1, SameFiles
  <2>3. TypeOK'
    BY <2>1 DEF SwapInv, TypeOK
  <2>. QED  BY <2>1, <2>2, <2>3 DEF SwapInv, CompactionOk, SwapOk, RecoveryOk, HandleOk, FilesKept
<1>. QED  BY <1>1, <1>2, <1>3, <1>4, <1>5 DEF Next, Progress

\* The invariant of the swap: where the files of the current generation and of its
\* successor are, at every step, after every crash, and in every recovery.
THEOREM SwapInvariant ==
    Spec => []SwapInv
<1>. QED  BY SwapInit, SwapNext, PTL DEF Spec

\* No window of the swap or of its recovery loses a file of the generation that counts,
\* and a handle that serves requests has all of it under the active names.
THEOREM GenerationNeverLost ==
    Spec => []GenerationSurvives
<1>1. SwapInv => GenerationSurvives
  <2>. SUFFICES ASSUME SwapInv PROVE GenerationSurvives
    OBVIOUS
  <2>1. TypeOK /\ DirectoryOk /\ HandleOk
    BY DEF SwapInv
  <2>2. \A c \in Components : A(c) = Current \/ B(c) = Current
    BY <2>1 DEF DirectoryOk, TypeOK, Original, Retired, Replaced
  <2>3. ASSUME handle = "open", step = "idle"
        PROVE  /\ Whole("active") /\ Present("staging") = {} /\ Present("backup") = {}
               /\ marker = "none" /\ ~temp
    <3>1. marker = "none" /\ ~temp /\ \A c \in Components : Original(c) /\ S(c) = 0
      BY <2>1, <2>3 DEF DirectoryOk, HandleOk
    <3>2. Whole("active")
      BY <2>1, <3>1 DEF Whole, DirectoryOk, Original, A
    <3>. QED  BY <2>1, <3>1, <3>2, Presence DEF Original
  <2>. QED  BY <2>1, <2>2, <2>3 DEF GenerationSurvives, DirectoryOk, A, B
<1>. QED  BY <1>1, SwapInvariant, PTL

\* Only the commit changes the generation that counts.
LEMMA CurrentKept ==
    ASSUME SwapInv, [Next]_vars, ~CommitRename
    PROVE  Current' = Current
<1>1. CASE \/ Begin \/ StageClose \/ PrepareTemp \/ CommitTemp \/ VerifyOpen \/ VerifyClose
           \/ Open \/ Close \/ Crash \/ OperationFails \/ RollForwardFails \/ Serve
           \/ UNCHANGED vars
  <2>1. UNCHANGED <<slot, filled, marker>>
    BY <1>1 DEF Begin, StageClose, PrepareTemp, CommitTemp, WriteTemp, VerifyOpen, VerifyClose, Open,
       Close, Crash, OperationFails, RollForwardFails, Serve, vars
  <2>. QED  BY <2>1 DEF Current
<1>2. CASE RecoverRefused \/ RecoverUnmarked \/ RecoverCommitted \/ RecoverPrepared
  <2>1. UNCHANGED <<slot, filled, marker>>
    BY <1>2 DEF RecoverRefused, RecoverUnmarked, RecoverCommitted, RecoverPrepared, Continue
  <2>. QED  BY <2>1 DEF Current
<1>3. CASE \/ StageCreate \/ StageFill \/ PrepareRename \/ Retire \/ Install \/ CleanBackup
           \/ RemoveMarker \/ Rollback \/ CleanStaging
  BY <1>3, StageCreateInv, StageFillInv, PrepareInv, RetireInv, InstallInv, CleanBackupInv,
     RemoveMarkerInv, RollbackInv, CleanStagingInv
<1>. QED  BY <1>1, <1>2, <1>3 DEF Next, Progress, CompactionStep, SharedStep, RecoveryStep

\* The generation the handle serves, in the words of the atomic switch.
Serving == IF handle = "open" /\ step = "idle" THEN slot["active"]["database"] ELSE 0

\* A handle that serves serves the current generation.
LEMMA ServesCurrent ==
    SwapInv => Serving \in {0, Current} /\ Current # 0 /\ Current \in Nat
<1>. SUFFICES ASSUME SwapInv PROVE Serving \in {0, Current} /\ Current # 0 /\ Current \in Nat
  OBVIOUS
<1>1. Current # 0 /\ Current \in Nat /\ "database" \in Components
  BY FileTypes DEF Components
<1>2. handle = "open" /\ step = "idle" => A("database") = Current
  BY <1>1 DEF SwapInv, HandleOk, DirectoryOk, Original
<1>. QED  BY <1>1, <1>2 DEF Serving, A

\* Every step of the swap is a step of the atomic switch, or none.
LEMMA SwapStepIsSwitch ==
    SwapInv /\ SwapInv' /\ [Next]_vars => [Switch!Next]_<<Current, Serving>>
<1>. SUFFICES ASSUME SwapInv, SwapInv', [Next]_vars PROVE [Switch!Next]_<<Current, Serving>>
  OBVIOUS
<1>1. Serving \in {0, Current} /\ Current # 0
  BY ServesCurrent
<1>2. Serving' \in {0, Current'} /\ Current' # 0
  <2>1. (SwapInv => Serving \in {0, Current} /\ Current # 0 /\ Current \in Nat)'
    BY ServesCurrent, PTL
  <2>. QED  BY <2>1
<1>3. CASE CommitRename
  <2>1. Current' = Current + 1 /\ Current < MaxGenerations
    BY <1>3, CommitInv
  <2>2. Serving = 0 /\ Serving' = 0
    BY <1>3 DEF CommitRename, RenameTemp, Serving
  <2>. QED  BY <2>1, <2>2 DEF Switch!Next, Switch!Switch, Serving
<1>4. CASE ~CommitRename
  <2>1. Current' = Current
    BY <1>4, CurrentKept
  <2>2. \/ Serving' = Serving
        \/ Serving = 0 /\ Serving' = Current
        \/ Serving # 0 /\ Serving' = 0
    BY <1>1, <1>2, <2>1
  <2>. QED  BY <2>1, <2>2 DEF Switch!Next, Switch!Serve, Switch!Drop, Serving
<1>. QED  BY <1>3, <1>4

\* The swap, file by file and with its recoveries, implements the atomic switch that the
\* store takes a compaction for.
THEOREM SwapImplementsSwitch ==
    Spec => SwapIsSwitch
<1>1. Init => Switch!Init
  BY DEF Init, Switch!Init, Current, Names, Components
<1>2. Spec => [][Switch!Next]_<<Current, Serving>>
  BY SwapInvariant, SwapStepIsSwitch, PTL DEF Spec
<1>. QED  BY <1>1, <1>2, PTL DEF Spec, SwapIsSwitch, Switch!Spec, Serving

=============================================================================

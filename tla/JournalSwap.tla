---------------------------- MODULE JournalSwap ----------------------------
(***************************************************************************)
(* The swap of journal generations at a compaction of the Repair Vault     *)
(* store (crates/rescue-secrets/src/repair_store.rs): the files moved by   *)
(* compact_journal_until one by one, and recover_journal_compaction, which *)
(* completes or undoes an interrupted swap when the store is opened again. *)
(*                                                                         *)
(* A generation consists of a database, a key and an anchor file, and lies *)
(* under one of three sets of names.  All names are in one directory that  *)
(* is synchronized after every change, so a power loss undoes at most the  *)
(* last change and leaves what a crash one step earlier leaves.  What the  *)
(* generations hold is the subject of RepairStore.                         *)
(***************************************************************************)
EXTENDS Naturals, FiniteSets

CONSTANTS
    MaxGenerations,  \* bound: number of journal generations
    MaxFaults        \* bound: number of crashes and failed operations

ASSUME SwapAssumption == MaxGenerations \in Nat \ {0} /\ MaxFaults \in Nat

VARIABLES
    slot,      \* the generation whose files lie under a set of names, 0: no file
    filled,    \* the generations whose snapshot is completely written
    sidecars,  \* the names with write-ahead log files beside the database
    marker,    \* the compaction intent file
    temp,      \* the temporary file of the marker is there
    handle,    \* the store handle
    step,      \* the next step of the compaction or of the recovery
    faults     \* crashes and failed operations so far

vars == <<slot, filled, sidecars, marker, temp, handle, step, faults>>

Names == {"active", "staging", "backup"}
Components == {"database", "key", "anchor"}

SwapStep ==
    {"StageCreate", "StageFill", "StageClose", "PrepareTemp", "PrepareRename",
     "Retire", "Install", "VerifyOpen", "VerifyClose", "CommitTemp", "CommitRename",
     "CleanBackup", "RemoveMarker", "Recover", "Rollback", "CleanStaging", "Serve"}

\* generation_presence
Present(n) == {c \in Components : slot[n][c] # 0}

\* Every loop over a generation goes through database, key and anchor.
First(components) ==
    IF "database" \in components THEN "database"
    ELSE IF "key" \in components THEN "key" ELSE "anchor"

\* The files under a set of names are one completely written generation.
Whole(n) == \E g \in filled : \A c \in Components : slot[n][c] = g

Artefacts ==
    Present("staging") # {} \/ Present("backup") # {} \/ sidecars # {}
    \/ marker # "none" \/ temp

Init ==
    /\ slot = [n \in Names |-> [c \in Components |-> IF n = "active" THEN 1 ELSE 0]]
    /\ filled = {1}
    /\ sidecars = {} /\ marker = "none" /\ temp = FALSE
    /\ handle = "closed" /\ step = "idle" /\ faults = 0

(***************************************************************************)
(* File operations: each is one durable change of the directory.           *)
(***************************************************************************)
Move(from, to, c) ==
    /\ slot[to][c] = 0
    /\ slot' = [slot EXCEPT ![from][c] = 0, ![to][c] = slot[from][c]]

Remove(n, c) == slot' = [slot EXCEPT ![n][c] = 0]

MoveGeneration(at, from, to, next) ==
    /\ step = at
    /\ Present(from) # {}
    /\ Move(from, to, First(Present(from)))
    /\ step' = IF Present(from) = {First(Present(from))} THEN next ELSE at
    /\ UNCHANGED <<filled, sidecars, marker, temp, handle, faults>>

\* store_compaction_marker: a temporary file, renamed over the marker.
WriteTemp(at, next) ==
    /\ step = at /\ step' = next
    /\ temp' = TRUE
    /\ UNCHANGED <<slot, filled, sidecars, marker, handle, faults>>

RenameTemp(at, expected, contents, next) ==
    /\ step = at /\ step' = next
    /\ marker = expected
    /\ marker' = contents /\ temp' = FALSE
    /\ UNCHANGED <<slot, filled, sidecars, handle, faults>>

(***************************************************************************)
(* compact_journal_until                                                   *)
(***************************************************************************)
Begin ==
    /\ handle = "open" /\ step = "idle"
    /\ slot["active"]["database"] < MaxGenerations
    /\ IF Artefacts
       THEN handle' = "failed" /\ UNCHANGED step
       ELSE step' = "StageCreate" /\ UNCHANGED handle
    /\ UNCHANGED <<slot, filled, sidecars, marker, temp, faults>>

StageCreate ==
    LET missing == Components \ Present("staging")
        staged  == slot["active"]["database"] + 1 IN
    /\ step = "StageCreate"
    /\ slot' = [slot EXCEPT !["staging"][First(missing)] = staged]
    /\ filled' = filled \ {staged}
    /\ sidecars' = sidecars \cup {"staging"}
    /\ step' = IF missing = {First(missing)} THEN "StageFill" ELSE step
    /\ UNCHANGED <<marker, temp, handle, faults>>

\* The snapshot is appended, the staged generation opened again and compared.
StageFill ==
    /\ step = "StageFill" /\ step' = "StageClose"
    /\ filled' = filled \cup {slot["staging"]["database"]}
    /\ UNCHANGED <<slot, sidecars, marker, temp, handle, faults>>

StageClose ==
    /\ step = "StageClose" /\ step' = "PrepareTemp"
    /\ sidecars' = sidecars \ {"staging"}
    /\ UNCHANGED <<slot, filled, marker, temp, handle, faults>>

PrepareTemp == WriteTemp("PrepareTemp", "PrepareRename")
PrepareRename == RenameTemp("PrepareRename", "none", "PREPARED", "Retire")

Retire == MoveGeneration("Retire", "active", "backup", "Install")
Install == MoveGeneration("Install", "staging", "active", "VerifyOpen")

\* The installed generation names the head of the one it replaces.
Verified ==
    /\ Whole("active") /\ Whole("backup")
    /\ slot["active"]["database"] = slot["backup"]["database"] + 1

\* verify_previous_anchor_against_backup opens the backup and closes it again.
VerifyOpen ==
    /\ step = "VerifyOpen" /\ step' = "VerifyClose"
    /\ sidecars' = sidecars \cup {"backup"}
    /\ UNCHANGED <<slot, filled, marker, temp, handle, faults>>

\* Faulty variant: the backup is removed before the swap is committed.
CleansBeforeCommit ==
    /\ step = "VerifyClose" /\ step' = "CleanBackup"
    /\ sidecars' = sidecars \ {"backup"}
    /\ UNCHANGED <<slot, filled, marker, temp, handle, faults>>

VerifyClose ==
    /\ step = "VerifyClose"
    /\ sidecars' = sidecars \ {"backup"}
    /\ IF Verified
       THEN /\ step' = IF marker = "COMMITTED" THEN "CleanBackup" ELSE "CommitTemp"
            /\ UNCHANGED handle
       ELSE IF handle = "recovering" /\ marker = "PREPARED"
       THEN step' = "Rollback" /\ UNCHANGED handle
       ELSE step' = "idle" /\ handle' = IF handle = "open" THEN "failed" ELSE "closed"
    /\ UNCHANGED <<slot, filled, marker, temp, faults>>

CommitTemp == WriteTemp("CommitTemp", "CommitRename")
CommitRename == RenameTemp("CommitRename", "PREPARED", "COMMITTED", "CleanBackup")

\* cleanup_backup_generation: the log files go after the database.
CleanBackup ==
    LET present == Present("backup") IN
    /\ step = "CleanBackup"
    /\ IF "database" \in present \/ (present # {} /\ "backup" \notin sidecars)
       THEN Remove("backup", First(present)) /\ UNCHANGED <<sidecars, step>>
       ELSE IF "backup" \in sidecars
       THEN sidecars' = sidecars \ {"backup"} /\ UNCHANGED <<slot, step>>
       ELSE step' = "RemoveMarker" /\ UNCHANGED <<slot, sidecars>>
    /\ UNCHANGED <<filled, marker, temp, handle, faults>>

\* The last step of a swap: the compaction returns to its caller, the recovery
\* opens the active generation.
RemoveMarker ==
    /\ step = "RemoveMarker"
    /\ marker' = "none"
    /\ step' = IF handle = "recovering" THEN "Serve" ELSE "idle"
    /\ UNCHANGED <<slot, filled, sidecars, temp, handle, faults>>

(***************************************************************************)
(* recover_journal_compaction                                              *)
(***************************************************************************)
Open ==
    /\ handle = "closed" /\ handle' = "recovering"
    /\ temp' = FALSE
    /\ step' = "Recover"
    /\ UNCHANGED <<slot, filled, sidecars, marker, faults>>

Staged == Present("staging") # {} \/ "staging" \in sidecars

\* Roll forward: every component is either still staged or already installed.
Complementary ==
    \A c \in Components : slot["active"][c] # 0 <=> slot["staging"][c] = 0

\* The states of the directory recovery calls corrupt.
Refused ==
    \/ /\ marker = "none"
       /\ \/ Present("backup") # {} \/ "backup" \in sidecars
          \/ Staged /\ Present("active") # Components
    \/ marker # "none" /\ "staging" \in sidecars
    \/ /\ marker = "COMMITTED"
       /\ \/ "backup" \in sidecars
          \/ Present("staging") # {}
          \/ ~Whole("active")
    \/ /\ marker = "PREPARED"
       /\ \/ Present("backup") # Components /\ "backup" \in sidecars
          \/ Present("backup") = {} /\ Present("active") # Components

RecoverRefused ==
    /\ step = "Recover" /\ Refused
    /\ handle' = "closed" /\ step' = "idle"
    /\ UNCHANGED <<slot, filled, sidecars, marker, temp, faults>>

\* One continuation of the recovery, chosen by the marker and the files.
Continue(next) ==
    /\ step = "Recover" /\ ~Refused
    /\ step' = next
    /\ UNCHANGED <<slot, filled, sidecars, marker, temp, handle, faults>>

RecoverUnmarked ==
    /\ marker = "none"
    /\ Continue(IF Staged THEN "CleanStaging" ELSE "Serve")

\* Faulty variant: a committed swap is taken up again as a prepared one.
PreparesAgain ==
    /\ step = "Recover" /\ ~Refused
    /\ marker = "COMMITTED" /\ marker' = "PREPARED"
    /\ step' = IF Present("backup") = Components THEN "VerifyOpen" ELSE "CleanBackup"
    /\ UNCHANGED <<slot, filled, sidecars, temp, handle, faults>>

RecoverCommitted ==
    /\ marker = "COMMITTED"
    /\ Continue(IF Present("backup") = Components THEN "VerifyOpen" ELSE "CleanBackup")

\* Faulty variant: an installation that was interrupted halfway is refused.
RefusesHalfInstalled ==
    /\ marker = "PREPARED" /\ step = "Recover" /\ ~Refused
    /\ IF Present("staging") # {} /\ Present("active") # {} /\ Complementary
       THEN step' = "idle" /\ handle' = "closed"
       ELSE /\ step' = IF Present("backup") = {} THEN "CleanStaging" ELSE "Rollback"
            /\ UNCHANGED handle
    /\ UNCHANGED <<slot, filled, sidecars, marker, temp, faults>>

RecoverPrepared ==
    /\ marker = "PREPARED"
    /\ Continue(CASE Present("backup") = {} -> "CleanStaging"
                  [] Present("backup") = Components /\ Complementary ->
                        IF Present("staging") = {} THEN "VerifyOpen" ELSE "Install"
                  [] OTHER -> "Rollback")

\* rollback_to_backup, component by component: the installed file gives way to the
\* backup, then the staged file is removed.
Rollback ==
    LET open == {c \in Components : \/ slot["backup"][c] # 0 \/ slot["staging"][c] # 0
                                    \/ slot["active"][c] = 0}
        c == First(open) IN
    /\ step = "Rollback"
    /\ CASE open = {} ->
              step' = "CleanStaging" /\ UNCHANGED <<slot, handle>>
         [] open # {} /\ slot["backup"][c] # 0 /\ slot["active"][c] # 0 ->
              Remove("active", c) /\ UNCHANGED <<step, handle>>
         [] open # {} /\ slot["backup"][c] # 0 /\ slot["active"][c] = 0 ->
              Move("backup", "active", c) /\ UNCHANGED <<step, handle>>
         [] open # {} /\ slot["backup"][c] = 0 /\ slot["active"][c] = 0 ->
              handle' = "closed" /\ step' = "idle" /\ UNCHANGED slot
         [] OTHER ->
              Remove("staging", c) /\ UNCHANGED <<step, handle>>
    /\ UNCHANGED <<filled, sidecars, marker, temp, faults>>

\* cleanup_staging_generation, and the marker if there is one.
CleanStaging ==
    /\ step = "CleanStaging"
    /\ IF Present("staging") # {}
       THEN Remove("staging", First(Present("staging"))) /\ UNCHANGED <<sidecars, step>>
       ELSE IF "staging" \in sidecars
       THEN sidecars' = sidecars \ {"staging"} /\ UNCHANGED <<slot, step>>
       ELSE /\ step' = IF marker = "none" THEN "Serve" ELSE "RemoveMarker"
            /\ UNCHANGED <<slot, sidecars>>
    /\ UNCHANGED <<filled, marker, temp, handle, faults>>

\* open_journal_generation of the active names.  Without any file it would start
\* an empty journal; with some of them it fails.
Serve ==
    /\ step = "Serve" /\ step' = "idle"
    /\ handle' = IF Whole("active") \/ Present("active") = {} THEN "open" ELSE "closed"
    /\ UNCHANGED <<slot, filled, sidecars, marker, temp, faults>>

(***************************************************************************)
(* Faults.                                                                 *)
(***************************************************************************)
\* The databases the process holds open beside the active one.  An error closes
\* them, which removes their log files; a crash leaves these behind.
Opened ==
    CASE step \in {"StageCreate", "StageFill", "StageClose"} -> {"staging"}
      [] step = "VerifyClose" -> {"backup"}
      [] OTHER -> {}

\* Recovery takes any error of the verification for a reason to roll back.
RollForwardTried ==
    handle = "recovering" /\ marker = "PREPARED" /\ step \in {"VerifyOpen", "VerifyClose"}

Fault == faults < MaxFaults /\ faults' = faults + 1

OperationFails ==
    /\ step # "idle" /\ ~RollForwardTried
    /\ Fault
    /\ handle' = IF handle = "recovering" THEN "closed" ELSE "failed"
    /\ step' = "idle" /\ temp' = FALSE
    /\ sidecars' = sidecars \ Opened
    /\ UNCHANGED <<slot, filled, marker>>

RollForwardFails ==
    /\ RollForwardTried
    /\ Fault
    /\ step' = "Rollback"
    /\ sidecars' = sidecars \ Opened
    /\ UNCHANGED <<slot, filled, marker, temp, handle>>

Crash ==
    /\ handle # "closed"
    /\ Fault
    /\ handle' = "closed" /\ step' = "idle"
    /\ UNCHANGED <<slot, filled, sidecars, marker, temp>>

Close ==
    /\ handle \in {"open", "failed"} /\ step = "idle"
    /\ handle' = "closed"
    /\ UNCHANGED <<slot, filled, sidecars, marker, temp, step, faults>>

(***************************************************************************)
(* The specification.                                                      *)
(***************************************************************************)
CompactionStep ==
    \/ StageCreate \/ StageFill \/ StageClose \/ PrepareTemp \/ PrepareRename \/ Retire

SharedStep ==
    \/ Install \/ VerifyOpen \/ VerifyClose \/ CommitTemp \/ CommitRename
    \/ CleanBackup \/ RemoveMarker

RecoveryStep ==
    \/ RecoverRefused \/ RecoverUnmarked \/ RecoverCommitted \/ RecoverPrepared
    \/ Rollback \/ CleanStaging \/ Serve

Progress == CompactionStep \/ SharedStep \/ RecoveryStep

Next ==
    \/ Begin \/ Open \/ Progress \/ Close
    \/ OperationFails \/ RollForwardFails \/ Crash

Spec == Init /\ [][Next]_vars

\* A compaction or recovery in progress runs on unless a fault stops it, the next
\* request opens a dropped store, and the caller drops a failed handle.
FairSpec ==
    /\ Spec
    /\ WF_vars(Progress) /\ WF_vars(Open) /\ WF_vars(handle = "failed" /\ Close)

(***************************************************************************)
(* Properties.                                                             *)
(***************************************************************************)
\* Every file belongs to an existing generation and every step is a known one.
TypeOK ==
    /\ slot \in [Names -> [Components -> 0..MaxGenerations]]
    /\ filled \in SUBSET (1..MaxGenerations)
    /\ sidecars \in SUBSET {"staging", "backup"}
    /\ marker \in {"none", "PREPARED", "COMMITTED"}
    /\ temp \in BOOLEAN
    /\ handle \in {"closed", "recovering", "open", "failed"}
    /\ step \in SwapStep \cup {"idle"}
    /\ faults \in 0..MaxFaults

\* The generation that counts: the backup until a prepared swap is committed or
\* rolled back, the active one otherwise.
Current ==
    IF marker = "PREPARED" /\ slot["backup"]["database"] # 0
    THEN slot["backup"]["database"] ELSE slot["active"]["database"]

\* In every window of the swap, of its recovery and of the recovery of that, all
\* files of the current generation exist under the active or the backup names; a
\* handle that serves requests has all of it under the active names, no file of
\* another generation beside it and no marker that a later recovery would act on.
GenerationSurvives ==
    /\ Current \in filled
    /\ \A c \in Components : \E n \in {"active", "backup"} : slot[n][c] = Current
    /\ handle = "open" /\ step = "idle" =>
          /\ Whole("active")
          /\ Present("staging") = {} /\ Present("backup") = {}
          /\ marker = "none" /\ ~temp

Switch == INSTANCE JournalSwitch WITH
    current <- Current,
    serving <- IF handle = "open" /\ step = "idle" THEN slot["active"]["database"] ELSE 0

\* The swap implements the atomic switch that RepairStore takes a compaction for:
\* the store serves the current generation, and that changes only to its successor.
SwapIsSwitch == Switch!Spec

\* An interrupted swap is completed or undone and the store serves again, however
\* often recovery is interrupted in turn, unless a second interruption has led to a
\* state that recovery refuses.
SwapRecovers ==
    handle = "closed" ~> (handle = "open" \/ (faults > 1 /\ step = "Recover" /\ Refused))
=============================================================================

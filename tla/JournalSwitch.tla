--------------------------- MODULE JournalSwitch ---------------------------
(***************************************************************************)
(* What a compaction of the Repair Vault journal promises: one generation  *)
(* of the journal is current at any time, a compaction replaces it by its  *)
(* successor in a single step, and a handle serves the current one.        *)
(***************************************************************************)
EXTENDS Naturals

CONSTANT MaxGenerations  \* bound: number of journal generations

VARIABLES
    current,  \* the generation that holds the journal
    serving   \* the generation a store handle works on, or 0

Init == current = 1 /\ serving = 0

Serve == serving = 0 /\ serving' = current /\ UNCHANGED current
Drop == serving # 0 /\ serving' = 0 /\ UNCHANGED current

\* No handle works on a generation while it is replaced.
Switch ==
    /\ serving = 0
    /\ current < MaxGenerations /\ current' = current + 1
    /\ UNCHANGED serving

Next == Serve \/ Drop \/ Switch

Spec == Init /\ [][Next]_<<current, serving>>
=============================================================================

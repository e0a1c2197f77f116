------------------------- MODULE MCVaultSupervisor -------------------------
(* VaultSupervisor with interchangeable clients. *)
EXTENDS VaultSupervisor, TLC

Symmetry == Permutations(Clients)

=============================================================================

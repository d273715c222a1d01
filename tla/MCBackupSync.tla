----------------------------- MODULE MCBackupSync -----------------------------
(* BackupSync for TLC: two invocations, the bootstrap user and one other. *)
EXTENDS BackupSync, TLC

\* Invocations and generations are interchangeable.
Symmetry == Permutations(Procs) \cup Permutations(Gens)

=============================================================================

------------------------- MODULE MCNotificationUsers -------------------------
(* NotificationUsers for TLC. *)
EXTENDS NotificationUsers, TLC

\* The invocations of one command are interchangeable (safety runs only).
Symmetry ==
    Permutations(Adders) \cup Permutations(Deleters) \cup Permutations(Cleaners)

=============================================================================

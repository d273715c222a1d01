-------------------------- MODULE ReplicatedRegistry --------------------------
(***************************************************************************)
(* What the replication of the notification registry promises, whatever    *)
(* commands, locks, retries and crashes it is made of.  The source is      *)
(* changed entry by entry; the copy is only ever replaced by a snapshot of *)
(* the whole source; and pending, the one thing a later synchronisation    *)
(* looks at, is dropped only when the copy is the source.                  *)
(*                                                                         *)
(* The promise is suspended while the copy is loose: a write has reached   *)
(* it that nobody waits for any more, or there is no copy to keep.         *)
(***************************************************************************)
CONSTANTS Keys, Entries

VARIABLES
    source,    \* what is to be replicated: Keys -> Entries
    copy,      \* the replica
    pending,   \* the copy may differ from the source
    snapshots, \* snapshots that may still be written to the copy
    loose      \* the copy is out of control

vars == <<source, copy, pending, snapshots, loose>>

\* The source is replicated when the observation starts.
Init ==
    /\ source \in [Keys -> Entries]
    /\ copy = source
    /\ pending = FALSE
    /\ snapshots = {}
    /\ loose \in BOOLEAN

\* A change of an entry leaves the mark in the same step.
Change ==
    /\ \E k \in Keys, e \in Entries : source' = [source EXCEPT ![k] = e]
    /\ pending' = TRUE
    /\ UNCHANGED <<copy, snapshots, loose>>

Mark ==
    /\ pending' = TRUE
    /\ UNCHANGED <<source, copy, snapshots, loose>>

Read ==
    /\ snapshots' = snapshots \cup {source}
    /\ UNCHANGED <<source, copy, pending, loose>>

\* Another writer may hold an equal snapshot.
Spend(s) == snapshots' \in {snapshots, snapshots \ {s}}

\* A snapshot replaces the copy; an older one only while the mark is there.
Write(s) ==
    /\ copy' = s
    /\ Spend(s)
    /\ loose' \in {loose, FALSE}
    /\ loose' \/ pending \/ s = source
    /\ UNCHANGED <<source, pending>>

GiveUp(s) ==
    /\ Spend(s)
    /\ UNCHANGED <<source, copy, pending, loose>>

\* A writer nobody waits for writes, or is refused.
Stray(s) ==
    /\ copy' \in {copy, s}
    /\ Spend(s)
    /\ loose' = TRUE
    /\ UNCHANGED <<source, pending>>

Settle ==
    /\ loose \/ copy = source
    /\ pending' = FALSE
    /\ UNCHANGED <<source, copy, snapshots, loose>>

Next ==
    \/ Change \/ Mark \/ Read \/ Settle
    \/ \E s \in snapshots : Write(s) \/ GiveUp(s) \/ Stray(s)

Spec == Init /\ [][Next]_vars

=============================================================================

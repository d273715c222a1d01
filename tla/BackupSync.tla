------------------------------ MODULE BackupSync ------------------------------
(***************************************************************************)
(* Replication of the notification registry from the primary controller to *)
(* the backup controller (cluster CLI: _store_user_routing ..              *)
(* _clear_pending_backup_sync, and the remote helper it pipes over ssh).   *)
(*                                                                         *)
(* Every CLI invocation is a process of Procs.  A registry update takes    *)
(* the registry's flock, reloads the file, changes it and renames it into  *)
(* place, so it is one atomic step here.  A synchronisation is not: it     *)
(* takes the sync lock, reads a snapshot, ships it over ssh and clears the *)
(* pending marker, and another process may act between any two of these.   *)
(* An invocation may be killed anywhere, and an ssh client that is killed  *)
(* or times out can leave its remote helper running: the helper then       *)
(* writes its snapshot late, or never.                                     *)
(***************************************************************************)
EXTENDS Naturals, FiniteSets

CONSTANTS
    Procs,      \* concurrently running invocations of the cluster CLI
    Users,      \* user names, the bootstrap user included
    Boot,       \* the Terraform-managed bootstrap user (opc)
    Routings,   \* routing entries (e-mail, topic and subscription ids)
    BootRoutings, \* routing entries Terraform gives the bootstrap user
    NoRouting,  \* the user has no entry in the registry
    Gens,       \* generation ids of the pending marker (uuid4)
    NoMarker,   \* config has no pending_backup_sync
    Scopes,     \* cluster_scope_id values
    MaxLate     \* bound on remote helpers that outlive their ssh client

ASSUME BackupSyncAssumption ==
    /\ Boot \in Users
    /\ NoRouting \notin Routings \cup BootRoutings
    /\ NoMarker \notin Gens
    /\ Scopes # {}
    /\ MaxLate \in Nat

VARIABLES
    users,      \* primary registry: user -> routing entry or NoRouting
    marker,     \* primary registry: generation of pending_backup_sync
    scope,      \* primary registry: config.cluster_scope_id
    enabled,    \* primary registry: config.enabled
    backup,     \* backup registry: user -> routing entry or NoRouting
    bscope,     \* backup registry: config.cluster_scope_id
    hasBackup,  \* the inventory has a [slurm_backup] host
    syncLock,   \* holders of slurm_notification_users.json.sync.lock
    cli,        \* local state of every CLI invocation
    late,       \* snapshots held by helpers whose ssh client is gone
    lateLanded, \* history: such a helper wrote after the last complete push
    seeding     \* Ansible's seed of both registries: what it still has to do

vars == <<users, marker, scope, enabled, backup, bscope, hasBackup, syncLock,
          cli, late, lateLanded, seeding>>

primary   == <<users, marker, scope, enabled>>
secondary == <<backup, bscope, hasBackup>>

Entries  == Routings \cup BootRoutings \cup {NoRouting}
Registry == [Users -> Entries]
Markers  == Gens \cup {NoMarker}
Snapshot == [users : Registry, scope : Scopes]
PCs      == {"idle", "store", "remove", "sync", "unmark", "push", "clear",
             "ldap", "restore", "record"}
\* deleting: this is a delete that has not begun to undo itself; user, entry,
\* snap and seen are kept while the command still needs them.
CliState == [pc : PCs, deleting : BOOLEAN, user : Users, entry : Entries,
             snap : Snapshot, seen : Markers]

\* The empty local state of an invocation that is not running; its snapshot
\* is never read.
NoSnapshot == [users |-> [u \in Users |-> NoRouting],
               scope |-> CHOOSE s \in Scopes : TRUE]
Idle == [pc |-> "idle", deleting |-> FALSE, user |-> Boot,
         entry |-> NoRouting, snap |-> NoSnapshot, seen |-> NoMarker]

\* The steps of a synchronisation that hold the sync lock.
Pushing == {"push", "clear"}

NotSeeding == {}

\* Types: whatever commands, seeds and helpers write, both registries hold an
\* entry, or none, for every user, and every late helper holds a whole snapshot.
TypeOK ==
    /\ users \in Registry
    /\ marker \in Markers
    /\ scope \in Scopes
    /\ enabled \in BOOLEAN
    /\ backup \in Registry
    /\ bscope \in Scopes
    /\ hasBackup \in BOOLEAN
    /\ syncLock \in SUBSET Procs
    /\ cli \in [Procs -> CliState]
    /\ late \in SUBSET Snapshot
    /\ lateLanded \in BOOLEAN
    /\ seeding \in SUBSET [host : {"primary", "backup"},
                           entry : BootRoutings, scope : Scopes]

\* Both controllers were seeded with the same bootstrap data and nothing has
\* been added since.
Init ==
    /\ \E r \in BootRoutings, s \in Scopes :
        /\ users = [u \in Users |-> IF u = Boot THEN r ELSE NoRouting]
        /\ scope = s
    /\ marker = NoMarker
    /\ enabled = TRUE
    /\ backup = users
    /\ bscope = scope
    /\ hasBackup \in BOOLEAN
    /\ syncLock = {}
    /\ cli = [p \in Procs |-> Idle]
    /\ late = {}
    /\ lateLanded = FALSE
    /\ seeding = NotSeeding

-----------------------------------------------------------------------------
(* Steps that several commands share *)

Goto(p, pc) == cli' = [cli EXCEPT ![p].pc = pc]
Finish(p)   == cli' = [cli EXCEPT ![p] = Idle]

\* The command forgets everything but the step it goes to.
Resume(p, pc) == cli' = [cli EXCEPT ![p] = [Idle EXCEPT !.pc = pc]]

\* A uuid4 that differs from every generation somebody still compares with.
Fresh(g) == g # marker /\ \A p \in Procs : g # cli[p].seen

\* _mark_backup_sync_pending: a mutation leaves a marker nobody has seen.
MarkBackupSyncPending == \E g \in Gens : Fresh(g) /\ marker' = g

\* The command's synchronisation raised NotificationError: a delete restores
\* the routing, every other command, and a delete that is undoing itself,
\* records that a synchronisation is due.
AfterSyncError(p) ==
    IF cli[p].deleting
    THEN cli' = [cli EXCEPT ![p].pc = "restore", ![p].snap = NoSnapshot,
                            ![p].seen = NoMarker]
    ELSE Resume(p, "record")

\* The command's synchronisation succeeded: a delete goes on to LDAP, every
\* other command, and a delete that is undoing itself, is done.
AfterSync(p) ==
    IF cli[p].deleting
    THEN cli' = [cli EXCEPT ![p].pc = "ldap", ![p].seen = NoMarker]
    ELSE Finish(p)

-----------------------------------------------------------------------------
(* The commands: cluster user add / user delete / notification sync *)

\* add, from the point where OCI resources and the LDAP user exist: the check
\* that the user has no routing was made earlier and may be stale by now.
StartAdd(p, u, r) ==
    /\ cli[p].pc = "idle"
    /\ enabled
    /\ users[u] = NoRouting
    /\ cli' = [cli EXCEPT ![p] = [Idle EXCEPT !.pc = "store",
                                              !.user = u, !.entry = r]]
    /\ UNCHANGED <<primary, secondary, syncLock, late, lateLanded, seeding>>

\* _store_user_routing refuses an existing entry; add then rolls back.
StoreUserRouting(p) ==
    /\ cli[p].pc = "store"
    /\ IF users[cli[p].user] # NoRouting
       THEN Finish(p) /\ UNCHANGED <<users, marker>>
       ELSE /\ users' = [users EXCEPT ![cli[p].user] = cli[p].entry]
            /\ MarkBackupSyncPending
            /\ Resume(p, "sync")
    /\ UNCHANGED <<scope, enabled, secondary, syncLock, late, lateLanded,
                   seeding>>

\* delete of a user with a routing entry; opc and Terraform-managed users are
\* refused.  (Without an entry, delete does not touch the registry.)
StartDelete(p, u) ==
    /\ cli[p].pc = "idle"
    /\ u # Boot
    /\ users[u] # NoRouting
    /\ cli' = [cli EXCEPT ![p] = [Idle EXCEPT !.pc = "remove",
                                              !.deleting = TRUE, !.user = u]]
    /\ UNCHANGED <<primary, secondary, syncLock, late, lateLanded, seeding>>

\* _remove_user_routing: a routing that a concurrent delete already removed is
\* not an error, the command carries on with no entry to restore.
RemoveUserRouting(p) ==
    LET u == cli[p].user IN
    /\ cli[p].pc = "remove"
    /\ IF users[u] = NoRouting
       THEN UNCHANGED <<users, marker>>
       ELSE /\ users' = [users EXCEPT ![u] = NoRouting]
            /\ MarkBackupSyncPending
    /\ cli' = [cli EXCEPT ![p].pc = "sync", ![p].entry = users[u]]
    /\ UNCHANGED <<scope, enabled, secondary, syncLock, late, lateLanded,
                   seeding>>

\* delete, after the backup was synchronised: LDAP accepts the deletion, and
\* the registry is not touched again, or refuses it, and the routing returns.
DeleteLdapUser(p) ==
    /\ cli[p].pc = "ldap"
    /\ \/ Finish(p)
       \/ Goto(p, "restore")
    /\ UNCHANGED <<primary, secondary, syncLock, late, lateLanded, seeding>>

\* Mutant: the entry is put back on both controllers, past the synchronisation.
RestoreOnBoth(p) ==
    LET u == cli[p].user
        e == cli[p].entry IN
    /\ cli[p].pc = "restore"
    /\ \/ UNCHANGED <<users, marker, backup>>
       \/ /\ e # NoRouting /\ users[u] = NoRouting
          /\ users' = [users EXCEPT ![u] = e]
          /\ backup' = [backup EXCEPT ![u] = e]
          /\ MarkBackupSyncPending
    /\ Resume(p, "sync")
    /\ UNCHANGED <<scope, enabled, bscope, hasBackup, syncLock, late, lateLanded,
                   seeding>>

\* _restore_user_routing: the old entry is put back, unless there is none, an
\* entry came back in the meantime (reported, not overwritten) or the registry
\* cannot be written.  The registry is synchronised again in every case.
RestoreUserRouting(p) ==
    LET u == cli[p].user
        e == cli[p].entry IN
    /\ cli[p].pc = "restore"
    /\ \/ UNCHANGED <<users, marker>>
       \/ /\ e # NoRouting /\ users[u] = NoRouting
          /\ users' = [users EXCEPT ![u] = e]
          /\ MarkBackupSyncPending
    /\ Resume(p, "sync")
    /\ UNCHANGED <<scope, enabled, secondary, syncLock, late, lateLanded,
                   seeding>>

\* notification sync (which does nothing while notifications are disabled).
StartSync(p) ==
    /\ cli[p].pc = "idle"
    /\ enabled
    /\ Resume(p, "sync")
    /\ UNCHANGED <<primary, secondary, syncLock, late, lateLanded, seeding>>

\* The last step of notification cleanup, which synchronises unconditionally.
StartSyncAfterCleanup(p) ==
    /\ cli[p].pc = "idle"
    /\ Resume(p, "sync")
    /\ UNCHANGED <<primary, secondary, syncLock, late, lateLanded, seeding>>

\* _record_pending_backup_sync; an error of its own is only reported.
RecordPendingBackupSync(p) ==
    /\ cli[p].pc = "record"
    /\ MarkBackupSyncPending \/ UNCHANGED marker
    /\ Finish(p)
    /\ UNCHANGED <<users, scope, enabled, secondary, syncLock, late,
                   lateLanded, seeding>>

-----------------------------------------------------------------------------
(* _sync_backup_registry *)

\* _find_slurm_backup finds no backup controller in the inventory: the marker
\* that was read is dropped, and no lock is taken.
NoSlurmBackup(p) ==
    /\ cli[p].pc = "sync"
    /\ ~hasBackup
    /\ IF marker = NoMarker
       THEN AfterSync(p)
       ELSE cli' = [cli EXCEPT ![p].pc = "unmark", ![p].seen = marker]
    /\ UNCHANGED <<primary, secondary, syncLock, late, lateLanded, seeding>>

\* _clear_pending_backup_sync, called without a backup controller.
ClearWithoutBackup(p) ==
    /\ cli[p].pc = "unmark"
    /\ marker' = IF marker = cli[p].seen THEN NoMarker ELSE marker
    /\ AfterSync(p)
    /\ UNCHANGED <<users, scope, enabled, secondary, syncLock, late,
                   lateLanded, seeding>>

\* Mutant: the snapshot is read and pushed without waiting for the sync lock.
ReadSnapshotUnlocked(p) ==
    /\ cli[p].pc = "sync"
    /\ hasBackup
    /\ syncLock' = syncLock \cup {p}
    /\ cli' = [cli EXCEPT ![p].pc = "push", ![p].seen = marker,
                          ![p].snap = [users |-> users, scope |-> scope]]
    /\ UNCHANGED <<primary, secondary, late, lateLanded, seeding>>

\* flock(sync.lock, LOCK_EX), then the latest local snapshot and its marker
\* are read.  (The lock alone is invisible to registry updates, so the two are
\* one step.)
LockAndReadSnapshot(p) ==
    /\ cli[p].pc = "sync"
    /\ hasBackup
    /\ syncLock = {}
    /\ syncLock' = {p}
    /\ cli' = [cli EXCEPT ![p].pc = "push", ![p].seen = marker,
                          ![p].snap = [users |-> users, scope |-> scope]]
    /\ UNCHANGED <<primary, secondary, late, lateLanded, seeding>>

\* Mutant: the helper installs the whole payload instead of its users.
HelperInstallsPayload(s) == backup' = IF bscope = s.scope THEN s ELSE backup

\* The remote helper under the backup's registry lock: a snapshot of another
\* scope is refused, otherwise the backup's users are replaced as a whole.
Helper(s) == backup' = IF bscope = s.scope THEN s.users ELSE backup

\* _run_backup_sync returned: the helper wrote the snapshot.
PushSucceeds(p) ==
    /\ cli[p].pc = "push"
    /\ bscope = cli[p].snap.scope
    /\ Helper(cli[p].snap)
    /\ lateLanded' = FALSE
    /\ cli' = [cli EXCEPT ![p].pc = "clear", ![p].snap = NoSnapshot]
    /\ UNCHANGED <<primary, bscope, hasBackup, syncLock, late, seeding>>

\* Mutant: the marker is removed without comparing it with the one seen.
ClearAnyMarker(p) ==
    /\ cli[p].pc = "clear"
    /\ marker' = NoMarker
    /\ syncLock' = syncLock \ {p}
    /\ AfterSync(p)
    /\ UNCHANGED <<users, scope, enabled, secondary, late, lateLanded,
                   seeding>>

\* _clear_pending_backup_sync, then the sync lock is released.
ClearPendingBackupSync(p) ==
    /\ cli[p].pc = "clear"
    /\ marker' = IF cli[p].seen # NoMarker /\ marker = cli[p].seen
                 THEN NoMarker ELSE marker
    /\ syncLock' = syncLock \ {p}
    /\ AfterSync(p)
    /\ UNCHANGED <<users, scope, enabled, secondary, late, lateLanded,
                   seeding>>

\* What may have become of the helper when its ssh client is gone: it never
\* wrote, it wrote and only the answer was lost, or it lives on.
HelperFate(s) ==
    \/ UNCHANGED <<backup, late>>
    \/ Helper(s) /\ UNCHANGED late
    \/ /\ Cardinality(late) < MaxLate
       /\ late' = late \cup {s}
       /\ UNCHANGED backup

\* _sync_backup_registry raises NotificationError before or after the remote
\* write: an unreadable inventory or registry, a registry that cannot be
\* written.
SyncFails(p) ==
    /\ cli[p].pc \in {"sync", "unmark", "clear"}
    /\ syncLock' = syncLock \ {p}
    /\ AfterSyncError(p)
    /\ UNCHANGED <<primary, secondary, late, lateLanded, seeding>>

\* _run_backup_sync raises: the host is unreachable, the helper refused the
\* snapshot, or ssh was killed after 30 s.
PushFails(p) ==
    /\ cli[p].pc = "push"
    /\ HelperFate(cli[p].snap)
    /\ syncLock' = syncLock \ {p}
    /\ AfterSyncError(p)
    /\ UNCHANGED <<primary, bscope, hasBackup, lateLanded, seeding>>

\* A helper without a client reaches the backup's registry lock.
LateHelper(s) ==
    /\ s \in late
    /\ late' = late \ {s}
    /\ Helper(s)
    /\ lateLanded' = TRUE
    /\ UNCHANGED <<primary, bscope, hasBackup, syncLock, cli, seeding>>

\* An invocation is killed, or gives up because the registry cannot be
\* written.  The kernel drops its locks; a helper it started may live on.
Crash(p) ==
    /\ cli[p].pc # "idle"
    /\ IF cli[p].pc = "push" THEN HelperFate(cli[p].snap)
                             ELSE UNCHANGED <<backup, late>>
    /\ syncLock' = syncLock \ {p}
    /\ Finish(p)
    /\ UNCHANGED <<primary, bscope, hasBackup, lateLanded, seeding>>

-----------------------------------------------------------------------------
(* slurm_notification_registry_seed.py, run by Ansible on both controllers *)

StartSeed(r, s) ==
    /\ seeding = NotSeeding
    /\ seeding' = [host : {"primary", "backup"}, entry : {r}, scope : {s}]
    /\ UNCHANGED <<primary, secondary, syncLock, cli, late, lateLanded>>

\* merge_registry: the bootstrap user's entry and the configuration are
\* replaced, other users and the pending marker are kept.
MergeRegistry(job) ==
    /\ job \in seeding
    /\ seeding' = seeding \ {job}
    /\ IF job.host = "primary"
       THEN /\ users' = [users EXCEPT ![Boot] = job.entry]
            /\ scope' = job.scope
            /\ enabled' = TRUE
            /\ UNCHANGED secondary
       ELSE /\ backup' = [backup EXCEPT ![Boot] = job.entry]
            /\ bscope' = job.scope
            /\ UNCHANGED <<users, scope, enabled, hasBackup>>
    /\ UNCHANGED <<marker, syncLock, cli, late, lateLanded>>

\* disable_registry on the primary: nothing else is forgotten.
DisableRegistry ==
    /\ enabled
    /\ enabled' = FALSE
    /\ UNCHANGED <<users, marker, scope, secondary, syncLock, cli, late,
                   lateLanded, seeding>>

-----------------------------------------------------------------------------
Sync(p) ==
    \/ NoSlurmBackup(p) \/ ClearWithoutBackup(p) \/ LockAndReadSnapshot(p)
    \/ PushSucceeds(p) \/ PushFails(p) \/ ClearPendingBackupSync(p)

Command(p) ==
    \/ StoreUserRouting(p) \/ RemoveUserRouting(p) \/ DeleteLdapUser(p)
    \/ RestoreUserRouting(p) \/ RecordPendingBackupSync(p)

Start(p) ==
    \/ \E u \in Users, r \in Routings : StartAdd(p, u, r)
    \/ \E u \in Users : StartDelete(p, u)
    \/ StartSync(p)
    \/ StartSyncAfterCleanup(p)

Seed ==
    \/ \E r \in BootRoutings, s \in Scopes : StartSeed(r, s)
    \/ \E job \in seeding : MergeRegistry(job)
    \/ DisableRegistry

Next ==
    \/ \E p \in Procs : Start(p) \/ Command(p) \/ Sync(p) \/ SyncFails(p) \/ Crash(p)
    \/ \E s \in late : LateHelper(s)
    \/ Seed

Spec == Init /\ [][Next]_vars

-----------------------------------------------------------------------------
(* Properties *)

\* A registry without a pending marker has reached the backup: nobody can
\* lose track of an unsynchronised change of a user's routing, whatever
\* mutations, failures, restores and crashes interleave.  The bootstrap user
\* is Terraform's, and a helper that outlived its client is out of the CLI's
\* control until the next complete push (see LateHelper).
UnmarkedMeansSynced ==
    (hasBackup /\ marker = NoMarker /\ ~lateLanded) =>
        \A u \in Users \ {Boot} : backup[u] = users[u]

\* Two invocations are never between reading their snapshot and clearing the
\* marker at the same time: remote writes are serialised.
SyncSerialised ==
    \A p, q \in Procs :
        (cli[p].pc \in Pushing /\ cli[q].pc \in Pushing) => p = q

\* UnmarkedMeansSynced made inductive: what the holder of the sync lock knows.
\* If the marker is still the one it saw, no routing changed since, so its
\* snapshot (and, once pushed, the backup) is the current registry; and while
\* it holds the lock nobody else can clear the marker.
HolderInv ==
    \A p \in Procs :
        /\ cli[p].pc \in Pushing => hasBackup /\ syncLock = {p}
        /\ cli[p].pc = "unmark" => ~hasBackup
        /\ (cli[p].pc \in Pushing /\ marker = NoMarker) =>
                cli[p].seen = NoMarker
        /\ (cli[p].pc = "push" /\ marker = cli[p].seen) =>
                \A u \in Users \ {Boot} : cli[p].snap.users[u] = users[u]
        /\ (cli[p].pc = "clear" /\ marker = cli[p].seen /\ ~lateLanded) =>
                \A u \in Users \ {Boot} : backup[u] = users[u]

\* The replication as a whole does what ReplicatedRegistry says: the backup is
\* only ever replaced by a whole snapshot of the primary, every change of a
\* routing is marked in the step that makes it, and a marker goes away only
\* when the backup is the primary, except while a helper without a client has
\* written (or there is no backup at all).
OwnedUsers == Users \ {Boot}
Owned(registry) == [u \in OwnedUsers |-> registry[u]]

Replication ==
    INSTANCE ReplicatedRegistry WITH
        Keys      <- OwnedUsers,
        source    <- Owned(users),
        copy      <- Owned(backup),
        pending   <- marker # NoMarker,
        snapshots <- {Owned(cli[p].snap.users) :
                         p \in {q \in Procs : cli[q].pc = "push"}}
                       \cup {Owned(s.users) : s \in late},
        loose     <- lateLanded \/ ~hasBackup

ReplicationSpec == Replication!Spec

\* What the comment in _sync_backup_registry promises, with no exception for
\* late helpers: once every command has ended and none is pending, no older
\* snapshot has replaced a newer one on the backup.
OlderSnapshotNeverWins ==
    (hasBackup /\ marker = NoMarker /\ \A p \in Procs : cli[p].pc = "idle") =>
        \A u \in Users \ {Boot} : backup[u] = users[u]

=============================================================================

--------------------------- MODULE BackupSyncProofs ---------------------------
(***************************************************************************)
(* What BackupSync guarantees for every number of CLI invocations, users,  *)
(* routings and scopes: type correctness, mutual exclusion of the remote   *)
(* writes, that an unmarked registry has reached the backup, and that      *)
(* BackupSync implements ReplicatedRegistry.                               *)
(***************************************************************************)
EXTENDS BackupSync, TLAPS

USE BackupSyncAssumption

\* The local state of an invocation that is not running is well typed.
LEMMA IdleType == Idle \in CliState /\ NoSnapshot \in Snapshot
  <1>1. (CHOOSE s \in Scopes : TRUE) \in Scopes
    OBVIOUS
  <1>2. NoSnapshot \in Snapshot
    BY <1>1 DEF NoSnapshot, Snapshot, Registry, Entries
  <1>3. QED
    BY <1>2 DEF Idle, CliState, PCs, Entries, Markers

\* Every variable keeps its type: in particular routing entries never end up
\* under a wrong user or in the marker field, whatever the CLI writes.
THEOREM TypeCorrect == Spec => []TypeOK
  <1>1. Init => TypeOK
    BY IdleType DEF Init, TypeOK, Registry, Entries, Markers, NotSeeding
  <1>2. TypeOK /\ [Next]_vars => TypeOK'
    <2> SUFFICES ASSUME TypeOK, [Next]_vars
                 PROVE  TypeOK'
      OBVIOUS
    <2> USE IdleType DEF TypeOK
    <2>1. ASSUME NEW p \in Procs, Start(p)
          PROVE  TypeOK'
      <3>1. ASSUME NEW u \in Users, NEW r \in Routings, StartAdd(p, u, r)
            PROVE  TypeOK'
        BY <3>1 DEF StartAdd, CliState, PCs, Entries, primary, secondary
      <3>2. ASSUME NEW u \in Users, StartDelete(p, u)
            PROVE  TypeOK'
        BY <3>2 DEF StartDelete, CliState, PCs, primary, secondary
      <3>3. CASE StartSync(p) \/ StartSyncAfterCleanup(p)
        BY <3>3 DEF StartSync, StartSyncAfterCleanup, Resume, CliState, PCs,
           primary, secondary
      <3> QED
        BY <2>1, <3>1, <3>2, <3>3 DEF Start
    <2>2. ASSUME NEW p \in Procs, Command(p)
          PROVE  TypeOK'
      <3>1. CASE StoreUserRouting(p)
        BY <3>1 DEF StoreUserRouting, Finish, Resume, MarkBackupSyncPending,
           CliState, PCs, Registry, Markers, secondary
      <3>2. CASE RemoveUserRouting(p)
        BY <3>2 DEF RemoveUserRouting, MarkBackupSyncPending, CliState, PCs,
           Registry, Entries, Markers, secondary
      <3>3. CASE DeleteLdapUser(p)
        <4>1. cli' \in [Procs -> CliState]
          BY <3>3 DEF DeleteLdapUser, Finish, Goto, CliState, PCs
        <4> QED
          BY <3>3, <4>1 DEF DeleteLdapUser, primary, secondary
      <3>4. CASE RestoreUserRouting(p)
        BY <3>4 DEF RestoreUserRouting, Resume, MarkBackupSyncPending,
           CliState, PCs, Registry, Markers, secondary
      <3>5. CASE RecordPendingBackupSync(p)
        BY <3>5 DEF RecordPendingBackupSync, Finish, MarkBackupSyncPending,
           Markers, secondary
      <3> QED
        BY <2>2, <3>1, <3>2, <3>3, <3>4, <3>5 DEF Command
    <2>3. ASSUME NEW p \in Procs, Sync(p)
          PROVE  TypeOK'
      <3>1. CASE NoSlurmBackup(p)
        BY <3>1 DEF NoSlurmBackup, AfterSync, Finish, CliState, PCs, Markers,
           primary, secondary
      <3>2. CASE ClearWithoutBackup(p)
        BY <3>2 DEF ClearWithoutBackup, AfterSync, Finish, CliState, PCs,
           Markers, secondary
      <3>3. CASE LockAndReadSnapshot(p)
        <4>1. [users |-> users, scope |-> scope] \in Snapshot
          BY DEF Snapshot
        <4>2. [cli[p] EXCEPT !.pc = "push", !.seen = marker,
                 !.snap = [users |-> users, scope |-> scope]] \in CliState
          BY <4>1 DEF CliState, PCs
        <4>3. cli' \in [Procs -> CliState]
          <5>1. cli' = [cli EXCEPT ![p] =
                  [cli[p] EXCEPT !.pc = "push", !.seen = marker,
                     !.snap = [users |-> users, scope |-> scope]]]
            BY <3>3 DEF LockAndReadSnapshot
          <5> HIDE DEF TypeOK
          <5>2. cli \in [Procs -> CliState]
            BY DEF TypeOK
          <5> QED
            BY <4>2, <5>1, <5>2
        <4> QED
          BY <3>3, <4>3 DEF LockAndReadSnapshot, primary, secondary
      <3>4. CASE PushSucceeds(p)
        BY <3>4 DEF PushSucceeds, Helper, CliState, PCs, Snapshot, primary
      <3>5. CASE ClearPendingBackupSync(p)
        BY <3>5 DEF ClearPendingBackupSync, AfterSync, Finish, CliState, PCs,
           Markers, secondary
      <3>6. CASE PushFails(p)
        <4>1. cli' \in [Procs -> CliState]
          BY <3>6 DEF PushFails, AfterSyncError, Resume, CliState, PCs, Markers
        <4>2. backup' \in Registry /\ late' \subseteq Snapshot
          BY <3>6 DEF PushFails, HelperFate, Helper, CliState, Snapshot
        <4> QED
          BY <3>6, <4>1, <4>2 DEF PushFails, HelperFate, primary
      <3> QED
        BY <2>3, <3>1, <3>2, <3>3, <3>4, <3>5, <3>6 DEF Sync
    <2>4. ASSUME NEW p \in Procs, Crash(p)
          PROVE  TypeOK'
      <3>1. cli' \in [Procs -> CliState]
        BY <2>4 DEF Crash, Finish
      <3>2. backup' \in Registry /\ late' \subseteq Snapshot
        BY <2>4 DEF Crash, HelperFate, Helper, CliState, Snapshot
      <3> QED
        BY <2>4, <3>1, <3>2 DEF Crash, HelperFate, primary
    <2>8. ASSUME NEW p \in Procs, SyncFails(p)
          PROVE  TypeOK'
      <3>1. cli' \in [Procs -> CliState]
        BY <2>8 DEF SyncFails, AfterSyncError, Resume, CliState, PCs, Markers
      <3> QED
        BY <2>8, <3>1 DEF SyncFails, primary, secondary
    <2>5. ASSUME NEW s \in late, LateHelper(s)
          PROVE  TypeOK'
      BY <2>5 DEF LateHelper, Helper, Snapshot, primary
    <2>6. ASSUME Seed
          PROVE  TypeOK'
      <3>1. CASE \E r \in BootRoutings, s \in Scopes : StartSeed(r, s)
        BY <3>1 DEF StartSeed, primary, secondary
      <3>2. CASE \E job \in seeding : MergeRegistry(job)
        BY <3>2 DEF MergeRegistry, Registry, Entries, secondary
      <3>3. CASE DisableRegistry
        BY <3>3 DEF DisableRegistry, secondary
      <3> QED
        BY <2>6, <3>1, <3>2, <3>3 DEF Seed
    <2>7. CASE UNCHANGED vars
      BY <2>7 DEF vars
    <2> QED
      BY <2>1, <2>2, <2>3, <2>4, <2>5, <2>6, <2>7, <2>8 DEF Next
  <1> QED
    BY <1>1, <1>2, PTL DEF Spec

-----------------------------------------------------------------------------
(* The inductive invariant *)

SyncInv == TypeOK /\ HolderInv /\ UnmarkedMeansSynced

\* No step changes whether there is a backup controller.
LEMMA BackupStays == [Next]_vars => hasBackup' = hasBackup
  <1> USE DEF secondary
  <1>1. ASSUME NEW p \in Procs, Start(p) \/ Command(p)
        PROVE  hasBackup' = hasBackup
    BY <1>1 DEF Start, StartAdd, StartDelete, StartSync, StartSyncAfterCleanup,
       Command, StoreUserRouting, RemoveUserRouting, DeleteLdapUser,
       RestoreUserRouting, RecordPendingBackupSync
  <1>2. ASSUME NEW p \in Procs, Sync(p) \/ SyncFails(p) \/ Crash(p)
        PROVE  hasBackup' = hasBackup
    BY <1>2 DEF Sync, NoSlurmBackup, ClearWithoutBackup, LockAndReadSnapshot,
       PushSucceeds, PushFails, ClearPendingBackupSync, SyncFails, Crash
  <1>3. ASSUME NEW s \in late, LateHelper(s) PROVE hasBackup' = hasBackup
    BY <1>3 DEF LateHelper
  <1>4. ASSUME Seed PROVE hasBackup' = hasBackup
    BY <1>4 DEF Seed, StartSeed, MergeRegistry, DisableRegistry
  <1>5. CASE UNCHANGED vars
    BY <1>5 DEF vars
  <1> QED BY <1>1, <1>2, <1>3, <1>4, <1>5 DEF Next

\* HolderInv and UnmarkedMeansSynced hold together: what the lock holder knows
\* is what makes the removal of the marker safe.
THEOREM SyncInvariant == Spec => []SyncInv
  <1>1. Init => SyncInv
    <2> SUFFICES ASSUME Init PROVE SyncInv
      OBVIOUS
    <2>1. TypeOK
      BY IdleType DEF Init, TypeOK, Registry, Entries, Markers, NotSeeding
    <2>2. \A p \in Procs : cli[p].pc = "idle"
      BY DEF Init, Idle
    <2> QED
      BY <2>1, <2>2 DEF Init, SyncInv, HolderInv, UnmarkedMeansSynced, Pushing
  <1>2. SyncInv /\ [Next]_vars /\ TypeOK' => SyncInv'
    <2> SUFFICES ASSUME SyncInv, [Next]_vars, TypeOK'
                 PROVE  HolderInv' /\ UnmarkedMeansSynced'
      BY DEF SyncInv
    <2> USE DEF SyncInv, TypeOK, HolderInv, UnmarkedMeansSynced, Pushing
    <2>0. /\ Idle \in CliState /\ Idle.pc = "idle" /\ Idle.seen = NoMarker
      BY IdleType DEF Idle
    <2>9. hasBackup' = hasBackup
      BY BackupStays
    <2> USE <2>9
    <2>1. ASSUME NEW p \in Procs, Start(p)
          PROVE  HolderInv' /\ UnmarkedMeansSynced'
      <3>1. /\ \A q \in Procs \ {p} : cli'[q] = cli[q]
            /\ cli'[p].pc \in {"store", "remove", "sync"}
            /\ UNCHANGED <<users, marker, backup, syncLock, lateLanded>>
        <4>1. ASSUME NEW u \in Users, NEW r \in Routings, StartAdd(p, u, r)
              PROVE  cli'[p].pc = "store"
          BY <2>0, <4>1 DEF StartAdd, CliState
        <4>2. ASSUME NEW u \in Users, StartDelete(p, u)
              PROVE  cli'[p].pc = "remove"
          BY <2>0, <4>2 DEF StartDelete, CliState
        <4>3. ASSUME StartSync(p) \/ StartSyncAfterCleanup(p)
              PROVE  cli'[p].pc = "sync"
          BY <2>0, <4>3 DEF StartSync, StartSyncAfterCleanup, Resume, CliState
        <4> QED
          BY <2>1, <4>1, <4>2, <4>3 DEF Start, StartAdd, StartDelete,
             StartSync, StartSyncAfterCleanup, Resume, primary, secondary
      <3> QED
        BY <3>1
    <2>2. ASSUME NEW p \in Procs, Command(p)
          PROVE  HolderInv' /\ UnmarkedMeansSynced'
      <3>1. /\ \A q \in Procs \ {p} : cli'[q] = cli[q]
            /\ cli'[p].pc \in {"idle", "sync", "restore"}
            /\ UNCHANGED <<backup, syncLock, lateLanded>>
        BY <2>0, <2>2 DEF Command, StoreUserRouting, RemoveUserRouting,
           DeleteLdapUser, RestoreUserRouting, RecordPendingBackupSync,
           Finish, Goto, Resume, CliState, primary, secondary
      <3>2. \/ UNCHANGED <<users, marker>>
            \/ marker' \in Gens /\ \A q \in Procs : marker' # cli[q].seen
        BY <2>2 DEF Command, StoreUserRouting, RemoveUserRouting,
           DeleteLdapUser, RestoreUserRouting, RecordPendingBackupSync,
           MarkBackupSyncPending, Fresh, primary
      <3> QED
        BY <3>1, <3>2
    <2>3. ASSUME NEW p \in Procs, Sync(p)
          PROVE  HolderInv' /\ UnmarkedMeansSynced'
      <3>0. \A q \in Procs \ {p} : cli'[q] = cli[q]
        BY <2>3 DEF Sync, NoSlurmBackup, ClearWithoutBackup,
           LockAndReadSnapshot, PushSucceeds, ClearPendingBackupSync,
           PushFails, AfterSync, AfterSyncError, Finish, Resume, CliState
      <3>1. CASE NoSlurmBackup(p)
        <4>1. /\ UNCHANGED <<users, marker, backup, syncLock, lateLanded>>
              /\ cli'[p].pc \in {"idle", "ldap", "unmark"}
              /\ ~hasBackup
          BY <2>0, <3>1 DEF NoSlurmBackup, AfterSync, Finish, CliState,
             primary, secondary
        <4> QED
          BY <3>0, <4>1
      <3>2. CASE ClearWithoutBackup(p)
        <4>1. /\ UNCHANGED <<users, backup, syncLock, lateLanded>>
              /\ cli'[p].pc \in {"idle", "ldap"}
              /\ ~hasBackup
          BY <2>0, <3>2 DEF ClearWithoutBackup, AfterSync, Finish, CliState,
             secondary
        <4> QED
          BY <3>0, <4>1
      <3>3. CASE LockAndReadSnapshot(p)
        <4>1. /\ UNCHANGED <<users, marker, backup, lateLanded>>
              /\ syncLock = {} /\ syncLock' = {p} /\ hasBackup
              /\ cli'[p].pc = "push" /\ cli'[p].seen = marker
              /\ cli'[p].snap.users = users
          BY <3>3 DEF LockAndReadSnapshot, CliState, primary, secondary
        <4>2. \A q \in Procs \ {p} : cli'[q].pc \notin Pushing
          BY <3>0, <4>1
        <4> QED
          BY <3>0, <4>1, <4>2
      <3>4. CASE PushSucceeds(p)
        <4>1. /\ UNCHANGED <<users, marker, syncLock>>
              /\ cli[p].pc = "push" /\ cli'[p].pc = "clear"
              /\ cli'[p].seen = cli[p].seen
              /\ backup' = cli[p].snap.users
          BY <3>4 DEF PushSucceeds, Helper, CliState, primary
        <4>2. \A q \in Procs \ {p} : cli'[q].pc \notin Pushing
          BY <3>0, <4>1
        <4> QED
          BY <3>0, <4>1, <4>2
      <3>5. CASE ClearPendingBackupSync(p)
        <4>1. /\ UNCHANGED <<users, backup, lateLanded>>
              /\ cli[p].pc = "clear" /\ cli'[p].pc \in {"idle", "ldap"}
              /\ \/ marker' = marker
                 \/ marker = cli[p].seen
          BY <2>0, <3>5 DEF ClearPendingBackupSync, AfterSync, Finish,
             CliState, secondary
        <4>2. \A q \in Procs \ {p} : cli'[q].pc \notin Pushing
          BY <3>0, <4>1
        <4> QED
          BY <3>0, <4>1, <4>2
      <3>6. CASE PushFails(p)
        <4>1. /\ UNCHANGED <<users, marker, lateLanded>>
              /\ cli'[p].pc \in {"restore", "record"}
              /\ syncLock' = syncLock \ {p}
              /\ \/ backup' = backup
                 \/ cli[p].pc = "push" /\ backup' = cli[p].snap.users
          BY <2>0, <3>6 DEF PushFails, HelperFate, Helper, AfterSyncError,
             Resume, CliState, primary
        <4> QED
          BY <3>0, <4>1
      <3> QED
        BY <2>3, <3>1, <3>2, <3>3, <3>4, <3>5, <3>6 DEF Sync
    <2>4. ASSUME NEW p \in Procs, Crash(p)
          PROVE  HolderInv' /\ UnmarkedMeansSynced'
      <3>1. /\ UNCHANGED <<users, marker, lateLanded>>
            /\ cli'[p].pc = "idle"
            /\ \A q \in Procs \ {p} : cli'[q] = cli[q]
            /\ syncLock' = syncLock \ {p}
            /\ \/ backup' = backup
               \/ cli[p].pc = "push" /\ backup' = cli[p].snap.users
        BY <2>0, <2>4 DEF Crash, HelperFate, Helper, Finish, primary
      <3> QED
        BY <3>1
    <2>8. ASSUME NEW p \in Procs, SyncFails(p)
          PROVE  HolderInv' /\ UnmarkedMeansSynced'
      <3>1. /\ UNCHANGED <<users, marker, backup, lateLanded>>
            /\ cli'[p].pc \in {"restore", "record"}
            /\ \A q \in Procs \ {p} : cli'[q] = cli[q]
            /\ syncLock' = syncLock \ {p}
        BY <2>0, <2>8 DEF SyncFails, AfterSyncError, Resume, CliState,
           primary, secondary
      <3> QED
        BY <3>1
    <2>5. ASSUME NEW s \in late, LateHelper(s)
          PROVE  HolderInv' /\ UnmarkedMeansSynced'
      BY <2>5 DEF LateHelper, primary
    <2>6. ASSUME Seed
          PROVE  HolderInv' /\ UnmarkedMeansSynced'
      <3>1. /\ UNCHANGED <<marker, syncLock, cli, lateLanded>>
            /\ \A u \in Users \ {Boot} : /\ users'[u] = users[u]
                                        /\ backup'[u] = backup[u]
        BY <2>6 DEF Seed, StartSeed, MergeRegistry, DisableRegistry, Registry,
           primary, secondary
      <3> QED
        BY <3>1
    <2>7. CASE UNCHANGED vars
      BY <2>7 DEF vars
    <2> QED
      BY <2>1, <2>2, <2>3, <2>4, <2>5, <2>6, <2>7, <2>8 DEF Next
  <1> QED
    BY <1>1, <1>2, TypeCorrect, PTL DEF Spec

\* A registry without a pending marker has reached the backup controller, for
\* every user but the Terraform-managed one and until a helper that outlived
\* its ssh client writes.
THEOREM UnmarkedIsSynced == Spec => []UnmarkedMeansSynced
  BY SyncInvariant, PTL DEF SyncInv

\* The remote writes of all invocations are serialised by the sync lock.
THEOREM RemoteWritesSerialised == Spec => []SyncSerialised
  <1>1. SyncInv => SyncSerialised
    BY DEF SyncInv, HolderInv, SyncSerialised
  <1> QED
    BY <1>1, SyncInvariant, PTL

-----------------------------------------------------------------------------
(* Refinement: BackupSync implements ReplicatedRegistry *)

\* The snapshots that may still be written: those of the invocations that push,
\* and those of the helpers whose ssh client is gone.
Pushed == {Owned(cli[p].snap.users) : p \in {q \in Procs : cli[q].pc = "push"}}
Strays == {Owned(s.users) : s \in late}
Snaps  == Pushed \cup Strays
Loose  == lateLanded \/ ~hasBackup

\* The steps of ReplicatedRegistry in terms of the variables of BackupSync.

\* A step that changes neither registry nor a snapshot is a stutter of the promise.
LEMMA ReplicationStutters ==
    ASSUME UNCHANGED <<Owned(users), Owned(backup), marker # NoMarker,
                       Snaps, Loose>>
    PROVE  [Replication!Next]_(Replication!vars)
  BY DEF Replication!vars, Snaps, Pushed, Strays, Loose

\* A change of the source is marked in the same step.
LEMMA ReplicationMarks ==
    ASSUME \/ Owned(users') = Owned(users)
           \/ \E u \in OwnedUsers, e \in Entries :
                 Owned(users') = [Owned(users) EXCEPT ![u] = e],
           marker' # NoMarker,
           UNCHANGED <<Owned(backup), Snaps, Loose>>
    PROVE  [Replication!Next]_(Replication!vars)
  BY DEF Replication!Next, Replication!Change, Replication!Mark, Snaps, Pushed, Strays, Loose

\* A process reads a whole snapshot of the source.
LEMMA ReplicationReads ==
    ASSUME UNCHANGED <<Owned(users), Owned(backup), marker # NoMarker, Loose>>,
           Snaps' = Snaps \cup {Owned(users)}
    PROVE  [Replication!Next]_(Replication!vars)
  BY DEF Replication!Next, Replication!Read, Snaps, Pushed, Strays, Loose

\* The mark goes when copy and source are equal, or the promise is suspended.
LEMMA ReplicationSettles ==
    ASSUME UNCHANGED <<Owned(users), Owned(backup), Snaps, Loose>>,
           marker' = NoMarker,
           Loose \/ Owned(backup) = Owned(users)
    PROVE  [Replication!Next]_(Replication!vars)
  BY DEF Replication!Next, Replication!Settle, Snaps, Pushed, Strays, Loose

\* The copy is replaced by a whole snapshot that was read.
LEMMA ReplicationWrites ==
    ASSUME NEW s \in Snaps,
           UNCHANGED <<Owned(users), marker # NoMarker>>,
           Owned(backup') = s,
           Snaps' \in {Snaps, Snaps \ {s}},
           ~Loose' \/ UNCHANGED Loose,
           Loose' \/ marker # NoMarker \/ s = Owned(users)
    PROVE  [Replication!Next]_(Replication!vars)
  BY DEF Replication!Next, Replication!Write, Replication!Spend, Snaps, Pushed, Strays, Loose

\* A process gives its snapshot up, or has used it.
LEMMA ReplicationGivesUp ==
    ASSUME NEW s \in Snaps,
           UNCHANGED <<Owned(users), Owned(backup), marker # NoMarker, Loose>>,
           Snaps' \in {Snaps, Snaps \ {s}}
    PROVE  [Replication!Next]_(Replication!vars)
  BY DEF Replication!Next, Replication!GiveUp, Replication!Spend, Snaps, Pushed, Strays, Loose

\* A helper without a client writes, and the promise is suspended.
LEMMA ReplicationStrays ==
    ASSUME NEW s \in Snaps,
           UNCHANGED <<Owned(users), marker # NoMarker>>,
           Owned(backup') \in {Owned(backup), s},
           Snaps' \in {Snaps, Snaps \ {s}},
           Loose'
    PROVE  [Replication!Next]_(Replication!vars)
  BY DEF Replication!Next, Replication!Stray, Replication!Spend, Snaps, Pushed, Strays, Loose

\* An entry of the bootstrap user is none that ReplicatedRegistry speaks of.
LEMMA OwnedChange ==
    ASSUME users \in Registry, NEW u \in Users, NEW e \in Entries,
           users' = [users EXCEPT ![u] = e]
    PROVE  \/ Owned(users') = Owned(users)
           \/ \E v \in OwnedUsers :
                 Owned(users') = [Owned(users) EXCEPT ![v] = e]
  BY DEF Owned, OwnedUsers, Registry

\* Registries that agree on all users but the bootstrap user.
LEMMA OwnedSame ==
    ASSUME NEW f, NEW g, \A u \in Users \ {Boot} : f[u] = g[u]
    PROVE  Owned(f) = Owned(g)
  BY DEF Owned, OwnedUsers

\* Nobody begins or ends a push.
LEMMA PushedSame ==
    ASSUME NEW p \in Procs, \A q \in Procs \ {p} : cli'[q] = cli[q],
           cli[p].pc # "push", cli'[p].pc # "push"
    PROVE  Pushed' = Pushed
  BY DEF Pushed

\* The holder of the sync lock is the only one that pushes.
LEMMA OnePush ==
    ASSUME SyncInv, NEW p \in Procs, cli[p].pc = "push"
    PROVE  Pushed = {Owned(cli[p].snap.users)}
  BY DEF SyncInv, HolderInv, Pushing, Pushed

\* Every step of BackupSync is one of ReplicatedRegistry, or changes nothing
\* there.
LEMMA StepReplicates ==
    ASSUME SyncInv, [Next]_vars
    PROVE  [Replication!Next]_(Replication!vars)
  <1> USE DEF SyncInv, TypeOK
  <1>0. Idle \in CliState /\ Idle.pc = "idle"
    BY IdleType DEF Idle
  <1>1. ASSUME NEW p \in Procs, Start(p)
        PROVE  [Replication!Next]_(Replication!vars)
    <2>1. /\ \A q \in Procs \ {p} : cli'[q] = cli[q]
          /\ cli[p].pc # "push" /\ cli'[p].pc # "push"
          /\ UNCHANGED <<users, marker, backup, hasBackup, late, lateLanded>>
      <3>1. ASSUME NEW u \in Users, NEW r \in Routings, StartAdd(p, u, r)
            PROVE  cli'[p].pc = "store"
        BY <1>0, <3>1 DEF StartAdd, CliState
      <3>2. ASSUME NEW u \in Users, StartDelete(p, u)
            PROVE  cli'[p].pc = "remove"
        BY <1>0, <3>2 DEF StartDelete, CliState
      <3>3. ASSUME StartSync(p) \/ StartSyncAfterCleanup(p)
            PROVE  cli'[p].pc = "sync"
        BY <1>0, <3>3 DEF StartSync, StartSyncAfterCleanup, Resume, CliState
      <3> QED
        BY <1>1, <3>1, <3>2, <3>3 DEF Start, StartAdd, StartDelete, StartSync,
           StartSyncAfterCleanup, Resume, primary, secondary
    <2>2. Pushed' = Pushed
      BY <2>1, PushedSame
    <2> QED
      BY <2>1, <2>2, ReplicationStutters DEF Snaps, Strays, Loose
  <1>2. ASSUME NEW p \in Procs, Command(p)
        PROVE  [Replication!Next]_(Replication!vars)
    <2>1. /\ \A q \in Procs \ {p} : cli'[q] = cli[q]
          /\ cli[p].pc # "push" /\ cli'[p].pc # "push"
          /\ UNCHANGED <<backup, hasBackup, late, lateLanded>>
      BY <1>0, <1>2 DEF Command, StoreUserRouting, RemoveUserRouting,
         DeleteLdapUser, RestoreUserRouting, RecordPendingBackupSync,
         Finish, Goto, Resume, CliState, primary, secondary
    <2>2. \/ UNCHANGED <<users, marker>>
          \/ /\ marker' \in Gens
             /\ \/ users' = users
                \/ \E u \in Users, e \in Entries : users' = [users EXCEPT ![u] = e]
      <3>1. cli[p].user \in Users /\ cli[p].entry \in Entries /\ NoRouting \in Entries
        BY DEF CliState, Entries
      <3>2. CASE StoreUserRouting(p)
        BY <3>1, <3>2 DEF StoreUserRouting, MarkBackupSyncPending
      <3>3. CASE RemoveUserRouting(p)
        BY <3>1, <3>3 DEF RemoveUserRouting, MarkBackupSyncPending
      <3>4. CASE RestoreUserRouting(p)
        BY <3>1, <3>4 DEF RestoreUserRouting, MarkBackupSyncPending
      <3>5. CASE DeleteLdapUser(p) \/ RecordPendingBackupSync(p)
        BY <3>5 DEF DeleteLdapUser, RecordPendingBackupSync,
           MarkBackupSyncPending, primary
      <3> QED
        BY <1>2, <3>2, <3>3, <3>4, <3>5 DEF Command
    <2>3. UNCHANGED <<Owned(backup), Snaps, Loose>>
      BY <2>1, PushedSame DEF Snaps, Strays, Loose
    <2>4. CASE UNCHANGED <<users, marker>>
      BY <2>3, <2>4, ReplicationStutters
    <2>5. CASE /\ marker' \in Gens
               /\ \/ users' = users
                  \/ \E u \in Users, e \in Entries : users' = [users EXCEPT ![u] = e]
      <3>1. \/ Owned(users') = Owned(users)
            \/ \E u \in OwnedUsers, e \in Entries :
                  Owned(users') = [Owned(users) EXCEPT ![u] = e]
        BY <2>5, OwnedChange
      <3> QED
        BY <2>3, <2>5, <3>1, ReplicationMarks
    <2> QED
      BY <2>2, <2>4, <2>5
  <1>3. ASSUME NEW p \in Procs, NoSlurmBackup(p) \/ SyncFails(p)
        PROVE  [Replication!Next]_(Replication!vars)
    <2>1. /\ \A q \in Procs \ {p} : cli'[q] = cli[q]
          /\ cli[p].pc # "push" /\ cli'[p].pc # "push"
          /\ UNCHANGED <<users, marker, backup, hasBackup, late, lateLanded>>
      BY <1>0, <1>3 DEF NoSlurmBackup, SyncFails, AfterSync, AfterSyncError,
         Finish, Resume, CliState, primary, secondary
    <2>2. Pushed' = Pushed
      BY <2>1, PushedSame
    <2> QED
      BY <2>1, <2>2, ReplicationStutters DEF Snaps, Strays, Loose
  <1>4. ASSUME NEW p \in Procs, ClearWithoutBackup(p) \/ ClearPendingBackupSync(p)
        PROVE  [Replication!Next]_(Replication!vars)
    <2>1. /\ \A q \in Procs \ {p} : cli'[q] = cli[q]
          /\ cli[p].pc # "push" /\ cli'[p].pc # "push"
          /\ UNCHANGED <<users, backup, hasBackup, late, lateLanded>>
      BY <1>0, <1>4 DEF ClearWithoutBackup, ClearPendingBackupSync, AfterSync,
         Finish, CliState, secondary
    <2>2. UNCHANGED <<Owned(users), Owned(backup), Snaps, Loose>>
      BY <2>1, PushedSame DEF Snaps, Strays, Loose
    <2>3. CASE marker' = marker
      BY <2>2, <2>3, ReplicationStutters
    <2>4. CASE marker' # marker
      <3>1. marker' = NoMarker /\ marker = cli[p].seen
        BY <1>4, <2>4 DEF ClearWithoutBackup, ClearPendingBackupSync
      <3>2. Loose \/ Owned(backup) = Owned(users)
        <4>1. CASE ClearWithoutBackup(p)
          BY <4>1 DEF ClearWithoutBackup, HolderInv, Loose
        <4>2. CASE ClearPendingBackupSync(p)
          BY <3>1, <4>2, OwnedSame DEF ClearPendingBackupSync, HolderInv, Loose
        <4> QED
          BY <1>4, <4>1, <4>2
      <3> QED
        BY <2>2, <3>1, <3>2, ReplicationSettles
    <2> QED
      BY <2>3, <2>4
  <1>5. ASSUME NEW p \in Procs, LockAndReadSnapshot(p)
        PROVE  [Replication!Next]_(Replication!vars)
    <2>1. /\ UNCHANGED <<users, marker, backup, hasBackup, late, lateLanded>>
          /\ syncLock = {} /\ cli'[p].pc = "push"
          /\ cli'[p].snap.users = users
          /\ \A q \in Procs \ {p} : cli'[q] = cli[q]
      BY <1>5 DEF LockAndReadSnapshot, CliState, primary, secondary
    <2>2. Pushed = {} /\ Pushed' = {Owned(users)}
      BY <2>1 DEF Pushed, HolderInv, Pushing
    <2> QED
      BY <2>1, <2>2, ReplicationReads DEF Snaps, Strays, Loose
  <1>6. ASSUME NEW p \in Procs, PushSucceeds(p)
        PROVE  [Replication!Next]_(Replication!vars)
    <2>1. /\ UNCHANGED <<users, marker, hasBackup, late>>
          /\ cli[p].pc = "push" /\ cli'[p].pc = "clear"
          /\ backup' = cli[p].snap.users
          /\ ~lateLanded' /\ hasBackup
          /\ \A q \in Procs \ {p} : cli'[q] = cli[q]
      BY <1>6 DEF PushSucceeds, Helper, CliState, primary, HolderInv, Pushing
    <2>2. Pushed = {Owned(cli[p].snap.users)} /\ Pushed' = {}
      BY <2>1, OnePush DEF Pushed, HolderInv, Pushing
    <2>3. marker # NoMarker \/ Owned(cli[p].snap.users) = Owned(users)
      BY <2>1, OwnedSame DEF HolderInv, Pushing
    <2>4. Snaps' \in {Snaps, Snaps \ {Owned(cli[p].snap.users)}}
      BY <2>1, <2>2 DEF Snaps, Strays
    <2> QED
      BY <2>1, <2>2, <2>3, <2>4, ReplicationWrites DEF Snaps, Loose
  <1>7. ASSUME NEW p \in Procs, PushFails(p) \/ Crash(p)
        PROVE  [Replication!Next]_(Replication!vars)
    <2>1. /\ UNCHANGED <<users, marker, hasBackup, lateLanded>>
          /\ cli'[p].pc # "push"
          /\ \A q \in Procs \ {p} : cli'[q] = cli[q]
      BY <1>0, <1>7 DEF PushFails, Crash, AfterSyncError, Finish, Resume,
         CliState, primary
    <2>2. CASE cli[p].pc # "push"
      <3>1. UNCHANGED <<backup, late>>
        BY <1>7, <2>2 DEF PushFails, Crash
      <3>2. Pushed' = Pushed
        BY <2>1, <2>2, PushedSame
      <3> QED
        BY <2>1, <3>1, <3>2, ReplicationStutters DEF Snaps, Strays, Loose
    <2>3. CASE cli[p].pc = "push"
      <3> DEFINE s == Owned(cli[p].snap.users)
      <3>1. /\ \/ UNCHANGED <<backup, late>>
               \/ backup' = cli[p].snap.users /\ UNCHANGED late
               \/ late' = late \cup {cli[p].snap} /\ UNCHANGED backup
        BY <1>7, <2>3 DEF PushFails, Crash, HelperFate, Helper
      <3>2. Pushed = {s} /\ Pushed' = {}
        BY <2>1, <2>3, OnePush DEF Pushed, HolderInv, Pushing
      <3>3. marker # NoMarker \/ s = Owned(users)
        BY <2>3, OwnedSame DEF HolderInv, Pushing
      <3>4. Snaps' \in {Snaps, Snaps \ {s}}
        <4>1. Strays' = Strays \/ Strays' = Strays \cup {s}
          BY <3>1 DEF Strays
        <4> QED
          BY <3>2, <4>1 DEF Snaps
      <3>5. s \in Snaps
        BY <3>2 DEF Snaps
      <3>6. UNCHANGED <<Owned(users), marker # NoMarker, Loose>>
        BY <2>1 DEF Loose
      <3> HIDE DEF s
      <3>7. CASE backup' = backup
        BY <3>4, <3>5, <3>6, <3>7, ReplicationGivesUp
      <3>8. CASE backup' = cli[p].snap.users
        BY <3>3, <3>4, <3>5, <3>6, <3>8, ReplicationWrites DEF s
      <3> QED
        BY <3>1, <3>7, <3>8
    <2> QED
      BY <2>2, <2>3
  <1>8. ASSUME NEW t \in late, LateHelper(t)
        PROVE  [Replication!Next]_(Replication!vars)
    <2> DEFINE s == Owned(t.users)
    <2>1. /\ UNCHANGED <<users, marker, cli>>
          /\ late' = late \ {t} /\ lateLanded'
          /\ backup' = backup \/ backup' = t.users
      BY <1>8 DEF LateHelper, Helper, primary
    <2>2. Snaps' \in {Snaps, Snaps \ {s}}
      <3>1. Strays' = Strays \/ Strays' = Strays \ {s}
        BY <2>1 DEF Strays
      <3>2. Pushed' = Pushed
        BY <2>1 DEF Pushed
      <3> QED
        BY <3>1, <3>2 DEF Snaps
    <2>3. s \in Snaps
      BY DEF Snaps, Strays
    <2> QED
      BY <2>1, <2>2, <2>3, ReplicationStrays DEF Loose
  <1>9. ASSUME Seed
        PROVE  [Replication!Next]_(Replication!vars)
    <2>1. /\ UNCHANGED <<marker, cli, late, lateLanded, hasBackup>>
          /\ \A u \in Users \ {Boot} : /\ users'[u] = users[u]
                                      /\ backup'[u] = backup[u]
      BY <1>9 DEF Seed, StartSeed, MergeRegistry, DisableRegistry, Registry,
         primary, secondary
    <2>2. Owned(users') = Owned(users) /\ Owned(backup') = Owned(backup)
      BY <2>1, OwnedSame
    <2> QED
      BY <2>1, <2>2, ReplicationStutters DEF Snaps, Pushed, Strays, Loose
  <1>10. CASE UNCHANGED vars
    BY <1>10, ReplicationStutters DEF vars, Snaps, Pushed, Strays, Loose
  <1> QED
    BY <1>1, <1>2, <1>3, <1>4, <1>5, <1>6, <1>7, <1>8, <1>9, <1>10
    DEF Next, Sync

\* Replication of the registry by the cluster CLI implements ReplicatedRegistry:
\* whatever locks, retries, restores and crashes it is made of, the backup is only
\* replaced by whole snapshots, a change and its marker are one step, and the
\* marker goes only when the backup is the primary or out of control.
THEOREM SyncRefinesReplication == Spec => ReplicationSpec
  <1>1. Init => Replication!Init
    <2> SUFFICES ASSUME Init PROVE Replication!Init
      OBVIOUS
    <2>1. users \in Registry
      BY DEF Init, Registry, Entries
    <2>2. Owned(users) \in [OwnedUsers -> Entries]
      BY <2>1 DEF Owned, OwnedUsers, Registry
    <2>3. \A p \in Procs : cli[p].pc = "idle"
      BY DEF Init, Idle
    <2>4. Pushed = {} /\ Strays = {}
      BY <2>3 DEF Pushed, Strays, Init
    <2> QED
      BY <2>2, <2>4 DEF Init, Replication!Init, Pushed, Strays
  <1>2. SyncInv /\ [Next]_vars => [Replication!Next]_(Replication!vars)
    BY StepReplicates
  <1> QED
    BY <1>1, <1>2, SyncInvariant, PTL DEF Spec, ReplicationSpec, Replication!Spec

=============================================================================

# A TLA+ verification project for the OCI HPC stack

The repository is a Terraform / Ansible stack that creates a Slurm cluster on
Oracle Cloud Infrastructure (OCI), together with the programs that run on its
controller afterwards. Most of it is declarative configuration. The part that
keeps state, takes locks, talks to unreliable services and has to survive
crashes is a handful of Python programs and shell scripts; those are what this
project models, model-checks with TLC and proves theorems about with TLAPS.

`PROJECT.json` maps every definition to the source lines it models, and lists
components, runs, mutants, findings, hazards and theorems.

## Inventory

| Part | Source | State it keeps | Operations |
|---|---|---|---|
| Registry replication | `playbooks/roles/cluster-cli/files/cluster` | `slurm_notification_users.json` on the primary and the backup controller, the `pending_backup_sync` marker, `.lock`, `.sync.lock` | store, remove, restore a routing; synchronise; set and clear the marker |
| Registry seed | `playbooks/roles/slurm/files/slurm_notification_registry_seed.py` | both registries, history of cleanup scopes | merge, disable |
| Notification users | `cluster` | OCI topics and subscriptions, LDAP users, registry, journal `pending_cleanup` | `user add`, `user delete`, `notification cleanup` |
| MailProg | `playbooks/roles/slurm/files/slurm_oci_mailprog.py` | spool directory | look up the routing, queue one message per Slurm event |
| Delivery worker | `playbooks/roles/slurm/files/slurm_oci_notify_worker.py` | spool, `failed/`, `.worker.lock` with the time of the last attempt | publish, retry, expire, discard, quarantine, pace |
| Destroy cleanup | `playbooks/roles/slurm/files/slurm_oci_notification_cleanup.py` | OCI topics | list, validate ownership, delete, poll |
| Cluster life cycle | `bin/create_cluster.sh`, `bin/delete_cluster.sh`, `bin/resize.sh`, `bin/cleanup.sh` | cluster directory, `currently_building`, `currently_resizing`, `currently_destroying`, `.oci-hpc-resize.lock`, Terraform state | create, resize, destroy |
| Pool resize | `bin/resize.py` | instance pool, block volumes, journal of pending removals, DNS, pool size in the Terraform state, inventory | add, remove, resume a removal, reconfigure, list, clean up |
| Compute clusters | `bin/resize.py` (mode CC) | instances launched one by one, Terraform state | launch, roll back, terminate untracked instances |
| Autoscaler | `autoscaling/crontab/autoscale_slurm_disable-resize.sh` | clusters directory, lock file, Slurm queue | one cron pass: read the queue, delete idle clusters, build missing ones |
| Configuration | `*.tf`, `playbooks/`, `samples/`, `scripts/` | none of its own | applied by Terraform and Ansible |

How the parts interact. Slurm starts MailProg for every event; MailProg reads
the registry and writes a spool file; a path unit and a timer start the worker,
which reads the registry too and calls OCI. The `cluster` command writes the
registry of the primary controller and pushes it to the backup over ssh; every
`terraform apply` seeds both registries through Ansible without going through
the command. `user add`, `user delete` and `notification cleanup` create and
delete OCI topics and journal what they could not delete; the destroy cleanup
deletes what is left by the tags of the topics. The autoscaler and operators
start the life cycle scripts, which know of each other only through marker files
and one lock; `delete_cluster.sh` runs `resize.py` for the instances that
Terraform does not know of, and `resize.py` refuses a cluster that is marked
as being destroyed.

What is hard here:

* **Interleaving.** Several invocations of one command act between any two
  calls of another; locks cover single updates, not whole commands.
* **Partial failure.** A command is a sequence of remote calls, each of which
  may fail, with or without having taken effect, and is then rolled back by
  calls that may fail too.
* **Crashes.** Every process can be killed; markers, journals and spool files
  are all that is left.
* **Old listings.** The autoscaler, the destroy cleanup and an add to a Compute
  Cluster list things and act on the list while others come and go.
* **Time.** Timeouts that stop the client and not the server, retries, expiry,
  a pace that has to survive runs, and a wall clock that is set back.

`PROJECT.json` lists each hazard at its line, with the properties that would
catch it.

What makes each part correct: a change of the registry is on the backup or
marked; nothing queued disappears unseen and everything queued leaves; no two
publish attempts are too close; nothing works on a cluster that is being
destroyed and no directory is removed while its resources exist; no command
deletes a topic that is in use or loses sight of one that is not; a removal
of nodes that stops half-way is remembered until it is completed, and an add
that fails leaves no instance behind; a Destroy deletes exactly the topics of its
deployment; a notification tells as much as OCI accepts; the autoscaler keeps its
limits, takes no cluster from under a job that `sinfo` showed as running on it (it does
take one from under other jobs, see Findings), and serves what it can.

## Modules

| Module | Models | Proofs | Model-checked by |
|---|---|---|---|
| `ReplicatedRegistry` | what the replication promises (abstract) | `BackupSyncProofs` (refinement) | `backup_sync`, as a property |
| `BackupSync` | registry replication, seed | `BackupSyncProofs` | `backup_sync`, `backup_sync_late` |
| `AtLeastOnce` | what the spool promises (abstract) | `NotifySpoolProofs` (refinement) | `notify_spool`, as a property |
| `NotifySpool` | MailProg and worker | `NotifySpoolProofs` | `notify_spool` |
| `MailProg` | one run of MailProg: title, table, limits | `MailProgProofs` | `mail_prog` |
| `PublishPacing` | the worker's pace | `NotifySpoolProofs` | `publish_pacing` |
| `ClusterLifecycle` | create, resize, delete scripts | `ClusterLifecycleProofs` | `cluster_lifecycle` |
| `NotificationUsers` | user add / delete, notification cleanup | `NotificationUsersProofs` | `notification_users`, `notification_half_user` |
| `DestroyCleanup` | applies and Destroy, topics and their tags | `DestroyCleanupProofs` | `destroy_cleanup` |
| `PoolResize` | `resize.py` on instance pools and Compute Clusters | `PoolResizeProofs` | `pool_resize`, `pool_add_shrinks` |
| `Autoscaler` | a cron pass beside Slurm and the scripts it starts | `AutoscalerProofs` | `autoscaler` |

`MCBackupSync` and `MCNotificationUsers` add only symmetry sets, `MCMailProg` the
texts and `MCAutoscaler` the sizes of the jobs. The others are checked as they
are. Definitions that sit directly before an action and differ from it by one
plausible mistake (`RestoreOnBoth`, `RetryVolumeOnce`, ...) are used by no
specification: they are the mutants that show that each property can fail.

The modules meet at boundaries that each of them abstracts: `NotificationUsers`
lets a synchronisation succeed or fail, and `BackupSync` is what a
synchronisation does; `NotifySpool` lets the wait before an attempt be any delay,
`PublishPacing` is that wait; `NotifySpool` queues contents it does not look
into, and `MailProg` says what they are and that the worker accepts them;
`ClusterLifecycle` gives one resize the lock and lets it leave instances
behind, and `PoolResize` is what one run under the lock does; `Autoscaler` sees of
a creation and a deletion what they leave in the directory and in Slurm, and
`ClusterLifecycle` is what they do; `DestroyCleanup` finds the topics that
`NotificationUsers` counts as lost.

### ReplicatedRegistry and BackupSync

`ReplicatedRegistry` is the promise: a change of the source is marked in the same
step, the copy is only ever replaced by a whole snapshot, and the mark goes only
when copy and source are equal. `BackupSync` implements it under the mapping
`Replication` (source and copy are the routings of all users but the bootstrap
user, snapshots those of the processes that push and of late helpers). The promise is
suspended (`loose`) while a helper without a client has written, or there is no
backup.

`users`, `marker`, `scope`, `enabled` are the primary's registry, `backup` and
`bscope` the backup's. A process of `Procs` is one invocation of the command.
An update of the registry holds its flock from reload to rename, so it is one
action (`StoreUserRouting`, `RemoveUserRouting`, `RestoreUserRouting`, ...), and
sets a fresh marker. A synchronisation is four: take the sync lock and read the
snapshot, push it (with failure before or after the remote write), clear the
marker if it is still the one that was read, or record the failure. An ssh client
that times out or is killed may leave its helper behind (`late`), which writes
its snapshot whenever it likes. `Seed` is the Ansible role: each host in its
turn, under that host's registry lock only, without a marker, possibly with a
new scope. The bootstrap user belongs to Terraform.

### AtLeastOnce and NotifySpool

`AtLeastOnce` is the promise of at-least-once delivery, without runs, locks, files and
retries: a message is sent once; the receiver takes a queued one, and the sender
learns it (`confirmed`) or misses it; what was confirmed may be forgotten again; a
message leaves the queue once, because it is confirmed, or because it is worthless.
At most one message at a time is confirmed and not yet settled. `NotifySpool`
implements it under the mapping `Delivery`: a message is `confirmed` while a worker is
about to remove its file, `received` counts what OCI accepted, `missed` what a
timeout, a kill or a refused file operation hid from the spool, and worthless are
malformed and expired messages and those for a user who was routed elsewhere when the
run that looks at them began.

A message of `Msgs` stands for one event, its MailProg process and its file.
MailProg loads the registry, checks the capacity and writes the file in three
steps. A worker run takes the lock and reads the registry (`StartRun`), then lists
the files (`ListQueue`), and then examines the files in any order: skip,
quarantine, expire, discard (the user has another topic by now), attempt.
Publishing, the removal of the delivered file and the rewrite after a failure are
separate steps, with a kill possible between them; the file system may refuse each
change, and a timeout may hide that OCI accepted the message. Contents are
reduced to topic, validity, expiry, next attempt and number of attempts.

### MailProg

A character is what the code asks of it: its bytes in JSON, its columns in the
table, its bytes in UTF-8. A table is then a size, and so is a text. A size is
written as a number of elements, of all the bytes, rows and columns that it counts
(`Bytes`, `Rows`, `Beyond`): the provers know cardinalities, and no sums. The
binary searches (`SearchTable`, `LimitText`) run over candidates one probe per
step. `TellsAll` compares their result with the definition of the longest candidate
that fits. `Environment` is the other MailProg processes and the worker, as far as
the queue's length goes. `MaxJson` is the most bytes a character takes in JSON: 12,
the two escapes of a surrogate pair; the run has 6. That a cut title and the suffix alone
fit, the last conjunct of `MailProgAssumption`, is what 512 bytes of title are to
60 KiB.

### PublishPacing

Real time and the wall clock (`now - back`) are separate, so that the property
can speak of real time while the code reads the clock. The recorded time is
written in two steps (truncate, write) because the file is empty in between.

### ClusterLifecycle

A *generation* is one directory that had the cluster's name. A script that has
changed into its directory keeps it, a path finds the directory that has the
name now. One action per test, marker, lock operation, Terraform command and
removal, in the order of the scripts; `MaxADs` and `MaxTries` are the loops over
availability domains and destroy attempts.

A generation of `ComputeGens` is built as a Compute Cluster, another one as an
instance pool or cluster network. Instances that Terraform does not know of are of
two kinds. `extra` are those that `resize.py` finds again: added to the Compute
Cluster, or in the journal of a pool. `stray` are those it does not: detached from a
pool by a removal that stopped before the termination, with no volume of their own
that would have put them into the journal. `ComputeCleanup` succeeds without
terminating anything when the Terraform state has no Compute Cluster
(`resize.py:2003-2006`): for a pool, after it has taken up the journal, and for a
Compute Cluster that was never built or is gone already. The last case leaves no
instance behind because OCI refuses to delete a Compute Cluster that has instances
(`Deletable`), which `SoleOwner` turns into `extra` being empty.

### NotificationUsers

Each invocation is a process with a program counter over the calls of the command.
Every call to OCI, LDAP or the registry can fail, those to OCI and LDAP also
after taking effect, with one exception: a creation of a topic that fails with
anything but a timeout has not happened, as the comment at `cluster:704-706` takes it.
One that timed out has happened, or may still happen later (`asked`). `lost` is a history variable: the topics that a failure the
command reports, or a kill, has taken out of the registry, the journal and
every running command.

### DestroyCleanup

A topic has the tags that ownership is decided by: deployment, manager, scope,
and whether its cluster tags and its name agree with them. `Apply` is Terraform's
order: replace its own topic when the scope is new, run the seed, update the
sentinel; it can stop anywhere. A Destroy (`StartDestroy`) reads registry and
sentinel once, then alternates a listing with its validation, the deletions, and
the end of the round. One listing and one deletion is one OCI call. `user add` and
`user delete` that run already go on beside it. `run.seen` is history: the topics
that the listings of this Destroy have recognised as the deployment's. A topic with
the right tags is recognised; one whose tags were edited, or whose scope went with
the registry, need not be (`Unrecognisable`), and the promise of an empty stack
(`NothingLeft`) is about those that were.

### PoolResize

One run of `resize.py` at a time. `Start` chooses mode, `--nodes` and number,
and applies the rule for pending removals (a run resumes them, refuses, or goes
on). The resumption (`RetryDetach`, `RetryTerminate`, `RetryVolume`), the
finalisation (`FinalizeCheck`, `FinalizeDns`, `FinalizeState`,
`FinalizeJournal`), a removal (`Plan` to `Removed`) and an add (`Grow` to
`AddReconfigure`, with `Rollback`) are one action per call. `Abort` is a failing
call or a kill anywhere. `Settle` is OCI bringing the pool to its size.

A Compute Cluster (`kind = "compute"`) has no pool: `ListInstances` to
`CheckLaunched` launch one instance after another under the next number,
`UndoLaunch` takes them back by name, a removal only terminates, and the cleanup before
a destroy (`Sweep`) terminates what the Terraform state does not have. `twins` are
names that two active instances have, because a listing leaves out an instance
without a VNIC.

### Autoscaler

One pass: read the jobs, the nodes, their idle times, the directories (four steps,
between which everything else goes on), start deletions, start creations one by one.
Slurm starts jobs wherever they fit, also on clusters that are about to go. What a
pass knows of running jobs is what the script knows: `ShownRunning` are the clusters
that `sinfo` shows as allocated or mixed. A cluster whose nodes are drained, or do
not respond, is `unfit`: it has another state while its job runs (`Drain`: the health
check of the repository runs as Prolog and drains the node of the job that starts).
The other clusters are judged by `getIdleTime` (`ReadIdleTimes`): one without a job is
deleted when it is `old`. One with a job, or whose nodes have left Slurm by now, is
in `CountedFromStart`: the `End` of its job is `Unknown`, or Slurm has no node to ask
about, and the start of `slurmd` or a default decides, so that the model lets it be
deleted or not. A cluster is unfit as a whole; one of whose nodes only some are
drained still shows a running job. A creation and a deletion are what a pass can see
of them: the directory, its two markers, the nodes in Slurm.

`missed` and `shown` are history variables. `missed` are the clusters that the order
of the reads lets a pass count nowhere; a pass that finds the limit kept forgets the
older ones. `shown` are the jobs that the last `sinfo` showed as running on clusters
that no script is at work on; `JobsLostUnseenOnly` is about these, whatever happens
between `sinfo` and the deletion. Queues and instance types have limits of
their own and do not meet, so there is one of each.

## Runs

| Run | Checks | Instance and why it is enough |
|---|---|---|
| `backup_sync` | `TypeOK`, `UnmarkedMeansSynced`, `SyncSerialised`, `ReplicationSpec` (refinement) | Two invocations (the races are between two), the bootstrap user and one more, two scopes so that a seed can rename it, four generations so that markers of different updates are told apart, one late helper. |
| `backup_sync_late` | `OlderSnapshotNeverWins` is **violated** | See findings. |
| `notify_spool` | `TypeOK`, `NoSilentLoss`, `DuplicatesExcused`, `AttemptsBounded`, `DeliverySpec` (refinement), `EveryMessageLeaves` | Two messages at a queue limit of one with two MailProg processes at a time; one attempt per run, so that a message has to wait for later runs; two workers contend for the lock; the expiry allows two attempts and the clock runs past it; one kill or refused file operation on top of any number of timeouts. |
| `mail_prog` | `TypeOK`, `QueueBounded`, `QueuedIsValid`, `TellsAll`, `MailProgEnds` | Every text of up to four letters and wide characters, and combined ones, in two fields; a limit that some tables meet whole, some cut, and some not at all; titles that the limit cuts at and inside a character; three processes at a queue limit of two. |
| `publish_pacing` | `PacingTypeOK`, `AttemptsPaced` | Three intervals of real time, and a clock that is set back by more than an interval. |
| `cluster_lifecycle` | `TypeOK`, `ResizeExcludesDestroy`, `NoOrphans`, `MarkerHasOwner`, `MarkerCleared` | A creation that may fail and delete its cluster, a deletion with or without `FORCE`, two resizes, one kill, and a name that is used twice, for a Compute Cluster and then for a pool: every pair of scripts meets, on the same directory or on one that replaced it, and both branches of the cleanup are taken. |
| `notification_users` | `TypeOK`, `RoutedTopicsExist`, `NoTopicForgotten`, `JournalEmpties` | One user, an add, two operators who delete, two who clean up, two failures: a call and its rollback can both fail. |
| `notification_half_user` | `UsersComplete` is **violated** | See findings. |
| `destroy_cleanup` | `TypeOK`, `NothingLeft`, `OnlyOwnTopicsDeleted`, `DestroyCompletes` | Two user topics, Terraform's topic and its replacement, a topic of another deployment that may share our scope; a stack of an older version or of this one; one renaming apply; one fault (a call, an apply, edited tags, the lost registry); two polls. |
| `pool_resize` | `TypeOK`, `RemovalRemembered`, `LaunchesUndone`, `ForgottenWhenDone`, `RemovalsComplete` | Up to three nodes, as a pool with volumes managed apart or with the instances or as a Compute Cluster, one node added per run, two failures: a removal and its resumption, a launch and its rollback can both stop. |
| `pool_add_shrinks` | `AddKeepsNodes` is **violated** | See findings. |
| `autoscaler` | `TypeOK`, `LimitsKept`, `NamesUnique`, `JobsLostUnseenOnly`, `JobsServed` | A job of one node and one of two with limits of two nodes and two clusters, so that an idle cluster stands in a job's way; one fault: a failure or kill of a script or a pass, or a cluster that is drained; any number of passes. The largest run: 1.6 million states, three to four minutes. |

Deadlock is checked in the runs of `BackupSync`, `NotifySpool`, `PublishPacing`
and `PoolResize`. The processes of `ClusterLifecycle` and `NotificationUsers`, a
run of MailProg, a stack that has been destroyed and a Slurm without jobs and
clusters may rest, so it is not checked there. The bounds named `Max...`
(failures, kills, time, generations) stop counters that the code does not have;
the ones that are the code's own (`MaxQueued`, `MaxPerRun`, `MaxTries`, `MaxADs`,
`PollAttempts`, `Width`, `Limit`, `MaxNodes`, `MaxClusters`, the delays) are scaled
down.

### Fairness

* `NotifySpool`: time passes; the timer unit starts a run every minute whatever
  became of the last one (strong fairness of starting a run, because another run
  may hold the lock for a while); a run that has started goes on. Nothing is
  assumed of MailProg or of what OCI answers.
* `ClusterLifecycle`: a script that has started goes on; every loop of the
  scripts is bounded. Nobody has to start one.
* `NotificationUsers`: a command goes on, since every call has a time limit, and
  an operator runs `notification cleanup` while something is pending, as the
  commands ask for. `JournalEmpties` says that this is enough once failures stop.
* `PoolResize`: a run goes on, since every wait has a limit; OCI brings a pool to
  its size; while removals are pending an operator asks for them again with
  `--nodes`, as the error message of `resize.py` tells them to.
* `MailProg`: the process goes on. Nothing is assumed of the others.
* `DestroyCleanup`: a Terraform job goes on, OCI finishes what it deletes, and
  the operator does what `README.md:319-325` of the repository asks for when a
  Destroy fails: remove the cause (restore the tags it names, complete a stopped
  apply) and run it again. Starting an apply or restoring a tag is strongly fair,
  because a running Destroy disables it for a while.
* `Autoscaler`: cron starts a pass every minute and a pass goes on; Slurm starts
  a job that fits and running jobs end; the scripts go on, unless they were
  killed; idle clusters, drained ones too, reach the idle time. A pending job need
  not be cancelled, and no script need succeed. Starting and ending a job are
  fair in one condition, and so are the progress of a cluster's script and its
  ageing: a job does not wait to start and to end at once, and a cluster that no script
  is at work on makes no progress, so that no step can pass for the other. `JobsServed` is
  written as `[]<>` of the job not pending or blocked, which says that from a pending
  job on there is always such a moment.

## Findings

* **An older snapshot can win** (`backup_sync_late`, `cluster:931`). The ssh client
  is stopped after 30 s, its remote helper is not. A helper that was delayed
  writes its snapshot after a later synchronisation has pushed a newer one and
  cleared the marker. `UnmarkedMeansSynced`, which does hold, excepts exactly this
  case until the next complete push.
* **Half a user** (`notification_half_user`, `cluster:1581`). Two deletions of one
  user, nothing failing: the second deletes the LDAP user while the first holds
  the routing; the first then fails in LDAP and restores the routing. The routing
  can neither be deleted nor added again.
* **An add that shrinks the pool** (`pool_add_shrinks`, `resize.py:2307`).
  `add --remove_unreachable` subtracts hosts that the pool does not contain any
  more, so it asks for too small a size and its rollback terminates a healthy
  node.

Six more weaknesses are named as exceptions in the properties of passing runs;
TLC shows a violation when the exception is taken out:

* `slurm_oci_notify_worker.py:284`: a run reads the registry before it lists the
  queue. A user who is added in between, with a job that ends in between, has the
  message compared with the older registry and removed as one "for unregistered
  user" (line 287), although the user was registered before the message was queued
  (`Astray` in `NotifySpool`, which goes by what the run has read).
* `delete_cluster.sh:153`: with `FORCE` two deletions share one
  `currently_destroying`; the one that fails removes it, and a resize starts
  in the middle of the other (`contested` in `ClusterLifecycle`).
* `resize.py:2003-2006`: the cleanup before a destroy exits with 0 for an instance
  pool or a cluster network. An instance that an earlier removal detached and did not
  come to terminate (`resize.py:1657`), and that the journal does not have, is not in the pool
  that Terraform destroys either: it goes on running after a successful deletion has
  removed the directory (`stray`, left out of `NoOrphans`).
* `autoscale_slurm_disable-resize.sh:282`: a node that the Prolog of the repository
  drains as a job starts (`slurm.conf.j2:18-20`, `healthchecks.sh:9`) is `draining`
  and counts as not running, and its idle time as the time since `slurmd` was started
  (79-92): after 600 s the cluster is deleted under the job. So is a cluster on which Slurm
  starts a job after `sinfo` has been read (`shown` in `Autoscaler`; about all running
  jobs the property is violated).
* `autoscale_slurm_disable-resize.sh:408`: a pending job that the node limits can
  never allow takes an index in every pass, and starves the jobs after it
  (`Blocked` in `Autoscaler`).
* `autoscale_slurm_disable-resize.sh:301`: a cluster that comes up between the two
  listings is counted in neither, and `max_number_nodes` is exceeded (`missed`, until a
  pass finds the limit kept again).

## Proofs

Every safety property that a run checks, the three that are violated apart, is a
theorem of its module's specification, for every value of the constants that the
module's named assumptions allow. The assumptions say that
sets of names are disjoint where the code's are, that bounds are naturals, and:

* `PoolResizeAssumption`: nodes are numbered from 1, as a Compute Cluster numbers
  them;
* `TopicsAssumption` (`DestroyCleanup`): there is a scope and a topic that Terraform
  can create;
* `MailProgAssumption`: a character takes no more columns than bytes in JSON, the
  values of the table are not empty (the code writes a placeholder), and a title within
  its bytes leaves room for the suffix;
* `NoFileAssumption` (`NotifySpool`): the contents of a file are not its absence.
  `PowersAssumption` states facts about powers of two, which hold for all naturals
  and which the provers do not know;
* `DelaysAssumption` (`NotifySpool`, used by `AttemptsBoundedHolds` only): the
  retry delay doubles until the message is about to expire. The code's 60 s, at
  most 64 times that or an hour, and two hours satisfy it (after six failures 3780 s
  have passed, and the hour that follows reaches the expiry). `MaxTries`, the bound,
  counts doubling delays; with a cap that sets in early it would be wrong, which is
  why the assumption is there.

The theorems and what makes them inductive:

* `BackupSyncProofs`. `TypeCorrect`, `RemoteWritesSerialised` and `UnmarkedIsSynced`
  (`UnmarkedMeansSynced`). The last is not inductive: that a marker may be cleared
  depends on what the process that clears it read and pushed before.
  `HolderInv` says it: while a process holds the sync lock nobody else clears the
  marker, and as long as the marker is the one it saw, its snapshot is the current
  registry; after the push, so is the backup. `SyncInvariant` proves both together,
  one step per action. `SyncRefinesReplication` (`ReplicationSpec`) uses it: each
  action of `BackupSync` is under the mapping one action of `ReplicatedRegistry`
  or a stutter, and each `Replication...` lemma is one way of being so.
* `NotifySpoolProofs`. `TypeCorrect`, `NoSilentLossHolds`, `DuplicatesExcusedHolds`
  and `AttemptsBoundedHolds`. `SpoolInv` adds that a running worker has the lock,
  that what it handles is in the spool, that a file came from a MailProg whose
  message OCI had not seen, and that a file in the spool stands for no acceptance
  that is not excused, unless it is about to be removed. `LetGo` is the common part
  of the steps that end the handling of a message. `TriesInv` is for the last
  theorem: the next attempt of a file lies as late in its life as its failures make
  it (`Aged`, with `Lag` the sum of the delays), a message in hand was due, and
  every attempt is in the file, in a worker's hand or a fault's. `DelayCovers` and
  `TriesFit` are the arithmetic.
  `SpoolRefinesDelivery` (`DeliverySpec`) says that the spool implements
  `AtLeastOnce`. The mapping needs `LeftOnce` beside `SpoolInv`: a message that is
  not queued yet, or still is, has neither been archived nor discarded. The
  `Delivery...` lemmas are the ways a step can be one of the abstract actions or a
  stutter, the `...Delivers` lemmas are the actions: the removal of the file is
  `Leave`, a removal that fails and is archived is `Leave` too, and a kill between
  acceptance and removal is `Forget`.
  The pace of the attempts is proved in the same module: `PaceKept`
  (`AttemptsPaced`) and `PacingTypeCorrect`
  (`PacingTypeOK`). `PaceInv` relates the recorded time to the real time of the
  attempt: on a clock that is only set back, `stamp + back` never falls before it,
  and an empty file is only met when the interval has passed anyway. `DelayBounds`
  is the arithmetic of the clamped delay. `PacingCounted` adds what the bound on
  attempts needs: a process past the test has one left.
* `MailProgProofs`, for every text, limit and layout. `TypeCorrect`,
  `QueueBoundedHolds`, `QueuedIsValidHolds` and `TellsAllHolds`. `MailProgInv` follows
  the searches: what was found lies just below the interval and fits, and what
  lies above it does not (`TableSearch`, `TextSearch`), so that the end of a search is
  the longest candidate that fits (`BodyChosen`). That a candidate above one
  that does not fit cannot fit either is the heart of the proof, and
  not obvious for a table: its rows are wrapped by the width of the characters. A prefix of a value is wrapped as
  the whole value is, so its bytes and rows are subsets of those of the
  value, and a subset has no more elements. `QueueBounded` needs no more than the types:
  that concurrent processes overshoot the limit by no more than passed the check.
  Recursive functions over the characters are reasoned about with a least
  counterexample (`LeastOf`), since the induction theorems of the library cannot be used.
* `ClusterLifecycleProofs`, for any number of processes. `MarkersHaveOwners`
  (`MarkerHasOwner`): `MarkerInv` says that a marked directory is the one that has
  the name, and that its owner is working in it. `DeletionExcludes`
  (`ResizeExcludesDestroy`): `ExclusionInv` ties the marker to the deletion and the
  lock to the resize in every directory outside `contested`. `NoOrphansHolds`
  (`NoOrphans`): `SoleOwner` says that without a contest resources lie in the
  directory in place, that a Compute Cluster which Terraform does not manage has no
  instances, that a deletion which has found nothing left still finds
  nothing, and that only the creation that has the name creates; `StatusFresh`, that
  no process brings such results from before its deletion. The theorem is not about
  `stray` instances. `TypeCorrect` needs
  `Counted` (the loops over availability domains and attempts stay within their
  bounds) and `GensTyped`.
* `NotificationUsersProofs`. `RoutedTopicsExistHolds`, `NoTopicForgottenHolds` and
  `TypeCorrect`. `Inv` says that a topic is in one set of books at a time: what a
  command holds is neither routed, journalled, lost nor held by another; what it
  deletes is not routed; a routed topic has its subscription. One lemma per action.
* `PoolResizeProofs`. `TypeCorrect`, `RemovalRememberedHolds`,
  `LaunchesUndoneHolds` and the action property `ForgottenWhenDoneHolds`.
  `ResizeInv` adds which steps a kind of cluster takes (`Phases`), what has become
  of the node in hand, that a pool with pending removals has its size (so that
  OCI does not replace what was detached), that a run grows only when nothing is
  pending, that what the retry calls ready is gone, that the size written to the
  Terraform state is the pool's, and that what an add has launched is in its
  list. That sizes and numbers stay in range takes most of the work, since both
  are cardinalities.
* `DestroyCleanupProofs`. `TypeCorrect`, `NothingLeftHolds` and the action property
  `OnlyOwnTopicsDeletedHolds`. `CleanupInv` adds why a claimed topic is a user's:
  Terraform's topics are never named like a user's, other deployments' topics have
  their tag or a scope that no registry tells; and why the end is reached only
  when the recognised ones are gone: they stay `remaining` until then, since tags
  only change as `Unrecognisable` allows and a Destroy knows all scopes its
  registry told. An earlier form of `NothingLeft`, about all topics whose tags were
  intact at the last listing, held in the run only because it allowed one fault; with
  two the proof had no invariant and TLC a counterexample.
* `AutoscalerProofs`. `TypeCorrect`, `LimitsKeptHolds`, `NamesUniqueHolds` and
  `JobsLostUnseenOnlyHolds`. `AutoscaleInv` follows a pass through its reads: between
  them it has counted the nodes of what it has seen, after them those of every
  cluster that it has not missed, and it knows every directory. `ShownSafe` says that
  a job which `sinfo` showed is on a cluster where no script is at work and which the
  pass will not delete: reading idle times only takes clusters off the list,
  and a drained or aged cluster does not come onto it. The nodes of a
  set of clusters are the cardinality of a set of pairs (`NodesOf`), so that the
  library's theorems on finite sets apply; the `Count...` lemmas are the
  arithmetic of such sums.

Only model-checked: liveness (`EveryMessageLeaves`, `MailProgEnds`, `MarkerCleared`,
`JournalEmpties`, `RemovalsComplete`, `DestroyCompletes`, `JobsServed`), which is
outside the prover's reach.

## Assumptions

* The wall clock is not set forward (the worker then waits too little).
* A cluster is created under a name that is free at that moment.
* OCI deletes no Compute Cluster that has instances, so that `terraform destroy` fails
  while one of them is left (`Deletable`).
* A deletion of a name without a directory is not modelled: `delete_cluster.sh`
  then goes on in the directory it was started in. The removal of
  nodes from the permanent cluster at the end of `delete_cluster.sh` is left out.
  The inventory file survives `terraform destroy`, because `configure_as.sh` has
  `resize.py` rewrite it outside Terraform.
* Notifications are enabled, the user is not the bootstrap user and its group
  exists; OCI may have two topics of one name.
* Names and ids of topics cannot be changed, tags can; no `user add` is started once
  Destroy is (`README.md:319-325`); one Terraform job works on a stack at a time.
* One pass of the autoscaler runs at a time (cron starts them a minute apart), the
  five seconds it waits after each script are enough for a template to be copied,
  and Slurm starts a job that fits sooner than a cluster grows old. Nodes that
  were drained are not returned to service: an operator does that.
* `resize.py` works on its own Terraform directory with managed DNS records;
  names of a pool's nodes are not used twice; OCI deletes the volumes of instances it
  terminates when they were created with them; a pool in state RUNNING has its size
  and does not replace members by itself.

Known limits of the code that no property is about, because nothing in the
repository promises otherwise or the model abstracts from them:

* the worker's limiter records when a call starts, while OCI's limit counts what it
  accepts: latencies can bring two calls closer together (`slurm_oci_notify_worker.py:293`);
* `finalize_pending_local_block_volume_deletions` wants a pool smaller than before
  the removal; if OCI replaces the instance before it is detached, every later run
  exits with an error (`resize.py:1550`);
* `updateTFState` raises for an autoscaled Compute Cluster, whose Terraform state
  has no `"size"`, so that an add ends before its nodes are configured (`resize.py:975`);
* a synchronisation waits for the sync lock while its holder waits for ssh; the
  registry lock is never held meanwhile, so the two locks form no cycle
  (`cluster:998`).

## Not modelled

Terraform files and Ansible roles (declarative; the order in which they act on
topics is in `DestroyCleanup`), bootstrap scripts (sequences of
installations without state of their own), health checks, monitoring, samples,
the LDAP commands of `cluster` that are one call each, the wording of the
mail, the preparation of local block volumes (it reads attachments and
rewrites the inventory), and `autoscale_slurm.sh`, the variant of the autoscaler
that also resizes clusters (its cron entry is
installed commented out).

## Plan

Every component that keeps state of its own is modelled, and its safety is proved
as far as the provers reach. What is left, in this order:

1. More that the code promises step by step: that a synchronisation never replaces
   what it did not read, that a message's file only ages, that a deletion of a
   cluster never touches a directory that replaced its own.
2. An abstract specification of one more component: a journal of removals that
   `PoolResize` implements.
3. `autoscale_slurm.sh`, should its cron entry be enabled.

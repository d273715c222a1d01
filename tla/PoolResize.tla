----------------------------- MODULE PoolResize -----------------------------
(***************************************************************************)
(* resize.py on a cluster that is an instance pool or a Compute Cluster:     *)
(* adding and removing nodes, the journal of pending removals and its        *)
(* resumption, and the cleanup before a cluster is destroyed.               *)
(*                                                                          *)
(* One run at a time (the resize lock, see ClusterLifecycle).  A run is a    *)
(* sequence of OCI calls; between any two of them it may fail or be killed   *)
(* (Abort), and a later run, of whatever mode, finds what is left: the pool, *)
(* instances outside the pool, volumes, DNS records, the pool size in the    *)
(* Terraform state, the inventory and the journal.                          *)
(*                                                                          *)
(* The nodes of a pool get new names; those of a Compute Cluster are         *)
(* numbered, and the number after the highest one is next.  DNS records are  *)
(* managed (dns_entries); a node has both of its records or none.  A cluster *)
(* without local volumes behaves like one whose volumes go with the          *)
(* instances.                                                                *)
(***************************************************************************)
EXTENDS Integers, FiniteSetsExt

CONSTANTS
    Nodes,       \* display names of instances: the number at their end
    None,        \* no node
    MaxAdd,      \* bound: nodes that one run adds
    MaxFaults    \* bound: failures and kills

ASSUME PoolResizeAssumption ==
    /\ IsFiniteSet(Nodes) /\ Nodes = 1..Cardinality(Nodes) /\ None \notin Nodes
    /\ MaxAdd \in Nat /\ MaxFaults \in Nat

VARIABLES
    kind,       \* a pool whose local volumes are created and deleted with the
                \* instances, or are managed apart from them, or a Compute Cluster
    life,       \* OCI: what has become of every instance
    size,       \* OCI: size of the instance pool
    volumes,    \* OCI: nodes whose local Block Volume exists
    dns,        \* OCI: nodes with DNS records
    tfSize,     \* pool size in the Terraform state
    inventory,  \* nodes in the inventory
    journal,    \* pending removals: node -> pool size before its removal, or 0
    tracked,    \* instances of a Compute Cluster in the Terraform state
    twins,      \* names that two active instances of a Compute Cluster have
    known,      \* history: instances that were there or that an add has checked
    stray,      \* history: instances that a kill or a failed rollback has left
    run,        \* local state of the run that has the resize lock
    faults      \* failures so far

cloud == <<life, size, volumes, dns>>
books == <<tfSize, inventory, journal>>
cc    == <<tracked, twins, known, stray>>
vars  == <<kind, cloud, books, cc, run, faults>>

Modes   == {"list", "reconfigure", "add", "remove", "remove_unreachable",
            "cleanup_compute_cluster"}
Removes == {"remove", "remove_unreachable"}
PCs     == {"idle", "pending", "finalize", "dns", "commit", "state", "plan", "remove",
            "detach", "terminate", "tidy", "grow", "check", "rollback", "names",
            "configure", "launch", "undo", "sweep"}
Sizes   == 0..Cardinality(Nodes)

\* ask: --nodes; resume, ready: the retry of pending removals and what it has
\* finished; hosts: hostnames_to_remove; todo, node: the loop over them; old:
\* the members when it was planned; planned, newsize: pool sizes read then and
\* later; number: nodes to add; retried: the loop is over.
RunState == [pc : PCs, mode : Modes, ask : SUBSET Nodes, number : 0..MaxAdd,
             resume : BOOLEAN, ready : SUBSET Nodes, retried : BOOLEAN,
             hosts : SUBSET Nodes, todo : SUBSET Nodes, node : Nodes \cup {None},
             old : SUBSET Nodes, planned : Sizes, newsize : Sizes]

Idle == [pc |-> "idle", mode |-> "list", ask |-> {}, number |-> 0,
         resume |-> FALSE, ready |-> {}, retried |-> FALSE,
         hosts |-> {}, todo |-> {}, node |-> None,
         old |-> {}, planned |-> 0, newsize |-> 0]

Members  == {n \in Nodes : life[n] = "member"}
Starting == {n \in Nodes : life[n] = "starting"}
Active   == Members \cup Starting
Fresh   == {n \in Nodes : life[n] = "unborn"}
Pending == {n \in Nodes : journal[n] # 0}
Settled == kind = "compute" \/ Cardinality(Members) = size

Kinds == {"launch", "managed", "compute"}

\* Types: the pool size stays within what OCI accepts, and Terraform tracks only
\* instances that are there.
TypeOK ==
    /\ kind \in Kinds
    /\ life \in [Nodes -> {"unborn", "starting", "member", "detached", "gone"}]
    /\ size \in Sizes
    /\ volumes \subseteq Nodes /\ dns \subseteq Nodes
    /\ tfSize \in Sizes
    /\ inventory \subseteq Nodes
    /\ journal \in [Nodes -> Sizes]
    /\ tracked \subseteq Members /\ twins \subseteq Active
    /\ known \subseteq Nodes /\ stray \subseteq Nodes
    /\ run \in RunState
    /\ faults \in 0..MaxFaults

\* Some nodes are running, configured and reachable.
Init ==
    \E first \in SUBSET Nodes \ {{}} :
        /\ kind \in Kinds
        /\ life = [n \in Nodes |-> IF n \in first THEN "member" ELSE "unborn"]
        /\ size = IF kind = "compute" THEN 0 ELSE Cardinality(first)
        /\ tracked = IF kind = "compute" THEN first ELSE {}
        /\ tfSize = size /\ known = tracked
        /\ twins = {} /\ stray = {}
        /\ volumes = first
        /\ dns = first /\ inventory = first
        /\ journal = [n \in Nodes |-> 0]
        /\ run = Idle
        /\ faults = 0

-----------------------------------------------------------------------------
At(pc)   == run.pc = pc
Goto(pc) == run' = [run EXCEPT !.pc = pc]
Exit     == run' = Idle

Fails == faults < MaxFaults /\ faults' = faults + 1

\* The names that are left bound the number of adds.  A removal that is resumed
\* ends the run, so that its --nodes are not looked at again.
Start(mode, ask, number) ==
    /\ At("idle")
    /\ mode = "add" =>
           IF kind = "compute" THEN Max({0} \cup Active) + number \in Nodes
                               ELSE size + number <= Cardinality(Members \cup Fresh)
    /\ ask # {} => mode \in Removes /\ ask \cap Fresh = {}
    /\ (number > 0) <=> (mode = "add")
    /\ run' = [Idle EXCEPT !.mode = mode, !.number = number,
                 !.pc = IF Pending = {} /\ mode # "cleanup_compute_cluster"
                        THEN "plan" ELSE "pending",
                 !.ask = IF Pending = {} THEN ask ELSE {},
                 !.resume = mode = "cleanup_compute_cluster"
                                \/ (mode \in Removes /\ Pending \subseteq ask)]
    /\ UNCHANGED <<kind, cc, cloud, books, faults>>

-----------------------------------------------------------------------------
(* The calls that both a removal and its retry make *)

\* The instance is gone, and with it a volume that was created with it.
InstanceGone(n) ==
    /\ life' = [life EXCEPT ![n] = "gone"]
    /\ volumes' = IF kind = "managed" THEN volumes ELSE volumes \ {n}
    /\ tracked' = tracked \ {n} /\ twins' = twins \ {n}
    /\ known' = known \ {n} /\ stray' = stray \ {n}

\* is_decrement_size: the pool shrinks, and does not replace the node.
DetachFromPool(n) ==
    /\ life' = [life EXCEPT ![n] = "detached"]
    /\ size' = size - 1

DeleteVolume(n)  == volumes' = volumes \ {n}
DeleteRecords(n) == dns' = dns \ {n}

\* A new file replaces the old one; the last record takes the file with it.
WriteJournal(records) == journal' = records

-----------------------------------------------------------------------------
(* retry_pending_local_block_volume_deletions; records in any order *)

Retries(n) == At("pending") /\ n \in Pending \ run.ready

\* Mutant: the retry does not ask whether the instance is still in the pool.
RetryDetachBlindly(n) ==
    /\ Retries(n) /\ life[n] # "gone" /\ run.resume
    /\ life' = [life EXCEPT ![n] = "detached"]
    /\ size' = size - 1
    /\ UNCHANGED <<kind, cc, volumes, dns, books, run, faults>>

\* A node that is still in the pool is removed only if the run resumes removals.
RetryDetach(n) ==
    /\ Retries(n) /\ life[n] = "member"
    /\ \/ /\ run.resume
          /\ DetachFromPool(n)
          /\ UNCHANGED run
       \/ ~run.resume /\ Exit /\ UNCHANGED <<life, size>>
    /\ UNCHANGED <<kind, cc, volumes, dns, books, faults>>

RetryTerminate(n) ==
    /\ Retries(n) /\ life[n] = "detached"
    /\ life' = [life EXCEPT ![n] = "gone"]
    /\ UNCHANGED <<kind, cc, size, volumes, dns, books, run, faults>>

\* Mutant: a volume that is gone already is an error.
RetryVolumeOnce(n) ==
    /\ Retries(n) /\ life[n] = "gone"
    /\ \/ /\ n \in volumes
          /\ volumes' = volumes \ {n}
          /\ run' = [run EXCEPT !.ready = @ \cup {n}]
       \/ n \notin volumes /\ Exit /\ UNCHANGED volumes
    /\ UNCHANGED <<kind, cc, life, size, dns, books, faults>>

RetryVolume(n) ==
    /\ Retries(n) /\ life[n] = "gone"
    /\ DeleteVolume(n)
    /\ run' = [run EXCEPT !.ready = @ \cup {n}]
    /\ UNCHANGED <<kind, cc, life, size, dns, books, faults>>

\* get_summary, or cleanup_pending_local_block_volume_dns_records: a cleanup
\* keeps the journal.
Retried ==
    /\ At("pending") /\ Pending \subseteq run.ready
    /\ run' = [run EXCEPT !.newsize = size,
                 !.pc = CASE run.mode = "cleanup_compute_cluster" -> "dns"
                          [] run.ready # {} -> "finalize"
                          [] OTHER -> "state"]
    /\ UNCHANGED <<kind, cc, cloud, books, faults>>

-----------------------------------------------------------------------------
(* finalize_pending_local_block_volume_deletions *)

\* wait_for_running_status, get_active_instance_identities and the checks
FinalizeCheck ==
    /\ At("finalize") /\ Settled
    /\ IF \A n \in run.ready : run.newsize < journal[n] /\ n \notin Members
       THEN Goto("dns")
       ELSE Exit
    /\ UNCHANGED <<kind, cc, cloud, books, faults>>

FinalizeDns(n) ==
    /\ At("dns") /\ n \in run.ready \cap dns
    /\ DeleteRecords(n)
    /\ UNCHANGED <<kind, cc, life, size, volumes, books, run, faults>>

\* Mutant: the Terraform state is left for later.
FinalizeStateLater ==
    /\ At("dns") /\ run.ready \cap dns = {}
    /\ IF run.mode = "cleanup_compute_cluster" THEN Exit ELSE Goto("commit")
    /\ UNCHANGED <<kind, cc, cloud, books, faults>>

\* updateTFState; a cleanup before a destroy keeps the journal.
FinalizeState ==
    /\ At("dns") /\ run.ready \cap dns = {}
    /\ IF run.mode = "cleanup_compute_cluster"
       THEN /\ IF kind = "compute" THEN Goto("sweep") ELSE Exit
            /\ UNCHANGED tfSize
       ELSE Goto("commit") /\ tfSize' = run.newsize
    /\ UNCHANGED <<kind, cc, cloud, inventory, journal, faults>>

\* The removals of this run are complete.
AfterRemoval ==
    \/ /\ run.mode = "add"
       /\ run' = [run EXCEPT !.pc = "grow", !.ready = {}, !.newsize = 0]
    \/ run.mode # "add" /\ Exit

\* A removal that was resumed ends the run; another mode goes on.
FinalizeJournal ==
    /\ At("commit")
    /\ WriteJournal([n \in Nodes |-> IF n \in run.ready THEN 0 ELSE journal[n]])
    /\ \/ run.retried /\ AfterRemoval
       \/ ~run.retried /\ run.mode \in Removes /\ Exit
       \/ /\ ~run.retried /\ run.mode \notin Removes
          /\ run' = [run EXCEPT !.pc = "plan", !.ready = {}, !.newsize = 0]
    /\ UNCHANGED <<kind, cc, cloud, tfSize, inventory, faults>>

\* updateTFState after a removal that has left nothing pending.
UpdateTFState ==
    /\ At("state")
    /\ tfSize' = run.newsize
    /\ AfterRemoval
    /\ UNCHANGED <<kind, cc, cloud, inventory, journal, faults>>

-----------------------------------------------------------------------------
(* remove, remove_unreachable, and add with --remove_unreachable *)

\* list, and reconfigure with its playbook succeeding or failing.
List ==
    /\ At("plan") /\ run.mode \in {"list", "reconfigure"}
    /\ \/ run.mode = "reconfigure" /\ inventory' \in {Members, inventory \cup Members}
       \/ UNCHANGED inventory
    /\ Exit
    /\ UNCHANGED <<kind, cc, cloud, tfSize, journal, faults>>

\* getreachable: any node may fail to answer, one that is gone does not.
Unreachable(nodes) == {u \in SUBSET nodes : \A n \in nodes \ u : life[n] # "gone"}

\* The sets hostnames_to_remove may be: {} stands for nothing to do.
HostsToRemove ==
    CASE run.mode = "add" -> Unreachable(inventory)
      [] run.mode = "remove" /\ run.ask # {} ->
             {run.ask \cup found : found \in Unreachable(inventory)}
      [] run.mode = "remove" /\ run.ask = {} -> SUBSET (Active \cup inventory)
      [] run.mode = "remove_unreachable" /\ run.ask # {} -> {run.ask}
      [] OTHER -> Unreachable(Active \cup inventory)

\* Only add uses the sizes and the members later on; the other modes are from
\* here on the same.
Removing(hosts) ==
    run' = IF run.mode = "add"
           THEN [run EXCEPT !.pc = "remove", !.hosts = hosts, !.todo = hosts,
                            !.old = Members, !.planned = size]
           ELSE [Idle EXCEPT !.pc = "remove", !.mode = "remove", !.todo = hosts]

\* wait_for_running_status: a pool that is RUNNING has its size.
\* destroy_unreachable_reconfigure takes the nodes out of the inventory, unless
\* --no_reconfigure is given, or its playbook fails and --force is given.
Plan ==
    /\ At("plan") /\ run.mode \notin {"list", "reconfigure"} /\ Settled
    /\ \E hosts \in HostsToRemove :
        \/ /\ hosts # {}
           /\ Removing(hosts)
           /\ inventory' \in {inventory, inventory \ hosts}
        \/ /\ hosts = {} /\ run.mode = "add"
           /\ run' = [run EXCEPT !.pc = "grow", !.old = Members, !.planned = size]
           /\ UNCHANGED inventory
        \/ (hosts = {} => run.mode # "add") /\ Exit /\ UNCHANGED inventory
    /\ UNCHANGED <<kind, cc, cloud, tfSize, journal, faults>>

\* An instance that is gone is passed over; one that is running outside the
\* pool has no known IP, and of two with the name none is taken: an error.
Skip(n) ==
    /\ At("remove") /\ n \in run.todo
    /\ \/ /\ life[n] \in {"unborn", "gone"}
          /\ run' = [run EXCEPT !.todo = @ \ {n}]
       \/ (life[n] = "detached" \/ n \in twins) /\ Exit
    /\ UNCHANGED <<kind, cc, cloud, books, faults>>

\* Mutant: the removal is recorded after the node has left the pool.
RememberLate(n) ==
    /\ At("remove") /\ n \in run.todo \cap (Active \ twins)
    /\ run' = [run EXCEPT !.node = n,
                 !.pc = IF kind = "compute" THEN "terminate" ELSE "detach"]
    /\ UNCHANGED <<kind, cc, cloud, books, faults>>

\* get_exclusive_managed_local_block_volume_attachment: a volume that does not go
\* with its instance.
HasOwnVolume(n) == kind = "managed" /\ n \in volumes

\* remember_pending_local_block_volume_deletion; an instance of a Compute Cluster
\* is only terminated.
Remember(n) ==
    /\ At("remove") /\ n \in run.todo \cap (Active \ twins)
    /\ IF HasOwnVolume(n) THEN WriteJournal([journal EXCEPT ![n] = size])
                           ELSE UNCHANGED journal
    /\ run' = [run EXCEPT !.node = n,
                 !.pc = IF kind = "compute" THEN "terminate" ELSE "detach"]
    /\ UNCHANGED <<kind, cc, cloud, tfSize, inventory, faults>>

Detach ==
    /\ At("detach")
    /\ DetachFromPool(run.node)
    /\ Goto("terminate")
    /\ UNCHANGED <<kind, cc, volumes, dns, books, faults>>

\* OCI does not find the instance (404): the loop goes on with the next node.
DetachNotFound ==
    /\ At("detach") /\ Fails
    /\ run' = [run EXCEPT !.pc = "remove", !.todo = @ \ {run.node}, !.node = None]
    /\ UNCHANGED <<kind, cc, cloud, books>>

Terminate ==
    /\ At("terminate")
    /\ InstanceGone(run.node)
    /\ Goto("tidy")
    /\ UNCHANGED <<kind, size, dns, books, faults>>

\* delete_managed_local_block_volume; or, if nothing is pending, the DNS records.
Tidy ==
    /\ At("tidy")
    /\ \/ /\ run.node \in Pending
          /\ DeleteVolume(run.node)
          /\ UNCHANGED dns
       \/ /\ run.node \notin Pending
          /\ DeleteRecords(run.node)
          /\ UNCHANGED volumes
    /\ run' = [run EXCEPT !.pc = "remove", !.todo = @ \ {run.node}, !.node = None]
    /\ UNCHANGED <<kind, cc, life, size, books, faults>>

Removed ==
    /\ At("remove") /\ run.todo = {}
    /\ IF kind = "compute"
       THEN AfterRemoval
       ELSE run' = [run EXCEPT !.pc = "pending", !.resume = FALSE, !.retried = TRUE]
    /\ UNCHANGED <<kind, cc, cloud, books, faults>>

-----------------------------------------------------------------------------
(* add *)

\* OCI starts instances until the pool has the given size, or terminates some
\* members, whichever it likes, with their volumes.
PoolBecomes(members) ==
    /\ life' = [n \in Nodes |-> CASE n \in members -> "member"
                                  [] n \in Members \ members -> "gone"
                                  [] OTHER -> life[n]]
    /\ volumes' = (volumes \ (Members \ members))
                  \cup (members \ Members)

\* The pools of k members, and those on the way there.
PoolsOf(k) == {m \in SUBSET (Members \cup Fresh) :
                  Cardinality(m) = k /\ (m \subseteq Members \/ Members \subseteq m)}

Between(i, j) == i..j \cup j..i

TargetSize   == run.planned + run.number - Cardinality(run.hosts)
RollbackSize == run.planned - Cardinality(run.hosts)

\* update_instance_pool_and_wait_for_state, wait_for_running_status
Grow ==
    /\ At("grow") /\ kind # "compute"
    /\ \/ /\ TargetSize >= 0
          /\ size' = TargetSize
          /\ \E m \in PoolsOf(TargetSize) : PoolBecomes(m)
          /\ run' = [run EXCEPT !.pc = "check", !.old = Members]
          /\ UNCHANGED faults
       \/ /\ TargetSize >= 0 /\ Fails
          /\ size' \in {size, TargetSize}
          /\ \E k \in Between(Cardinality(Members), size') :
                 \E m \in PoolsOf(k) : PoolBecomes(m)
          /\ run' = [run EXCEPT !.pc = "rollback", !.old = Members]
       \/ /\ TargetSize < 0
          /\ Goto("rollback")
          /\ UNCHANGED <<life, size, volumes, faults>>
    /\ UNCHANGED <<kind, cc, dns, books>>

Added == IF kind = "compute" THEN run.todo ELSE Members \ run.old

\* The members are as many as wait_for_running_status has waited for, but they
\* may be the old ones, and their volumes may be missing (Fails).
CheckAdded ==
    /\ At("check")
    /\ \/ /\ Cardinality(Added) = run.number
          /\ Goto("names")
          /\ UNCHANGED faults
       \/ /\ \/ Cardinality(Added) # run.number /\ UNCHANGED faults
             \/ Fails
          /\ Goto("rollback")
    /\ UNCHANGED <<kind, cc, cloud, books>>

\* rollback_instance_pool_size; its errors are only printed.
Rollback ==
    /\ At("rollback")
    /\ \/ /\ RollbackSize >= 0
          /\ size' = RollbackSize
          /\ \E m \in PoolsOf(RollbackSize) : PoolBecomes(m)
          /\ UNCHANGED faults
       \/ /\ Fails \/ (RollbackSize < 0 /\ UNCHANGED faults)
          /\ UNCHANGED <<life, size, volumes>>
    /\ Exit
    /\ UNCHANGED <<kind, cc, dns, books>>

-----------------------------------------------------------------------------
(* add for a Compute Cluster, and the cleanup before its destruction *)

\* What get_instances lists: an instance without a VNIC may be missing.
Listings == {Members \cup some : some \in SUBSET Starting}

ListInstances ==
    /\ At("grow") /\ kind = "compute"
    /\ \E listed \in Listings :
         IF listed = {} THEN Exit
         ELSE run' = [run EXCEPT !.pc = "launch", !.old = listed, !.hosts = {},
                                 !.todo = {}, !.planned = 0]
    /\ UNCHANGED <<kind, cc, cloud, books, faults>>

\* launch_instance returns an instance, and there may be one with its name that
\* was not listed.
Created(n, state) ==
    /\ life' = [life EXCEPT ![n] = state]
    /\ volumes' = volumes \cup {n}
    /\ twins' = IF n \in Active THEN twins \cup {n} ELSE twins

NextName == Max(run.old) + 1 + Cardinality(run.todo)

\* Mutant: the name is remembered when the instance is running.
RememberedNames(failed) == IF failed THEN run.todo ELSE run.todo \cup {NextName}

\* launched_instance_names
LaunchedNames(failed) == run.todo \cup {NextName}

\* launch_instance_and_wait_for_state: the instance is running; or the call
\* fails, or the wait does, and the instance is there.
Launch ==
    /\ At("launch") /\ Cardinality(run.todo) < run.number
    /\ \/ /\ Created(NextName, "member")
          /\ run' = [run EXCEPT !.todo = LaunchedNames(FALSE)]
          /\ UNCHANGED faults
       \/ /\ Fails
          /\ \/ \E state \in {"starting", "member"} : Created(NextName, state)
             \/ UNCHANGED <<life, volumes, twins>>
          /\ run' = [run EXCEPT !.pc = "undo", !.todo = LaunchedNames(TRUE)]
    /\ UNCHANGED <<kind, size, dns, books, tracked, known, stray>>

\* The run is killed while an instance starts.
LaunchKilled ==
    /\ At("launch") /\ Cardinality(run.todo) < run.number
    /\ Fails
    /\ Created(NextName, "starting")
    /\ stray' = stray \cup {NextName} \cup (run.todo \ known)
    /\ Exit
    /\ UNCHANGED <<kind, size, dns, books, tracked, known>>

\* Instances are counted by their OCIDs, so that both of two with one name count
\* if both are listed.
CheckLaunched ==
    /\ At("launch") /\ Cardinality(run.todo) = run.number
    /\ \E listed \in Listings :
         \/ /\ run.old \subseteq listed /\ listed \ run.old = run.todo
            /\ Goto("names")
            /\ known' = known \cup run.todo
            /\ UNCHANGED faults
         \/ /\ \/ /\ \/ ~(run.old \subseteq listed /\ listed \ run.old = run.todo)
                     \/ run.todo \cap twins # {}
                  /\ UNCHANGED faults
               \/ Fails
            /\ Goto("undo")
            /\ UNCHANGED known
    /\ UNCHANGED <<kind, cloud, books, tracked, twins, stray>>

\* rollback_compute_cluster_instances: errors, and names that are not unique, are
\* passed over.
UndoLaunch(n) ==
    /\ At("undo") /\ n \in run.todo
    /\ run' = [run EXCEPT !.todo = @ \ {n}]
    /\ \/ /\ n \in Active \ twins
          /\ InstanceGone(n)
          /\ UNCHANGED faults
       \/ /\ \/ n \notin Active \ twins /\ UNCHANGED faults
             \/ Fails
          /\ stray' = IF n \in Active THEN stray \cup {n} ELSE stray
          /\ UNCHANGED <<life, volumes, tracked, twins, known>>
    /\ UNCHANGED <<kind, size, dns, books>>

Undone ==
    /\ At("undo") /\ run.todo = {}
    /\ Exit
    /\ UNCHANGED <<kind, cc, cloud, books, faults>>

\* terminate_compute_cluster_instances: what the Terraform state does not have is
\* terminated, by OCID; an error is collected, and what is left at the end counts.
Sweep(n) ==
    /\ At("sweep") /\ n \in Active \ tracked
    /\ InstanceGone(n)
    /\ UNCHANGED <<kind, size, dns, books, run, faults>>

Swept ==
    /\ At("sweep")
    /\ \/ Active \subseteq tracked /\ UNCHANGED faults
       \/ Fails
    /\ Exit
    /\ UNCHANGED <<kind, cc, cloud, books>>

-----------------------------------------------------------------------------
(* the end of an add *)

AddDns(n) ==
    /\ At("names") /\ n \in Added \ dns
    /\ dns' = dns \cup {n}
    /\ UNCHANGED <<kind, cc, life, size, volumes, books, run, faults>>

\* The Terraform state of a Compute Cluster has no pool size, which is an error;
\* a permanent cluster has no such file.
AddState ==
    /\ At("names") /\ Added \subseteq dns
    /\ \/ kind # "compute" /\ tfSize' = Cardinality(Members) /\ Goto("configure")
       \/ kind = "compute" /\ UNCHANGED tfSize /\ (Goto("configure") \/ Exit)
    /\ UNCHANGED <<kind, cc, cloud, inventory, journal, faults>>

AddReconfigure ==
    /\ At("configure")
    /\ inventory' \in {inventory, inventory \cup Members}
    /\ Exit
    /\ UNCHANGED <<kind, cc, cloud, tfSize, journal, faults>>

-----------------------------------------------------------------------------
\* A call fails, or the run is killed.
Abort ==
    /\ ~At("idle")
    /\ Fails
    /\ Exit
    /\ stray' = IF kind = "compute" THEN stray \cup (Active \ known) ELSE stray
    /\ UNCHANGED <<kind, tracked, twins, known, cloud, books>>

\* OCI goes on until the pool has its size.
Settle ==
    /\ ~Settled
    /\ \E m \in PoolsOf(size) : PoolBecomes(m)
    /\ UNCHANGED <<kind, cc, size, dns, books, run, faults>>

\* An instance that was left starting is running.
Started(n) ==
    /\ life[n] = "starting"
    /\ life' = [life EXCEPT ![n] = "member"]
    /\ UNCHANGED <<kind, cc, size, volumes, dns, books, run, faults>>

Retry == \E n \in Nodes : RetryDetach(n) \/ RetryTerminate(n) \/ RetryVolume(n)

Finalize ==
    \/ FinalizeCheck \/ FinalizeState \/ FinalizeJournal \/ UpdateTFState
    \/ \E n \in Nodes : FinalizeDns(n)

Remove ==
    \/ Plan \/ Detach \/ DetachNotFound \/ Terminate \/ Tidy \/ Removed
    \/ \E n \in Nodes : Skip(n) \/ Remember(n)

Add ==
    \/ Grow \/ CheckAdded \/ Rollback \/ AddState \/ AddReconfigure
    \/ \E n \in Nodes : AddDns(n)

ComputeCluster ==
    \/ ListInstances \/ Launch \/ CheckLaunched \/ Undone \/ Swept
    \/ \E n \in Nodes : UndoLaunch(n) \/ Sweep(n)

Step == Retry \/ Retried \/ Finalize \/ List \/ Remove \/ Add \/ ComputeCluster

Next ==
    \/ \E mode \in Modes, ask \in SUBSET Nodes, number \in 0..MaxAdd :
           Start(mode, ask, number)
    \/ Step
    \/ Abort \/ LaunchKilled
    \/ Settle \/ \E n \in Nodes : Started(n)

Spec == Init /\ [][Next]_vars

\* A run goes on: every wait has a limit.  While removals are pending, an
\* operator asks for them again with --nodes, as resize.py tells them to.
Resume == Pending # {} /\ Start("remove", Pending, 0)

FairSpec == Spec /\ WF_vars(Step) /\ WF_vars(Settle) /\ SF_vars(Resume)

-----------------------------------------------------------------------------
(* Properties *)

\* A node that has left the pool with a volume of its own is in the journal
\* until instance and volume are gone: a removal that stops half-way leaves
\* nothing behind that resize.py does not know of.
RemovalRemembered ==
    kind = "managed" =>
        \A n \in Nodes :
            life[n] \in {"detached", "gone"} /\ (n \in volumes \/ life[n] = "detached") =>
                n \in Pending

\* A removal leaves the journal only when instance, volume and DNS records are
\* gone and the Terraform state has the size of the pool.
ForgottenWhenDone ==
    [][\A n \in Nodes : n \in Pending /\ n \notin Pending' =>
           /\ life'[n] = "gone" /\ n \notin volumes' /\ n \notin dns'
           /\ tfSize' = size']_vars

\* Every pending removal is completed, whatever runs come in between: the
\* journal is empty again and again.
RemovalsComplete == []<>(Pending = {})

\* An add to a Compute Cluster that fails takes back what it has launched, also
\* the instance whose launch failed: between two runs every active instance was
\* there before, or an add has found it in order, or a run was killed or its
\* rollback failed.
LaunchesUndone ==
    kind = "compute" /\ At("idle") => Active \subseteq known \cup stray

\* add terminates no node but those it found unreachable.
AddKeepsNodes ==
    [][run.mode = "add" => run.old \ run.hosts \subseteq Active']_vars

=============================================================================

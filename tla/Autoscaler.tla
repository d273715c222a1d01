------------------------------ MODULE Autoscaler ------------------------------
(***************************************************************************)
(* The cron job autoscale_slurm_disable-resize.sh: a pass reads the jobs,  *)
(* then the nodes and their idle times, then the cluster directories,      *)
(* deletes clusters that have been idle and builds one for every pending   *)
(* job.  The reads are apart, and jobs start and end, nodes are drained,   *)
(* and the scripts that build and delete clusters go on, between them and  *)
(* after them.                                                             *)
(*                                                                         *)
(* One queue with one instance type that is not permanent: limits, counts  *)
(* and the matching of jobs are kept for each of them separately.  A       *)
(* cluster is its index in the name.  ClusterLifecycle has the scripts in  *)
(* detail; here they are what a pass can see of them.  The template is     *)
(* copied within the five seconds a pass waits after it starts a creation. *)
(***************************************************************************)
EXTENDS Naturals, FiniteSetsExt

CONSTANTS
    Jobs,
    NumNodes,     \* Jobs -> Nat: nodes a job asks for
    MaxNodes,     \* max_number_nodes
    MaxSize,      \* max_cluster_size
    MaxClusters,  \* max_cluster_count
    MaxFaults     \* bound: kills and failures in a behaviour

\* A pass takes the first index that no directory has.
Index == 1..MaxClusters

ASSUME AutoscalerAssumption ==
    /\ NumNodes \in [Jobs -> Nat \ {0}]
    /\ {MaxNodes, MaxSize, MaxClusters, MaxFaults} \subseteq Nat

VARIABLES
    job,       \* job -> its state in Slurm
    on,        \* job -> the cluster it runs on, 0 if none
    st,        \* cluster -> what its directory and Slurm show of it
    size,      \* cluster -> nodes asked for
    old,       \* clusters up and without a job for idle_time
    unfit,     \* clusters whose nodes are drained or do not respond
    orphan,    \* clusters whose script was killed
    lockfile,  \* /tmp/autoscaling_lock exists
    pass,      \* local state of the pass that runs
    faults,    \* kills and failures so far
    clash,     \* history: a cluster was created where another one was
    missed,    \* history: clusters a pass counted neither as nodes nor as building,
               \* since a pass last found the limit kept
    shown      \* history: jobs that sinfo showed as running when it was read last,
               \* on clusters that no script was at work on

slurm    == <<job, on, old, unfit>>
clusters == <<st, size, orphan>>
history  == <<clash, missed, shown>>
vars     == <<slurm, clusters, lockfile, pass, faults, history>>

\* copied    the directory, and no currently_building in it
\* building  currently_building; no nodes in Slurm yet
\* joined    currently_building; nodes in Slurm
\* up        nodes in Slurm
\* deleting  currently_destroying; nodes in Slurm
\* drained   the nodes have left Slurm, the deletion goes on
\* stuck     the nodes have left Slurm, the deletion has failed
States == {"none", "copied", "building", "joined", "up", "deleting", "drained",
           "stuck"}

In(states)  == {i \in Index : st[i] \in states}
InSlurm     == In({"joined", "up", "deleting"})
Building    == In({"building", "joined"})
Directories == In(States \ {"none"})
AtRest      == In({"up"}) \cup (In({"joined"}) \cap orphan)
Alive       == In({"copied", "building", "joined", "up", "deleting"})

RunsOn(i) == {j \in Jobs : on[j] = i}
Pending   == {j \in Jobs : job[j] = "pending"}

\* The nodes of some clusters, one entry each, and how many there are.
NodeSet(set) == {n \in set \X (1..MaxSize) : n[2] <= size[n[1]]}
NodesOf(set) == Cardinality(NodeSet(set))

PassState == [pc : {"off", "jobs", "nodes", "times", "dirs", "delete", "build"},
              todo : SUBSET Jobs,      \* cluster_to_build
              seen : SUBSET Index,     \* clusters_data
              doomed : SUBSET Index,   \* not running; then cluster_to_destroy
              used : SUBSET Index,     \* used_index
              nodes : Nat]             \* current_nodes + building_nodes

Off == [pc |-> "off", todo |-> {}, seen |-> {}, doomed |-> {}, used |-> {},
        nodes |-> 0]

\* Types: a cluster's size and index stay within max_cluster_count, idle times and
\* drain marks are kept only for nodes that Slurm has, a killed script has a
\* directory.
TypeOK ==
    /\ job \in [Jobs -> {"new", "pending", "running", "done", "lost"}]
    /\ on \in [Jobs -> {0} \cup Index]
    /\ st \in [Index -> States]
    /\ size \in [Index -> 0..MaxSize]
    /\ old \subseteq InSlurm /\ unfit \subseteq InSlurm
    /\ orphan \subseteq Directories
    /\ lockfile \in BOOLEAN
    /\ pass \in PassState
    /\ faults \in 0..MaxFaults
    /\ clash \in BOOLEAN /\ missed \subseteq Index
    /\ shown \subseteq Jobs

Init ==
    /\ job = [j \in Jobs |-> "new"]
    /\ on = [j \in Jobs |-> 0]
    /\ st = [i \in Index |-> "none"]
    /\ size = [i \in Index |-> 0]
    /\ old = {} /\ unfit = {} /\ orphan = {}
    /\ lockfile = FALSE
    /\ pass = Off
    /\ faults = 0
    /\ clash = FALSE /\ missed = {} /\ shown = {}

Fault == faults < MaxFaults /\ faults' = faults + 1

-----------------------------------------------------------------------------
(* Slurm *)

Submit(j) ==
    /\ job[j] = "new"
    /\ job' = [job EXCEPT ![j] = "pending"]
    /\ UNCHANGED <<on, old, unfit, clusters, lockfile, pass, faults, history>>

Suitable(j) == {i \in InSlurm \ unfit : RunsOn(i) = {} /\ size[i] >= NumNodes[j]}

\* A job starts on a cluster that is free and large enough; Slurm does not know
\* that a pass is about to delete it.
StartJob(j) ==
    /\ j \in Pending
    /\ \E i \in Suitable(j) :
         /\ job' = [job EXCEPT ![j] = "running"]
         /\ on' = [on EXCEPT ![j] = i]
         /\ old' = old \ {i}
    /\ UNCHANGED <<unfit, clusters, lockfile, pass, faults, history>>

\* A running job ends, a pending one is cancelled.
EndJob(j) ==
    /\ job[j] \in {"pending", "running"}
    /\ job' = [job EXCEPT ![j] = "done"]
    /\ on' = [on EXCEPT ![j] = 0]
    /\ shown' = shown \ {j}
    /\ UNCHANGED <<old, unfit, clusters, lockfile, pass, faults, clash, missed>>

\* The last job ended, and slurmd was started, idle_time ago.  Slurm starts what it
\* can start well before, and the rest of a playbook takes less than that.
Age(i) ==
    /\ i \in AtRest \ old
    /\ RunsOn(i) = {}
    /\ \A j \in Pending : i \notin Suitable(j)
    /\ old' = old \cup {i}
    /\ UNCHANGED <<job, on, unfit, clusters, lockfile, pass, faults, history>>

\* The health check, which runs as Prolog too, drains the nodes and leaves their
\* job running; or they stop responding.
Drain(i) ==
    /\ i \in InSlurm \ unfit
    /\ Fault
    /\ unfit' = unfit \cup {i}
    /\ UNCHANGED <<job, on, old, clusters, lockfile, pass, history>>

-----------------------------------------------------------------------------
(* create_cluster.sh and delete_cluster.sh *)

Becomes(i, state) == st' = [st EXCEPT ![i] = state]

\* Mutant: the idle time of a name outlives its nodes.
LeaveSlurmOld(i) ==
    /\ job' = [j \in Jobs |-> IF on[j] = i THEN "lost" ELSE job[j]]
    /\ on' = [j \in Jobs |-> IF on[j] = i THEN 0 ELSE on[j]]
    /\ unfit' = unfit \ {i}
    /\ UNCHANGED old

\* The nodes of the cluster leave Slurm, and a job on them is lost.
LeaveSlurm(i) ==
    /\ job' = [j \in Jobs |-> IF on[j] = i THEN "lost" ELSE job[j]]
    /\ on' = [j \in Jobs |-> IF on[j] = i THEN 0 ELSE on[j]]
    /\ old' = old \ {i} /\ unfit' = unfit \ {i}

Gone(i) ==
    /\ Becomes(i, "none")
    /\ size' = [size EXCEPT ![i] = 0]
    /\ missed' = missed \ {i}

Progress(i) ==
    /\ i \notin orphan
    /\ \/ /\ \/ st[i] = "copied" /\ Becomes(i, "building")
             \/ st[i] = "building" /\ Becomes(i, "joined")
             \/ st[i] = "joined" /\ Becomes(i, "up")
          /\ UNCHANGED <<slurm, size, missed>>
       \/ st[i] = "deleting" /\ Becomes(i, "drained") /\ LeaveSlurm(i)
            /\ UNCHANGED <<size, missed>>
       \/ st[i] = "drained" /\ Gone(i) /\ UNCHANGED slurm
    /\ UNCHANGED <<orphan, lockfile, pass, faults, clash, shown>>

\* terraform apply fails: the next availability domain, or after the last one a
\* deletion with FORCE.  A deletion fails before or after the nodes have left Slurm.
ScriptFails(i) ==
    /\ i \notin orphan
    /\ Fault
    /\ \/ st[i] = "building" /\ (Becomes(i, "copied") \/ Becomes(i, "drained"))
       \/ st[i] = "joined" /\ Becomes(i, "deleting")
       \/ st[i] = "deleting" /\ Becomes(i, "up")
       \/ st[i] = "drained" /\ Becomes(i, "stuck")
    /\ UNCHANGED <<slurm, size, orphan, lockfile, pass, history>>

ScriptKilled(i) ==
    /\ st[i] \in {"copied", "building", "joined", "deleting", "drained"}
    /\ i \notin orphan
    /\ Fault
    /\ orphan' = orphan \cup {i}
    /\ UNCHANGED <<slurm, st, size, lockfile, pass, history>>

-----------------------------------------------------------------------------
(* A pass *)

Running  == pass.pc # "off"
Goto(pc) == pass' = [pass EXCEPT !.pc = pc]

\* Cron starts a pass every minute: the lock file is tested and created.
StartPass ==
    /\ ~Running /\ ~lockfile
    /\ lockfile' = TRUE
    /\ Goto("jobs")
    /\ UNCHANGED <<slurm, clusters, faults, history>>

\* The pass is over, or an exception ends it.
EndPass ==
    /\ \/ pass.pc = "build" /\ pass.todo = {} /\ UNCHANGED faults
       \/ Running /\ Fault
    /\ pass' = Off
    /\ lockfile' = FALSE
    /\ UNCHANGED <<slurm, clusters, history>>

\* A kill leaves the lock file.
KillPass ==
    /\ Running
    /\ Fault
    /\ pass' = Off
    /\ UNCHANGED <<slurm, clusters, lockfile, history>>

\* squeue
ReadJobs ==
    /\ pass.pc = "jobs"
    /\ pass' = [pass EXCEPT !.pc = "nodes", !.todo = Pending]
    /\ UNCHANGED <<slurm, clusters, lockfile, faults, history>>

\* Mutant: running nodes are not looked at.
RunningIgnored == {}

\* What sinfo shows as allocated or mixed; nodes that are drained or do not
\* respond have another state while their job runs.
ShownRunning == {i \in InSlurm \ unfit : RunsOn(i) # {}}

\* sinfo
ReadNodes ==
    /\ pass.pc = "nodes"
    /\ pass' = [pass EXCEPT !.pc = "times", !.seen = InSlurm,
                            !.doomed = InSlurm \ ShownRunning,
                            !.nodes = NodesOf(InSlurm)]
    /\ shown' = {j \in Jobs : on[j] \in AtRest \ unfit}
    /\ UNCHANGED <<slurm, clusters, lockfile, faults, clash, missed>>

\* Mutant: clusters are never found idle.
NeverIdle == {}

\* Without a job for idle_time.
Idle == {i \in old : RunsOn(i) = {}}

\* The End of a job that still runs is "Unknown": getIdleTime counts from the start
\* of slurmd.  A node that has left Slurm by now counts as started a day ago, and
\* from its last job.  How long ago that was is left open.
CountedFromStart == {i \in Index : i \notin InSlurm \/ RunsOn(i) # {}}

\* getIdleTime, for the nodes that are not running.
ReadIdleTimes ==
    /\ pass.pc = "times"
    /\ \E more \in SUBSET CountedFromStart :
         pass' = [pass EXCEPT !.pc = "dirs", !.doomed = @ \cap (Idle \cup more)]
    /\ UNCHANGED <<slurm, clusters, lockfile, faults, history>>

OfSize(set, n) == {j \in set : NumNodes[j] = n}

\* Every cluster that is being built takes one job of its size off the list.
Unserved(todo) ==
    {rest \in SUBSET todo :
        \A n \in {NumNodes[j] : j \in todo} :
            LET jobs   == Cardinality(OfSize(todo, n))
                builds == Cardinality({i \in Building : size[i] = n})
            IN  Cardinality(OfSize(rest, n)) =
                    IF builds < jobs THEN jobs - builds ELSE 0}

\* The cluster directories.  A cluster whose nodes had not joined when sinfo was
\* read, and whose currently_building is not there now, is counted nowhere.
ReadDirectories ==
    /\ pass.pc = "dirs"
    /\ \E rest \in Unserved(pass.todo) :
         pass' = [pass EXCEPT !.pc = "delete", !.todo = rest, !.seen = {},
                              !.used = Directories,
                              !.nodes = @ + NodesOf(Building)]
    /\ missed' = (Alive \ (pass.seen \cup Building))
                     \cup (IF NodesOf(Alive) <= MaxNodes THEN {} ELSE missed)
    /\ UNCHANGED <<slurm, clusters, lockfile, faults, clash, shown>>

\* delete_cluster.sh, which refuses a cluster that is being destroyed.
DeleteCluster ==
    /\ pass.pc = "delete"
    /\ \/ /\ pass.doomed = {} /\ Goto("build")
          /\ UNCHANGED <<st, orphan>>
       \/ \E i \in pass.doomed :
            /\ pass' = [pass EXCEPT !.doomed = @ \ {i}]
            /\ IF st[i] \in {"joined", "up", "stuck"}
               THEN /\ Becomes(i, IF st[i] = "stuck" THEN "drained" ELSE "deleting")
                    /\ orphan' = orphan \ {i}
               ELSE UNCHANGED <<st, orphan>>
    /\ UNCHANGED <<slurm, size, lockfile, faults, history>>

\* create_cluster.sh copies the template.  What becomes of a cluster into whose
\* directory it is copied once more is left open here.
CreateCluster(i, n) ==
    /\ clash' = (clash \/ st[i] # "none")
    /\ st' = [st EXCEPT ![i] = IF @ = "none" THEN "copied" ELSE @]
    /\ size' = [size EXCEPT ![i] = IF @ = 0 THEN n ELSE @]

Fits(j) == NumNodes[j] <= MaxSize /\ pass.nodes + NumNodes[j] <= MaxNodes

\* Mutant: the next index is the number of clusters.
IndexByCount(used) == 1 + Cardinality(used)

NextIndex(used) == Min(Index \ used)

\* Mutant: the nodes of the new cluster are not added to current_nodes.
Uncounted(j) == pass.nodes

NodesWith(j) == pass.nodes + NumNodes[j]

\* A job from the list: an index is taken in any case, and the cluster is built
\* if the limits on nodes allow it.
BuildCluster(j) ==
    /\ pass.pc = "build" /\ j \in pass.todo
    /\ LET done == [pass EXCEPT !.todo = @ \ {j}]
           i    == NextIndex(pass.used)
           next == IF Cardinality(pass.used) >= MaxClusters THEN done
                   ELSE IF ~Fits(j) THEN [done EXCEPT !.used = @ \cup {i}]
                   ELSE [done EXCEPT !.used = @ \cup {i}, !.nodes = NodesWith(j)]
       IN  /\ pass' = next
           /\ IF Cardinality(pass.used) < MaxClusters /\ Fits(j)
              THEN CreateCluster(i, NumNodes[j])
              ELSE UNCHANGED <<st, size, clash>>
    /\ UNCHANGED <<slurm, orphan, lockfile, faults, missed, shown>>

PassStep ==
    \/ ReadJobs \/ ReadNodes \/ ReadIdleTimes \/ ReadDirectories \/ DeleteCluster
    \/ \E j \in Jobs : BuildCluster(j)
    \/ EndPass

-----------------------------------------------------------------------------
Slurm   == \E j \in Jobs : Submit(j) \/ StartJob(j) \/ EndJob(j)
Scripts == \E i \in Index : Progress(i) \/ ScriptFails(i) \/ ScriptKilled(i)

Next ==
    \/ Slurm \/ Scripts
    \/ \E i \in Index : Age(i) \/ Drain(i)
    \/ StartPass \/ PassStep \/ KillPass

Spec == Init /\ [][Next]_vars

\* Cron starts a pass every minute and a pass goes on; Slurm starts what it can
\* and jobs end; scripts go on, and idle clusters grow old.
Fairness ==
    /\ WF_vars(StartPass \/ PassStep)
    /\ \A j \in Jobs : WF_vars(StartJob(j) \/ (job[j] = "running" /\ EndJob(j)))
    /\ \A i \in Index : WF_vars(Progress(i) \/ Age(i))

FairSpec == Spec /\ Fairness

-----------------------------------------------------------------------------
(* Properties *)

\* max_number_nodes is kept over any number of passes, although a pass counts
\* first the nodes in Slurm and then the clusters that are being built, and both
\* go on: apart from clusters that a pass missed because they came up between
\* its reads, or because their script had not come to its marker.
LimitsKept == NodesOf(Alive \ missed) <= MaxNodes

\* A cluster is never created in the directory of another one, although a pass
\* listed the directories long before and clusters come and go.
NamesUnique == ~clash

\* A cluster is not deleted under a job that sinfo showed as running on it, however
\* long after that the idle times are read and the deletion starts.  Jobs that sinfo
\* did not show are lost: those that Slurm starts on an idle cluster after sinfo was
\* read or on one that a script is at work on, and those on nodes that are drained or
\* do not respond.  The repository's own Prolog drains nodes as a job starts; their
\* cluster is deleted under the job once slurmd has been up for idle_time.
JobsLostUnseenOnly == \A j \in shown : job[j] # "lost"

\* What keeps the autoscaler from serving a job although the limits allow it: a
\* job that they do not allow takes an index in every pass, a killed pass leaves
\* its lock, and a directory stays behind a killed script or a failed deletion.
Oversized == {j \in Jobs : NumNodes[j] > MaxSize \/ NumNodes[j] > MaxNodes}

Blocked ==
    \/ Pending \cap Oversized # {}
    \/ lockfile /\ ~Running
    \/ orphan # {} \/ In({"stuck"}) # {}

\* A pending job is served, whatever clusters other jobs have left behind: idle
\* clusters that stand in its way are deleted, failed builds are repeated.
JobsServed ==
    \A j \in Jobs \ Oversized :
        []<>(job[j] # "pending" \/ Blocked)

=============================================================================

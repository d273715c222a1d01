---------------------------- MODULE ClusterLifecycle ----------------------------
(***************************************************************************)
(* The scripts that build, resize and delete one autoscaled cluster:        *)
(* bin/create_cluster.sh, bin/resize.sh with bin/resize.py, and             *)
(* bin/delete_cluster.sh.  They run as separate processes and know of each  *)
(* other only through files of the cluster's directory: the flock on        *)
(* .oci-hpc-resize.lock and the markers currently_building,                 *)
(* currently_destroying and currently_resizing.  A script that changed into *)
(* the directory keeps using that directory (its generation), a path names  *)
(* whatever directory has the cluster's name now.                           *)
(*                                                                          *)
(* What a resize does with the instances is the matter of other modules;    *)
(* here it may leave instances that Terraform does not know of.  A          *)
(* deletion of a name without a directory is not modelled.                  *)
(***************************************************************************)
EXTENDS Naturals, FiniteSets

CONSTANTS
    Creators,    \* create_cluster.sh processes
    Destroyers,  \* delete_cluster.sh processes
    Resizers,    \* resize.sh processes
    None,        \* nobody
    ComputeGens, \* generations built as a Compute Cluster; the others are pools
    MaxGen,      \* bound: directories created for the name
    MaxADs,      \* availability domains that create_cluster.sh tries
    MaxTries,    \* terraform destroy attempts
    MaxKills     \* bound: killed processes

Procs == Creators \cup Destroyers \cup Resizers
Gens  == 1..MaxGen

ASSUME ClusterLifecycleAssumption ==
    /\ Creators \cap Destroyers = {}
    /\ Resizers \cap (Creators \cup Destroyers) = {}
    /\ None \notin Procs
    /\ ComputeGens \subseteq Gens
    /\ {MaxGen, MaxADs, MaxTries} \subseteq Nat \ {0}
    /\ MaxKills \in Nat

VARIABLES
    path,        \* the generation that has the cluster's name, 0 if none
    gen,         \* generations so far
    lock,        \* generation -> holder of .oci-hpc-resize.lock
    building,    \* generations with the file currently_building
    destroying,  \* generations with the file currently_destroying
    resizing,    \* generations with the file currently_resizing
    inventory,   \* generations with the file inventory
    managed,     \* generations with resources in their Terraform state
    extra,       \* generations with instances outside their Terraform state that
                 \* resize.py finds: in the Compute Cluster or in its journal
    stray,       \* pools with an instance that was detached and lost: no longer
                 \* in the pool, not terminated and not in the journal
    proc,        \* local state of each process
    kills,       \* killed processes so far
    abandoned,   \* history: generations whose destroyer was killed
    contested    \* history: generations on which the marker and the lock cannot
                 \* tell the processes apart

files  == <<building, destroying, resizing, inventory>>
cloud  == <<managed, extra, stray>>
vars   == <<path, gen, lock, files, cloud, proc, kills, abandoned, contested>>

CreatePCs  == {"validate", "build", "apply"}
DestroyPCs == {"cleanup", "destroy", "again", "last", "finish", "remove"}
ResizePCs  == {"mark", "lock", "check", "work", "unmark"}

ProcState == [pc : {"idle", "cd", "claim", "ended"}
                     \cup CreatePCs \cup DestroyPCs \cup ResizePCs,
              g : 0..MaxGen,        \* its current directory
              r : 0..MaxGen,        \* the cluster whose inventory resize.py read
              force : BOOLEAN,      \* FORCE was given
              clean : BOOLEAN,      \* status_compute_cleanup = 0
              gone : BOOLEAN,       \* status_terraform_deletion = 0
              n : 0..(MaxADs + MaxTries)] \* attempts so far

Fresh(pc) == [pc |-> pc, g |-> 0, r |-> 0, force |-> FALSE, clean |-> FALSE,
              gone |-> FALSE, n |-> 0]

\* Types: markers and resources belong to directories that were made, and the
\* loops of create_cluster.sh and delete_cluster.sh stay within their counts.
TypeOK ==
    /\ path \in 0..MaxGen
    /\ gen \in 0..MaxGen
    /\ lock \in [Gens -> Procs \cup {None}]
    /\ building \cup destroying \cup resizing \cup inventory \cup managed
          \cup extra \cup stray \cup abandoned \cup contested \subseteq Gens
    /\ proc \in [Procs -> ProcState]
    /\ kills \in 0..MaxKills

\* Either nothing exists, or the cluster was built before.
Init ==
    /\ \/ path = 0 /\ gen = 0 /\ managed = {} /\ inventory = {}
       \/ path = 1 /\ gen = 1 /\ managed = {1} /\ inventory = {1}
    /\ lock = [g \in Gens |-> None]
    /\ building = {} /\ destroying = {} /\ resizing = {}
    /\ extra = {} /\ stray = {}
    /\ proc = [p \in Procs |-> Fresh("idle")]
    /\ kills = 0
    /\ abandoned = {} /\ contested = {}

-----------------------------------------------------------------------------
Goto(p, pc) == proc' = [proc EXCEPT ![p].pc = pc]
Ends(p)     == proc' = [proc EXCEPT ![p] = Fresh("ended")]
At(p, pc)   == proc[p].pc = pc

\* The process's current directory has not been removed.
Home(p)     == path # 0 /\ proc[p].g = path

\* The generations that creations and deletions are at work on.
BeingCreated   == {proc[p].g : p \in {q \in Procs : proc[q].pc \in CreatePCs}}
BeingDestroyed == {proc[p].g : p \in {q \in Procs : proc[q].pc \in DestroyPCs}}

\* rm -rf of the directory that has the cluster's name, whichever it is.
RemoveDirectory ==
    /\ path' = 0
    /\ building' = building \ {path}
    /\ destroying' = destroying \ {path}
    /\ resizing' = resizing \ {path}
    /\ inventory' = inventory \ {path}

-----------------------------------------------------------------------------
(* create_cluster.sh *)

\* cp -r tf_init and cd.  Operators and the autoscaler choose a free name.
CopyTemplate(p) ==
    /\ At(p, "idle")
    /\ path = 0 /\ gen < MaxGen
    /\ gen' = gen + 1
    /\ path' = gen + 1
    /\ proc' = [proc EXCEPT ![p].pc = "validate", ![p].g = gen + 1]
    /\ UNCHANGED <<lock, files, cloud, kills, abandoned, contested>>

\* The parameters of the queue are checked; a bad one removes the directory.
Validate(p) ==
    /\ At(p, "validate")
    /\ \/ Goto(p, "build") /\ UNCHANGED <<path, files>>
       \/ RemoveDirectory /\ Ends(p)
    /\ UNCHANGED <<gen, lock, cloud, kills, abandoned, contested>>

\* The loop over the availability domains.
StartBuild(p) ==
    /\ At(p, "build")
    /\ Goto(p, "apply")
    /\ building' = IF Home(p) THEN building \cup {path} ELSE building
    /\ UNCHANGED <<path, gen, lock, destroying, resizing, inventory, cloud,
                   kills, abandoned, contested>>

\* terraform apply succeeds, or fails with some resources and perhaps the
\* inventory created.  A failure is tried again in the next domain; the last
\* one deletes the cluster with FORCE, unless -DEBUG was given.
Apply(p) ==
    LET g == proc[p].g IN
    /\ At(p, "apply")
    /\ building' = building \ {g}
    /\ \/ /\ Home(p)
          /\ managed' = managed \cup {g}
          /\ inventory' = inventory \cup {g}
          /\ Ends(p)
       \/ /\ \/ UNCHANGED <<managed, inventory>>
             \/ /\ Home(p)
                /\ managed' = managed \cup {g}
                /\ inventory' \in {inventory, inventory \cup {g}}
          /\ \/ /\ proc[p].n + 1 < MaxADs
                /\ proc' = [proc EXCEPT ![p].pc = "build", ![p].n = @ + 1]
             \/ /\ proc[p].n + 1 = MaxADs
                /\ \/ Ends(p)
                   \/ proc' = [proc EXCEPT ![p] = [Fresh("cd") EXCEPT !.force = TRUE]]
    /\ UNCHANGED <<path, gen, lock, destroying, resizing, extra, stray,
                   kills, abandoned, contested>>

-----------------------------------------------------------------------------
(* delete_cluster.sh *)

StartDelete(p) ==
    /\ At(p, "idle")
    /\ \E force \in BOOLEAN :
         proc' = [proc EXCEPT ![p].pc = "cd", ![p].force = force]
    /\ UNCHANGED <<path, gen, lock, files, cloud, kills, abandoned, contested>>

ChangeDirectory(p) ==
    /\ At(p, "cd")
    /\ \/ path = 0 /\ Ends(p)
       \/ path # 0 /\ proc' = [proc EXCEPT ![p].pc = "claim", ![p].g = path]
    /\ UNCHANGED <<path, gen, lock, files, cloud, kills, abandoned, contested>>

\* The resize lock is taken without waiting, currently_destroying is tested
\* and created, and the lock is given back.
Claim(p) ==
    LET g == proc[p].g
        refused == ~Home(p) \/ lock[g] # None
                            \/ (g \in destroying /\ ~proc[p].force)
    IN
    /\ At(p, "claim")
    /\ \/ refused /\ Ends(p) /\ UNCHANGED destroying
       \/ /\ ~refused
          /\ destroying' = destroying \cup {g}
          /\ Goto(p, "cleanup")
    /\ contested' = IF ~refused /\ g \in BeingDestroyed \cup BeingCreated
                    THEN contested \cup {g} ELSE contested
    /\ UNCHANGED <<path, gen, lock, building, resizing, inventory, cloud,
                   kills, abandoned>>

\* resize.py cleanup_compute_cluster takes the resize lock.  In a pool it takes
\* up the removals of the journal and has nothing more to do.  In a Compute
\* Cluster it terminates the instances that the Terraform state does not list;
\* it does nothing, and succeeds, when the state lists no Compute Cluster.  A
\* failure may come after the last termination.
ComputeCleanup(p, next) ==
    LET Status(ok) == proc' = [proc EXCEPT ![p].pc = next, ![p].clean = ok] IN
    \/ /\ lock[path] = None
       /\ extra' = IF path \in ComputeGens \ managed THEN extra ELSE extra \ {path}
       /\ Status(TRUE)
    \/ /\ extra' \in {extra, IF lock[path] = None THEN extra \ {path} ELSE extra}
       /\ Status(FALSE)

HasInventory(p) == Home(p) /\ path \in inventory

\* The Ansible cleanup (cleanup.sh) has no say in what follows; without an
\* inventory there is nothing to clean up.
Cleanup(p) ==
    /\ At(p, "cleanup")
    /\ \/ HasInventory(p) /\ ComputeCleanup(p, "destroy")
       \/ /\ ~HasInventory(p)
          /\ proc' = [proc EXCEPT ![p].pc = "destroy", ![p].clean = TRUE]
          /\ UNCHANGED extra
    /\ UNCHANGED <<path, gen, lock, files, managed, stray, kills, abandoned,
                   contested>>

\* OCI deletes no Compute Cluster that has instances.
Deletable(g) == g \notin ComputeGens \cap extra

\* Mutant: the retries are not counted against the limit.
TerraformDestroyForever(p) ==
    LET g == proc[p].g IN
    /\ At(p, "destroy")
    /\ \/ /\ Home(p) /\ Deletable(g)
          /\ managed' = managed \ {g}
          /\ proc' = [proc EXCEPT ![p].pc = "last", ![p].gone = TRUE]
       \/ /\ proc' = [proc EXCEPT ![p].pc = "again", ![p].n = @ + 1]
          /\ UNCHANGED managed
    /\ UNCHANGED <<path, gen, lock, files, extra, stray, kills, abandoned,
                   contested>>

\* Mutant: the attempts are not counted.
TerraformDestroyUncounted(p) ==
    LET g == proc[p].g IN
    /\ At(p, "destroy")
    /\ \/ /\ Home(p) /\ Deletable(g)
          /\ managed' = managed \ {g}
          /\ proc' = [proc EXCEPT ![p].pc = "last", ![p].gone = TRUE]
       \/ Goto(p, "again") /\ UNCHANGED managed
    /\ UNCHANGED <<path, gen, lock, files, extra, stray, kills, abandoned,
                   contested>>

\* terraform destroy, up to MaxTries times.
TerraformDestroy(p) ==
    LET g == proc[p].g IN
    /\ At(p, "destroy")
    /\ \/ /\ Home(p) /\ Deletable(g)
          /\ managed' = managed \ {g}
          /\ proc' = [proc EXCEPT ![p].pc = "last", ![p].gone = TRUE]
       \/ /\ proc[p].n + 1 < MaxTries
          /\ proc' = [proc EXCEPT ![p].pc = "again", ![p].n = @ + 1]
          /\ UNCHANGED managed
       \/ /\ proc[p].n + 1 = MaxTries
          /\ Goto(p, "last")
          /\ UNCHANGED managed
    /\ UNCHANGED <<path, gen, lock, files, extra, stray, kills, abandoned,
                   contested>>

\* A failed cleanup is tried again before every further terraform destroy and
\* once after the last.
CleanupAgain(p) ==
    LET next == IF At(p, "again") THEN "destroy" ELSE "finish" IN
    /\ At(p, "again") \/ At(p, "last")
    /\ \/ ~proc[p].clean /\ HasInventory(p) /\ ComputeCleanup(p, next)
       \/ proc[p].clean /\ Goto(p, next) /\ UNCHANGED extra
       \/ ~proc[p].clean /\ ~HasInventory(p) /\ Goto(p, next) /\ UNCHANGED extra
    /\ UNCHANGED <<path, gen, lock, files, managed, stray, kills, abandoned,
                   contested>>

\* Mutant: the failure of the cleanup is not counted.
FinishDeleteIgnoringCleanup(p) ==
    LET g == proc[p].g IN
    /\ At(p, "finish")
    /\ \/ proc[p].gone /\ Goto(p, "remove") /\ UNCHANGED destroying
       \/ /\ ~proc[p].gone
          /\ destroying' = destroying \ {g}
          /\ Ends(p)
    /\ UNCHANGED <<path, gen, lock, building, resizing, inventory, cloud,
                   kills, abandoned, contested>>

\* Mutant: a failed deletion leaves its marker behind.
FinishDeleteKeepingMarker(p) ==
    /\ At(p, "finish")
    /\ \/ proc[p].gone /\ proc[p].clean /\ Goto(p, "remove")
       \/ ~(proc[p].gone /\ proc[p].clean) /\ Ends(p)
    /\ UNCHANGED <<path, gen, lock, files, cloud, kills, abandoned, contested>>

\* Success cleans up Slurm and goes on to remove the directory; failure
\* removes the marker, so that the deletion can be tried again.
FinishDelete(p) ==
    LET g == proc[p].g IN
    /\ At(p, "finish")
    /\ \/ proc[p].gone /\ proc[p].clean /\ Goto(p, "remove") /\ UNCHANGED destroying
       \/ /\ ~(proc[p].gone /\ proc[p].clean)
          /\ destroying' = destroying \ {g}
          /\ Ends(p)
    /\ UNCHANGED <<path, gen, lock, building, resizing, inventory, cloud,
                   kills, abandoned, contested>>

Remove(p) ==
    /\ At(p, "remove")
    /\ RemoveDirectory
    /\ Ends(p)
    /\ UNCHANGED <<gen, lock, cloud, kills, abandoned, contested>>

-----------------------------------------------------------------------------
(* resize.sh and resize.py *)

\* cd and the test of currently_resizing.
StartResize(p) ==
    /\ At(p, "idle")
    /\ path # 0
    /\ \/ path \in resizing /\ Ends(p)
       \/ /\ path \notin resizing
          /\ proc' = [proc EXCEPT ![p].pc = "mark", ![p].g = path]
    /\ UNCHANGED <<path, gen, lock, files, cloud, kills, abandoned, contested>>

MarkResizing(p) ==
    /\ At(p, "mark")
    /\ Goto(p, "lock")
    /\ resizing' = IF Home(p) THEN resizing \cup {path} ELSE resizing
    /\ UNCHANGED <<path, gen, lock, building, destroying, inventory, cloud,
                   kills, abandoned, contested>>

\* acquire_resize_lock, without waiting.  The lock file is found by its path.
AcquireResizeLock(p) ==
    /\ At(p, "lock")
    /\ IF path # 0 /\ lock[path] = None
       THEN lock' = [lock EXCEPT ![path] = p] /\ Goto(p, "check")
       ELSE Goto(p, "unmark") /\ UNCHANGED lock
    /\ UNCHANGED <<path, gen, files, cloud, kills, abandoned, contested>>

Release(p) == lock' = [g \in Gens |-> IF lock[g] = p THEN None ELSE lock[g]]

\* Mutant: the marker of a deletion is not looked at.
CheckNothing(p) ==
    /\ At(p, "check")
    /\ proc' = [proc EXCEPT ![p].pc = "work", ![p].r = path]
    /\ UNCHANGED <<path, gen, lock, files, cloud, kills, abandoned, contested>>

\* ensure_cluster_is_not_being_destroyed, and the inventory is read.
EnsureNotBeingDestroyed(p) ==
    /\ At(p, "check")
    /\ IF path \in inventory \ destroying
       THEN /\ proc' = [proc EXCEPT ![p].pc = "work", ![p].r = path]
            /\ contested' = IF lock[path] = p THEN contested
                                              ELSE contested \cup {path}
            /\ UNCHANGED lock
       ELSE Goto(p, "unmark") /\ Release(p) /\ UNCHANGED contested
    /\ UNCHANGED <<path, gen, files, cloud, kills, abandoned>>

\* get_summary found the cluster; a deletion beside may have destroyed it since.
Found(g) == g \in managed \cup contested

\* The operation terminates the instances that Terraform does not know of, or
\* leaves them as they are, or makes one: it adds an instance to the Compute
\* Cluster, or stops after it has detached an instance from the pool.  Such a
\* removal is in the journal only if the instance has a volume that must be
\* deleted apart.  The lock goes with the process of resize.py.
ResizeWork(p) ==
    LET g == proc[p].r IN
    /\ At(p, "work")
    /\ \/ extra' \in {extra, extra \ {g}} /\ UNCHANGED stray
       \/ Found(g) /\ extra' = extra \cup {g} /\ UNCHANGED stray
       \/ /\ Found(g) /\ g \notin ComputeGens
          /\ stray' = stray \cup {g}
          /\ UNCHANGED extra
    /\ Release(p)
    /\ Goto(p, "unmark")
    /\ UNCHANGED <<path, gen, files, managed, kills, abandoned, contested>>

\* rm currently_resizing, in the current directory.
UnmarkResizing(p) ==
    /\ At(p, "unmark")
    /\ resizing' = resizing \ {proc[p].g}
    /\ Ends(p)
    /\ UNCHANGED <<path, gen, lock, building, destroying, inventory, cloud,
                   kills, abandoned, contested>>

-----------------------------------------------------------------------------
\* A killed process leaves its markers behind; its lock goes with it.  A
\* creation is killed with Terraform in an unknown state.
Kill(p) ==
    /\ kills < MaxKills
    /\ proc[p].pc \notin {"idle", "ended"}
    /\ kills' = kills + 1
    /\ Ends(p)
    /\ Release(p)
    /\ abandoned' = IF proc[p].pc \in DestroyPCs THEN abandoned \cup {proc[p].g}
                                                 ELSE abandoned
    /\ UNCHANGED <<path, gen, files, cloud, contested>>

Delete(p) ==
    \/ ChangeDirectory(p) \/ Claim(p) \/ Cleanup(p) \/ TerraformDestroy(p)
    \/ CleanupAgain(p) \/ FinishDelete(p) \/ Remove(p)

Create(p) == Validate(p) \/ StartBuild(p) \/ Apply(p) \/ Delete(p)

Resize(p) ==
    \/ MarkResizing(p) \/ AcquireResizeLock(p) \/ EnsureNotBeingDestroyed(p)
    \/ ResizeWork(p) \/ UnmarkResizing(p)

Next ==
    \/ \E p \in Creators : CopyTemplate(p) \/ Create(p)
    \/ \E p \in Destroyers : StartDelete(p) \/ Delete(p)
    \/ \E p \in Resizers : StartResize(p) \/ Resize(p)
    \/ \E p \in Procs : Kill(p)

Spec == Init /\ [][Next]_vars

\* A script that runs goes on; nobody has to start one.
Fairness ==
    /\ \A p \in Creators : WF_vars(Create(p))
    /\ \A p \in Destroyers : WF_vars(Delete(p))
    /\ \A p \in Resizers : WF_vars(Resize(p))

FairSpec == Spec /\ Fairness

-----------------------------------------------------------------------------
(* Properties *)

BeingResized   == {proc[p].r : p \in {q \in Resizers : At(q, "work")}}

\* resize.py never works on a cluster that delete_cluster.sh is destroying: the
\* one tests the marker under the lock, the other sets it under the lock.  The
\* scripts leave gaps: a deletion with FORCE joins another one, any deletion
\* joins a creation, and a resize that has locked a directory finds a new one
\* under the same name.
ResizeExcludesDestroy == BeingDestroyed \cap BeingResized \subseteq contested

\* A directory, with the Terraform state in it, is not removed as long as
\* there are resources of its cluster: not by a deletion that half failed, nor
\* by one whose directory was replaced, as long as none of the gaps was met.
\* One kind of instance is left out because a successful deletion does leave
\* it: stray, detached from a pool, not terminated and not in the journal.  No
\* program looks for it (resize.py:1656-1660 and 2003-2006).
NoOrphans == contested = {} => managed \cup extra \subseteq {path}

\* currently_destroying is there only while a deletion runs, unless a deletion
\* was killed: it never locks the cluster out for ever.
MarkerHasOwner == destroying \subseteq BeingDestroyed \cup abandoned

\* A deletion that is not killed comes to its end, however often its cleanups
\* and terraform fail: its marker goes, with the directory or alone.
MarkerCleared ==
    \A g \in Gens : g \in destroying ~> g \notin destroying \ abandoned

=============================================================================

---------------------------- MODULE PoolResizeProofs ----------------------------
(***************************************************************************)
(* What resize.py removes it remembers until it is done, and what a failed  *)
(* add has launched it takes back, for clusters of every size, whatever     *)
(* runs follow each other and wherever they fail.                           *)
(***************************************************************************)
EXTENDS PoolResize, FiniteSetTheorems, TLAPS

N == Cardinality(Nodes)

Removal      == {"remove", "detach", "terminate", "tidy"}
Finalizing   == {"finalize", "dns", "commit"}
Early        == Finalizing \cup {"pending", "state", "plan"}
BeforeLaunch == Early \cup Removal \cup {"grow"}

-----------------------------------------------------------------------------
(* The inductive invariant *)

\* Some steps are only taken for a Compute Cluster, others never; and only a
\* pool with volumes of its own is ever journalled.
Phases ==
    /\ run.pc \in {"detach", "check", "rollback"} => kind # "compute"
    /\ run.pc \in {"launch", "undo", "sweep"} => kind = "compute"
    /\ run.pc \in {"grow", "check", "rollback", "launch"} => run.mode = "add"
    /\ kind # "compute" => tracked = {} /\ twins = {} /\ Starting = {}
    /\ kind # "managed" => Pending = {} /\ run.ready = {}

\* The node that is being removed, and what has become of it.
InHand ==
    /\ run.pc \in {"detach", "terminate", "tidy"} => run.node \in Nodes
    /\ run.pc = "detach" => /\ life[run.node] = "member"
                            /\ kind = "managed" => run.node \in Pending
    /\ run.pc = "terminate" /\ kind # "compute" => life[run.node] = "detached"
    /\ run.pc = "tidy" => life[run.node] = "gone"

\* An active instance has its volume.
HasVolume == Active \subseteq volumes

\* A pool in which something is pending or is being removed has its size, so
\* that OCI does not touch it.
Balanced ==
    kind # "compute" /\ (Pending # {} \/ run.pc \in Removal)
        => Cardinality(Members) = size

\* A run plans, grows and launches only when nothing is pending.
NothingPending ==
    /\ run.pc \in PCs \ (Removal \cup Finalizing \cup {"idle", "pending", "sweep"})
           => Pending = {}
    /\ run.pc \in Finalizing => Pending \subseteq run.ready

\* What the retry has finished is gone, with its volume, and its DNS records
\* before the journal is written.
ReadyIsGone ==
    /\ \A n \in run.ready : life[n] = "gone" /\ n \notin volumes
    /\ run.pc = "commit" => run.ready \cap dns = {}

\* The size that a run writes into the Terraform state is that of the pool.
SizeKnown ==
    /\ run.pc \in Finalizing \cup {"state"} => run.newsize = size
    /\ run.pc = "commit" => tfSize = size

\* An add never needs more nodes than there are: names for those of a Compute
\* Cluster, sizes for a pool.
Room ==
    run.mode = "add" =>
        /\ kind = "compute" =>
               /\ run.pc \in BeforeLaunch => \A n \in Active : n + run.number \in Nodes
               /\ run.pc = "launch" =>
                      /\ run.old # {} /\ \A n \in run.old : n + run.number \in Nodes
                      /\ tracked \subseteq run.old
        /\ kind # "compute" =>
               /\ run.planned + run.number <= N
               /\ run.pc \in Early /\ ~run.retried => size + run.number <= N /\ ~run.resume
        /\ run.pc = "plan" => ~run.retried

\* What an add has launched and nobody has checked yet is in its list.
LaunchedKnown ==
    kind = "compute" =>
        Active \subseteq known \cup stray
                         \cup (IF run.pc \in {"launch", "undo"} THEN run.todo ELSE {})

ResizeInv ==
    /\ TypeOK
    /\ Phases /\ InHand /\ HasVolume /\ Balanced /\ NothingPending /\ ReadyIsGone
    /\ SizeKnown /\ Room /\ LaunchedKnown
    /\ RemovalRemembered

-----------------------------------------------------------------------------
(* Facts about sets of nodes *)

\* The highest number of a set of nodes.
LEMMA MaxOf ==
    ASSUME NEW k \in Nat, NEW S \in SUBSET (0..k), S # {}
    PROVE  Max(S) \in S /\ \A y \in S : Max(S) >= y
  <1> DEFINE T == {k - x : x \in S}
             R == {ss \in Nat \X Nat : ss[1] < ss[2]}
  <1>1. T \subseteq Nat /\ T # {}
    <2>1. T # {}
      OBVIOUS
    <2>2. \A x \in S : k - x \in Nat
      OBVIOUS
    <2> QED
      BY <2>1, <2>2
  <1>2. IsWellFoundedOn(R, Nat)
    BY NatLessThanWellFounded DEF OpToRel
  <1>3. PICK t \in T : \A y \in T : ~(<<y, t>> \in R)
    <2> HIDE DEF T, R
    <2> QED
      BY <1>1, <1>2, WFMin
  <1>4. PICK m \in S : t = k - m
    OBVIOUS
  <1>5. \A y \in S : m >= y
    <2> SUFFICES ASSUME NEW y \in S, y > m PROVE FALSE
      OBVIOUS
    <2>1. k - y \in T /\ k - y < t
      BY <1>4
    <2>2. <<k - y, t>> \in R
      BY <1>1, <2>1
    <2> QED
      BY <2>1, <2>2, <1>3
  <1> QED
    BY <1>5 DEF Max

\* Nodes are numbered, and there are finitely many.
LEMMA NodesAre == N \in Nat /\ Nodes = 1..N /\ Nodes \subseteq Nat
  <1>1. N \in Nat
    BY PoolResizeAssumption, FS_CardinalityType DEF N
  <1> QED
    BY <1>1, PoolResizeAssumption DEF N

\* A set of nodes has at most as many as there are.
LEMMA NodeCount ==
    ASSUME NEW S \in SUBSET Nodes
    PROVE  IsFiniteSet(S) /\ Cardinality(S) \in 0..N
  <1>1. IsFiniteSet(S) /\ Cardinality(S) <= N
    BY PoolResizeAssumption, FS_Subset DEF N
  <1> QED
    BY <1>1, FS_CardinalityType, NodesAre

\* No run.
LEMMA IdleType == Idle \in RunState
  BY NodesAre, PoolResizeAssumption DEF Idle, RunState, PCs, Modes, Sizes, N

-----------------------------------------------------------------------------
(* Steps; what all of them speak of *)

USE DEF cloud, books, cc, Members, Starting, Active, Pending

\* A run ends, or is killed: what it leaves behind is in order.
LEMMA Exits ==
    ASSUME ResizeInv, run' = Idle,
           UNCHANGED <<kind, life, size, volumes, tracked, twins, known>>,
           tfSize' \in Sizes, inventory' \subseteq Nodes, dns' \subseteq Nodes,
           journal' \in [Nodes -> Sizes], stray' \subseteq Nodes,
           faults' \in 0..MaxFaults,
           \A n \in Nodes : \/ journal'[n] = journal[n]
                            \/ journal'[n] = 0 /\ life[n] = "gone" /\ n \notin volumes,
           kind = "compute" => Active \subseteq known \cup stray'
    PROVE  ResizeInv'
  <1>A. TypeOK'
    BY IdleType DEF ResizeInv, TypeOK
  <1>B. Phases' /\ InHand' /\ HasVolume' /\ Balanced'
    BY DEF ResizeInv, Phases, InHand, HasVolume, Balanced, Idle, Removal
  <1>C. NothingPending' /\ ReadyIsGone' /\ SizeKnown'
    BY DEF ResizeInv, NothingPending, ReadyIsGone, SizeKnown, Idle, Removal,
       Finalizing
  <1>D. Room'
    BY DEF ResizeInv, Room, Idle, Removal, Finalizing
  <1>E. LaunchedKnown' /\ RemovalRemembered'
    BY DEF ResizeInv, LaunchedKnown, RemovalRemembered, Idle
  <1> QED
    BY <1>A, <1>B, <1>C, <1>D, <1>E DEF ResizeInv

\* A run that has launched nothing ends, and may have touched the inventory.
LEMMA Quits ==
    ASSUME ResizeInv, run' = Idle, run.pc \notin {"launch", "undo"},
           UNCHANGED <<kind, cc, cloud, tfSize, journal>>,
           inventory' \subseteq Nodes, faults' \in 0..MaxFaults
    PROVE  ResizeInv'
  <1>1. kind = "compute" => Active \subseteq known \cup stray'
    BY DEF ResizeInv, LaunchedKnown
  <1> QED
    BY <1>1, Exits DEF ResizeInv, TypeOK

\* Another step of the run is next.
LEMMA Goes ==
    ASSUME run \in RunState, NEW pc \in PCs, run' = [run EXCEPT !.pc = pc]
    PROVE  /\ run' \in RunState /\ run'.pc = pc
           /\ run'.mode = run.mode /\ run'.number = run.number /\ run'.resume = run.resume
           /\ run'.ready = run.ready /\ run'.retried = run.retried /\ run'.hosts = run.hosts
           /\ run'.todo = run.todo /\ run'.node = run.node /\ run'.old = run.old
           /\ run'.planned = run.planned /\ run'.newsize = run.newsize
  BY DEF RunState

\* The removals of an add are complete: it goes on.
LEMMA AfterRemovalKeeps ==
    ASSUME ResizeInv, AfterRemoval, run.pc \in BeforeLaunch, Pending' = {},
           UNCHANGED <<kind, cc, cloud, inventory, faults>>,
           tfSize' \in Sizes, journal' \in [Nodes -> Sizes],
           \A n \in Nodes : \/ journal'[n] = journal[n]
                            \/ journal'[n] = 0 /\ life[n] = "gone" /\ n \notin volumes
    PROVE  ResizeInv'
  <1>1. CASE run' = Idle
    <2>1. kind = "compute" => Active \subseteq known \cup stray'
      BY DEF ResizeInv, LaunchedKnown, BeforeLaunch, Early, Removal, Finalizing
    <2> QED
      BY <1>1, <2>1, Exits DEF ResizeInv, TypeOK
  <1>2. CASE run.mode = "add" /\ run' = [run EXCEPT !.pc = "grow", !.ready = {}, !.newsize = 0]
    <2>1. run \in RunState /\ 0 \in Sizes
      BY NodesAre DEF ResizeInv, TypeOK, Sizes, N
    <2>0. /\ run' \in RunState /\ run'.pc = "grow" /\ run'.ready = {}
          /\ run'.mode = "add" /\ run'.number = run.number
          /\ run'.planned = run.planned
      BY <1>2, <2>1 DEF RunState, PCs
    <2>2. run.pc \notin {"launch", "undo"}
      BY DEF BeforeLaunch, Early, Removal, Finalizing
    <2>A. TypeOK'
      BY <1>2, <2>0 DEF ResizeInv, TypeOK
    <2>B. Phases' /\ InHand' /\ HasVolume' /\ Balanced'
      BY <1>2, <2>0 DEF ResizeInv, Phases, InHand, HasVolume, Balanced, Removal
    <2>C. NothingPending' /\ ReadyIsGone' /\ SizeKnown'
      BY <1>2, <2>0 DEF ResizeInv, NothingPending, ReadyIsGone, SizeKnown,
         Removal, Finalizing, PCs
    <2>D. Room'
      BY <1>2, <2>0 DEF ResizeInv, Room, Removal, Finalizing, BeforeLaunch, Early
    <2>E. LaunchedKnown' /\ RemovalRemembered'
      BY <2>0, <2>2 DEF ResizeInv, LaunchedKnown, RemovalRemembered
    <2> QED
      BY <2>A, <2>B, <2>C, <2>D, <2>E DEF ResizeInv
  <1> QED
    BY <1>1, <1>2 DEF AfterRemoval, Exit

\* A run starts: with what is pending, or, if nothing is, with its plan.
LEMMA StartKeeps ==
    ASSUME ResizeInv, NEW mode \in Modes, NEW ask \in SUBSET Nodes, NEW number \in 0..MaxAdd,
           Start(mode, ask, number)
    PROVE  ResizeInv'
  <1> USE DEF At
  <1> DEFINE pc == IF Pending = {} /\ mode # "cleanup_compute_cluster"
                   THEN "plan" ELSE "pending"
             asked == IF Pending = {} THEN ask ELSE {}
             resume == mode = "cleanup_compute_cluster"
                           \/ (mode \in Removes /\ Pending \subseteq ask)
  <1>c. /\ pc \in {"plan", "pending"} /\ (pc = "plan" => Pending = {})
        /\ asked \in SUBSET Nodes /\ resume \in BOOLEAN /\ (mode = "add" => ~resume)
    BY DEF Removes
  <1>d. /\ run.pc = "idle"
        /\ run' = [Idle EXCEPT !.mode = mode, !.number = number, !.pc = pc,
                               !.ask = asked, !.resume = resume]
        /\ UNCHANGED <<kind, cc, cloud, books, faults>>
    BY DEF Start
  <1> HIDE DEF pc, asked, resume
  <1>e. /\ run' \in RunState
        /\ run'.pc = pc /\ run'.mode = mode /\ run'.number = number /\ run'.planned = 0
        /\ run'.ready = {} /\ run'.retried = FALSE /\ run'.resume = resume
    BY <1>c, <1>d, IdleType DEF RunState, Idle, PCs
  <1>0. /\ run.pc = "idle"
        /\ run'.pc \in {"plan", "pending"} /\ (run'.pc = "plan" => Pending = {})
        /\ run'.mode = mode /\ run'.number = number /\ run'.planned = 0
        /\ run'.ready = {} /\ run'.retried = FALSE
        /\ mode = "add" => ~run'.resume
        /\ run' \in RunState
        /\ UNCHANGED <<kind, cc, cloud, books, faults>>
    BY <1>c, <1>d, <1>e
  <1>a. mode = "add" => IF kind = "compute" THEN \A n \in Active : n + number \in Nodes
                                           ELSE size + number <= N
    <2>1. CASE mode = "add" /\ kind = "compute"
      <3>1. {0} \cup Active \subseteq 0..N /\ N \in Nat
        BY NodesAre
      <3>2. Max({0} \cup Active) + number \in 1..N
        BY <2>1, NodesAre DEF Start
      <3>3. \A n \in Active : Max({0} \cup Active) >= n
        BY <3>1, MaxOf
      <3>4. Max({0} \cup Active) \in 0..N
        BY <3>1, MaxOf
      <3> QED
        BY <2>1, <3>1, <3>2, <3>3, <3>4, NodesAre
    <2>2. CASE mode = "add" /\ kind # "compute"
      <3>1. size + number <= Cardinality(Members \cup Fresh)
        BY <2>2 DEF Start
      <3>2. Cardinality(Members \cup Fresh) \in 0..N
        BY NodeCount DEF Fresh
      <3>3. size \in Nat /\ N \in Nat
        BY NodesAre DEF ResizeInv, TypeOK, Sizes, N
      <3> QED
        BY <2>2, <3>1, <3>2, <3>3
    <2> QED
      BY <2>1, <2>2
  <1>b. size \in Nat /\ N \in Nat /\ number \in Nat
    BY NodesAre DEF ResizeInv, TypeOK, Sizes, N
  <1>A. TypeOK'
    BY <1>0 DEF ResizeInv, TypeOK
  <1>B. Phases' /\ InHand' /\ HasVolume' /\ Balanced'
    BY <1>0 DEF ResizeInv, Phases, InHand, HasVolume, Balanced, Removal
  <1>C. NothingPending' /\ ReadyIsGone' /\ SizeKnown'
    BY <1>0, <1>a, <1>b DEF ResizeInv, NothingPending, ReadyIsGone, SizeKnown,
       Removal, Finalizing, PCs
  <1>D. Room'
    BY <1>0, <1>a, <1>b DEF ResizeInv, Room, Removal, Finalizing, BeforeLaunch,
       Early
  <1>E. LaunchedKnown' /\ RemovalRemembered'
    BY <1>0 DEF ResizeInv, LaunchedKnown, RemovalRemembered
  <1> QED
    BY <1>A, <1>B, <1>C, <1>D, <1>E DEF ResizeInv

\* A member leaves its pool, which has one node less.
LEMMA LeavesPool ==
    ASSUME TypeOK, NEW n \in Nodes, life[n] = "member", DetachFromPool(n),
           Cardinality(Members) = size
    PROVE  /\ Members' = Members \ {n} /\ n \in Members /\ Starting' = Starting
           /\ Cardinality(Members') = size' /\ size' \in Sizes
  <1>1. life' = [life EXCEPT ![n] = "detached"] /\ size' = size - 1
    BY DEF DetachFromPool
  <1>2. Members' = Members \ {n} /\ n \in Members /\ Starting' = Starting
    BY <1>1 DEF TypeOK
  <1>3. Cardinality(Members \ {n}) = Cardinality(Members) - 1
    BY <1>2, NodeCount, FS_RemoveElement
  <1>4. Cardinality(Members \ {n}) \in 0..N
    BY NodeCount
  <1> QED
    BY <1>1, <1>2, <1>3, <1>4 DEF Sizes, N

-----------------------------------------------------------------------------
(* The retry of pending removals *)

\* A node that is pending leaves the pool, which shrinks with it.
LEMMA RetryDetachKeeps ==
    ASSUME ResizeInv, NEW n \in Nodes, RetryDetach(n)
    PROVE  ResizeInv'
  <1> USE DEF Retries, At
  <1>1. CASE run' = Idle /\ UNCHANGED <<life, size>>
    <2>1. kind = "compute" => Active \subseteq known \cup stray
      BY DEF RetryDetach, ResizeInv, LaunchedKnown
    <2> QED
      BY <1>1, <2>1, Exits DEF RetryDetach, ResizeInv, TypeOK
  <1>2. CASE run.resume /\ DetachFromPool(n) /\ UNCHANGED run
    <2>0. /\ run.pc = "pending" /\ run.resume /\ n \in Pending /\ life[n] = "member" /\ kind = "managed"
          /\ life' = [life EXCEPT ![n] = "detached"] /\ size' = size - 1
          /\ UNCHANGED <<kind, cc, volumes, dns, books, run, faults>>
      BY <1>2 DEF RetryDetach, DetachFromPool, ResizeInv, Phases
    <2>1. Cardinality(Members) = size
      BY <2>0 DEF ResizeInv, Balanced
    <2>5. Members' = Members \ {n} /\ n \in Members /\ Starting' = Starting
          /\ Cardinality(Members') = size' /\ size' \in Sizes
      BY <2>0, <2>1, <1>2, LeavesPool DEF ResizeInv
    <2>A. TypeOK'
      BY <2>0, <2>5 DEF ResizeInv, TypeOK, Phases
    <2>B. Phases' /\ InHand' /\ HasVolume' /\ Balanced'
      BY <2>0, <2>5 DEF ResizeInv, Phases, InHand, HasVolume, Balanced, Removal
    <2>C. NothingPending' /\ ReadyIsGone' /\ SizeKnown'
      BY <2>0, <2>5 DEF ResizeInv, NothingPending, ReadyIsGone, SizeKnown,
         Removal, Finalizing
    <2>D. Room'
      BY <2>0, <2>5 DEF ResizeInv, Room, Removal, Finalizing, BeforeLaunch, Early
    <2>E. LaunchedKnown' /\ RemovalRemembered'
      BY <2>0, <2>5 DEF ResizeInv, LaunchedKnown, RemovalRemembered
    <2> QED
      BY <2>A, <2>B, <2>C, <2>D, <2>E DEF ResizeInv
  <1> QED
    BY <1>1, <1>2 DEF RetryDetach, Exit

\* The instance of a node that has left the pool is terminated.
LEMMA RetryTerminateKeeps ==
    ASSUME ResizeInv, NEW n \in Nodes, RetryTerminate(n)
    PROVE  ResizeInv'
  <1>0. /\ run.pc = "pending" /\ n \in Pending /\ life[n] = "detached"
        /\ life' = [life EXCEPT ![n] = "gone"]
        /\ UNCHANGED <<kind, cc, size, volumes, dns, books, run, faults>>
        /\ Members' = Members /\ Starting' = Starting
    BY DEF RetryTerminate, Retries, At, ResizeInv, TypeOK
  <1>A. TypeOK'
    BY <1>0 DEF ResizeInv, TypeOK
  <1>B. Phases' /\ InHand' /\ HasVolume' /\ Balanced'
    BY <1>0 DEF ResizeInv, Phases, InHand, HasVolume, Balanced, Removal
  <1>C. NothingPending' /\ ReadyIsGone' /\ SizeKnown'
    BY <1>0 DEF ResizeInv, NothingPending, ReadyIsGone, SizeKnown, Removal,
       Finalizing
  <1>D. Room'
    BY <1>0 DEF ResizeInv, Room, Removal, Finalizing, BeforeLaunch, Early
  <1>E. LaunchedKnown' /\ RemovalRemembered'
    BY <1>0 DEF ResizeInv, LaunchedKnown, RemovalRemembered
  <1> QED
    BY <1>A, <1>B, <1>C, <1>D, <1>E DEF ResizeInv

\* Its volume is deleted: the removal is ready to be finalized.
LEMMA RetryVolumeKeeps ==
    ASSUME ResizeInv, NEW n \in Nodes, RetryVolume(n)
    PROVE  ResizeInv'
  <1>0. /\ run \in RunState /\ run' = [run EXCEPT !.ready = @ \cup {n}]
        /\ run.pc = "pending" /\ n \in Pending /\ life[n] = "gone"
        /\ volumes' = volumes \ {n}
        /\ UNCHANGED <<kind, cc, life, size, dns, books, faults>>
    BY DEF RetryVolume, Retries, DeleteVolume, At, ResizeInv, TypeOK
  <1>A. TypeOK'
    BY <1>0 DEF ResizeInv, TypeOK, RunState
  <1>B. Phases' /\ InHand' /\ HasVolume' /\ Balanced'
    BY <1>0 DEF ResizeInv, Phases, InHand, HasVolume, Balanced, Removal, RunState
  <1>C. NothingPending' /\ ReadyIsGone' /\ SizeKnown'
    BY <1>0 DEF ResizeInv, NothingPending, ReadyIsGone, SizeKnown, Removal,
       Finalizing, RunState
  <1>D. Room'
    BY <1>0 DEF ResizeInv, Room, Removal, Finalizing, BeforeLaunch, Early,
       RunState
  <1>E. LaunchedKnown' /\ RemovalRemembered'
    BY <1>0 DEF ResizeInv, LaunchedKnown, RemovalRemembered, RunState
  <1> QED
    BY <1>A, <1>B, <1>C, <1>D, <1>E DEF ResizeInv

\* Every pending removal is ready, or there is none.
LEMMA RetriedKeeps ==
    ASSUME ResizeInv, Retried
    PROVE  ResizeInv'
  <1>0. /\ run \in RunState /\ run.pc = "pending" /\ Pending \subseteq run.ready
        /\ size \in Sizes
        /\ UNCHANGED <<kind, cc, cloud, books, faults>>
    BY DEF Retried, At, ResizeInv, TypeOK
  <1> DEFINE pc == CASE run.mode = "cleanup_compute_cluster" -> "dns"
                     [] run.ready # {} -> "finalize"
                     [] OTHER -> "state"
  <1>q. pc \in {"finalize", "dns", "state"} /\ (pc = "state" => Pending = {})
    BY <1>0
  <1>p. run' = [run EXCEPT !.newsize = size, !.pc = pc]
    BY DEF Retried
  <1> HIDE DEF pc
  <1>r. /\ run' \in RunState /\ run'.pc = pc /\ run'.newsize = size
        /\ run'.ready = run.ready /\ run'.mode = run.mode /\ run'.number = run.number
        /\ run'.planned = run.planned /\ run'.retried = run.retried
        /\ run'.resume = run.resume
    BY <1>0, <1>p, <1>q DEF RunState, PCs
  <1>A. TypeOK'
    BY <1>0, <1>q, <1>r DEF ResizeInv, TypeOK
  <1>B. Phases' /\ InHand' /\ HasVolume' /\ Balanced'
    BY <1>0, <1>q, <1>r DEF ResizeInv, Phases, InHand, HasVolume, Balanced,
       Removal
  <1>C. NothingPending' /\ ReadyIsGone' /\ SizeKnown'
    BY <1>0, <1>q, <1>r DEF ResizeInv, NothingPending, ReadyIsGone, SizeKnown,
       Removal, Finalizing, PCs
  <1>D. Room'
    BY <1>0, <1>q, <1>r DEF ResizeInv, Room, Removal, Finalizing, BeforeLaunch,
       Early
  <1>E. LaunchedKnown' /\ RemovalRemembered'
    BY <1>0, <1>q, <1>r DEF ResizeInv, LaunchedKnown, RemovalRemembered
  <1> QED
    BY <1>A, <1>B, <1>C, <1>D, <1>E DEF ResizeInv

-----------------------------------------------------------------------------
(* Finalizing removals *)

\* The size of the pool and its members are checked.
LEMMA FinalizeCheckKeeps ==
    ASSUME ResizeInv, FinalizeCheck
    PROVE  ResizeInv'
  <1>0. /\ run \in RunState /\ run.pc = "finalize" /\ "dns" \in PCs
        /\ UNCHANGED <<kind, cc, cloud, books, faults>>
    BY DEF FinalizeCheck, At, ResizeInv, TypeOK, PCs
  <1>1. CASE run' = Idle
    BY <1>0, <1>1, Quits DEF ResizeInv, TypeOK
  <1>2. CASE run' = [run EXCEPT !.pc = "dns"]
    <2>0. run' \in RunState /\ run'.pc = "dns"
          /\ run'.mode = run.mode /\ run'.number = run.number /\ run'.resume = run.resume
          /\ run'.ready = run.ready /\ run'.retried = run.retried
          /\ run'.planned = run.planned /\ run'.newsize = run.newsize
      BY <1>0, <1>2, Goes
    <2>A. TypeOK'
      BY <1>0, <2>0 DEF ResizeInv, TypeOK
    <2>B. Phases' /\ InHand' /\ HasVolume' /\ Balanced'
      BY <1>0, <2>0 DEF ResizeInv, Phases, InHand, HasVolume, Balanced, Removal
    <2>C. NothingPending' /\ ReadyIsGone' /\ SizeKnown'
      BY <1>0, <2>0 DEF ResizeInv, NothingPending, ReadyIsGone, SizeKnown,
         Removal, Finalizing, PCs
    <2>D. Room'
      BY <1>0, <2>0 DEF ResizeInv, Room, Removal, Finalizing, BeforeLaunch, Early
    <2>E. LaunchedKnown' /\ RemovalRemembered'
      BY <1>0, <2>0 DEF ResizeInv, LaunchedKnown, RemovalRemembered
    <2> QED
      BY <2>A, <2>B, <2>C, <2>D, <2>E DEF ResizeInv
  <1> QED
    BY <1>1, <1>2 DEF FinalizeCheck, Goto, Exit

\* The DNS records of a removed node are deleted.
LEMMA FinalizeDnsKeeps ==
    ASSUME ResizeInv, NEW n \in Nodes, FinalizeDns(n)
    PROVE  ResizeInv'
  <1>0. /\ run.pc = "dns" /\ dns' = dns \ {n}
        /\ UNCHANGED <<kind, cc, life, size, volumes, books, run, faults>>
    BY DEF FinalizeDns, DeleteRecords, At
  <1>A. TypeOK'
    BY <1>0 DEF ResizeInv, TypeOK
  <1>B. Phases' /\ InHand' /\ HasVolume' /\ Balanced'
    BY <1>0 DEF ResizeInv, Phases, InHand, HasVolume, Balanced, Removal
  <1>C. NothingPending' /\ ReadyIsGone' /\ SizeKnown'
    BY <1>0 DEF ResizeInv, NothingPending, ReadyIsGone, SizeKnown, Removal,
       Finalizing
  <1>D. Room'
    BY <1>0 DEF ResizeInv, Room, Removal, Finalizing, BeforeLaunch, Early
  <1>E. LaunchedKnown' /\ RemovalRemembered'
    BY <1>0 DEF ResizeInv, LaunchedKnown, RemovalRemembered
  <1> QED
    BY <1>A, <1>B, <1>C, <1>D, <1>E DEF ResizeInv

\* The Terraform state gets the size of the pool.
LEMMA FinalizeStateKeeps ==
    ASSUME ResizeInv, FinalizeState
    PROVE  ResizeInv'
  <1>0. /\ run \in RunState /\ run.pc = "dns" /\ run.ready \cap dns = {}
        /\ {"commit", "sweep"} \subseteq PCs
        /\ UNCHANGED <<kind, cc, cloud, inventory, journal, faults>>
    BY DEF FinalizeState, At, ResizeInv, TypeOK, PCs
  <1>1. CASE run' = Idle /\ UNCHANGED tfSize
    BY <1>0, <1>1, Quits DEF ResizeInv, TypeOK
  <1>2. CASE kind = "compute" /\ run' = [run EXCEPT !.pc = "sweep"] /\ UNCHANGED tfSize
    <2>0. run' \in RunState /\ run'.pc = "sweep"
          /\ run'.mode = run.mode /\ run'.number = run.number /\ run'.resume = run.resume
          /\ run'.ready = run.ready /\ run'.retried = run.retried
          /\ run'.planned = run.planned /\ run'.newsize = run.newsize
      BY <1>0, <1>2, Goes
    <2>A. TypeOK'
      BY <1>0, <1>2, <2>0 DEF ResizeInv, TypeOK
    <2>B. Phases' /\ InHand' /\ HasVolume' /\ Balanced'
      BY <1>0, <1>2, <2>0 DEF ResizeInv, Phases, InHand, HasVolume, Balanced,
         Removal
    <2>C. NothingPending' /\ ReadyIsGone' /\ SizeKnown'
      BY <1>0, <1>2, <2>0 DEF ResizeInv, NothingPending, ReadyIsGone, SizeKnown,
         Removal, Finalizing, PCs
    <2>D. Room'
      BY <1>0, <1>2, <2>0 DEF ResizeInv, Room, Removal, Finalizing, BeforeLaunch,
         Early
    <2>E. LaunchedKnown' /\ RemovalRemembered'
      BY <1>0, <1>2, <2>0 DEF ResizeInv, LaunchedKnown, RemovalRemembered
    <2> QED
      BY <2>A, <2>B, <2>C, <2>D, <2>E DEF ResizeInv
  <1>3. CASE run' = [run EXCEPT !.pc = "commit"] /\ tfSize' = run.newsize
    <2>0. run' \in RunState /\ run'.pc = "commit"
          /\ run'.mode = run.mode /\ run'.number = run.number /\ run'.resume = run.resume
          /\ run'.ready = run.ready /\ run'.retried = run.retried
          /\ run'.planned = run.planned /\ run'.newsize = run.newsize
      BY <1>0, <1>3, Goes
    <2>5. tfSize' = size
      BY <1>0, <1>3 DEF ResizeInv, SizeKnown, Finalizing
    <2>A. TypeOK'
      BY <1>0, <2>0, <2>5 DEF ResizeInv, TypeOK
    <2>B. Phases' /\ InHand' /\ HasVolume' /\ Balanced'
      BY <1>0, <2>0, <2>5 DEF ResizeInv, Phases, InHand, HasVolume, Balanced,
         Removal
    <2>C. NothingPending' /\ ReadyIsGone' /\ SizeKnown'
      BY <1>0, <2>0, <2>5 DEF ResizeInv, NothingPending, ReadyIsGone, SizeKnown,
         Removal, Finalizing, PCs
    <2>D. Room'
      BY <1>0, <2>0, <2>5 DEF ResizeInv, Room, Removal, Finalizing, BeforeLaunch,
         Early
    <2>E. LaunchedKnown' /\ RemovalRemembered'
      BY <1>0, <2>0, <2>5 DEF ResizeInv, LaunchedKnown, RemovalRemembered
    <2> QED
      BY <2>A, <2>B, <2>C, <2>D, <2>E DEF ResizeInv
  <1> QED
    BY <1>1, <1>2, <1>3 DEF FinalizeState, Goto, Exit

\* The journal forgets what is done.
LEMMA FinalizeJournalKeeps ==
    ASSUME ResizeInv, FinalizeJournal
    PROVE  ResizeInv'
  <1>0. /\ run \in RunState /\ run.pc = "commit" /\ 0 \in Sizes
        /\ journal' = [n \in Nodes |-> IF n \in run.ready THEN 0 ELSE journal[n]]
        /\ UNCHANGED <<kind, cc, cloud, tfSize, inventory, faults>>
    BY NodesAre DEF FinalizeJournal, WriteJournal, At, ResizeInv, TypeOK, Sizes, N
  <1>4. /\ journal' \in [Nodes -> Sizes]
        /\ \A n \in Nodes : \/ journal'[n] = journal[n]
                            \/ journal'[n] = 0 /\ life[n] = "gone" /\ n \notin volumes
    BY <1>0 DEF ResizeInv, TypeOK, ReadyIsGone
  <1>5. Pending' = {}
    <2>1. Pending \subseteq run.ready
      BY <1>0 DEF ResizeInv, NothingPending, Finalizing
    <2> QED
      BY <1>0, <2>1
  <1>1. CASE AfterRemoval
    BY <1>0, <1>1, <1>4, <1>5, AfterRemovalKeeps
    DEF BeforeLaunch, Early, Finalizing, ResizeInv, TypeOK
  <1>2. CASE run' = Idle
    <2>1. kind = "compute" => Active \subseteq known \cup stray'
      BY <1>0 DEF ResizeInv, LaunchedKnown
    <2> QED
      BY <1>0, <1>2, <1>4, <2>1, Exits DEF ResizeInv, TypeOK
  <1>3. CASE /\ ~run.retried /\ run.mode \notin Removes
             /\ run' = [run EXCEPT !.pc = "plan", !.ready = {}, !.newsize = 0]
    <2>0. run' \in RunState /\ run'.pc = "plan"
          /\ run'.mode = run.mode /\ run'.number = run.number /\ run'.resume = run.resume
          /\ run'.ready = {} /\ run'.retried = FALSE
          /\ run'.planned = run.planned
      BY <1>0, <1>3 DEF RunState, PCs
    <2>5. run.pc = "commit" /\ UNCHANGED <<kind, life, size, volumes>>
      BY <1>0
    <2>A. TypeOK'
      BY <1>0, <1>4, <1>5, <2>0 DEF ResizeInv, TypeOK
    <2>B. Phases' /\ InHand' /\ HasVolume' /\ Balanced'
      BY <1>0, <1>4, <1>5, <2>0 DEF ResizeInv, Phases, InHand, HasVolume,
         Balanced, Removal
    <2>C. NothingPending' /\ ReadyIsGone' /\ SizeKnown'
      BY <1>3, <1>5, <2>0, <2>5 DEF ResizeInv, NothingPending, ReadyIsGone,
         SizeKnown, Removal, Finalizing
    <2>D. Room'
      BY <1>3, <1>5, <2>0, <2>5 DEF ResizeInv, Room, Removal, Finalizing,
         BeforeLaunch, Early
    <2>E. LaunchedKnown' /\ RemovalRemembered'
      BY <1>0, <1>4, <1>5, <2>0 DEF ResizeInv, LaunchedKnown, RemovalRemembered
    <2> QED
      BY <2>A, <2>B, <2>C, <2>D, <2>E DEF ResizeInv
  <1> QED
    BY <1>1, <1>2, <1>3 DEF FinalizeJournal, Exit

\* Nothing was pending: only the Terraform state is to be written.
LEMMA UpdateTFStateKeeps ==
    ASSUME ResizeInv, UpdateTFState
    PROVE  ResizeInv'
  <1>0. /\ run.pc = "state" /\ tfSize' = run.newsize /\ run \in RunState
        /\ UNCHANGED <<kind, cc, cloud, inventory, journal, faults>>
    BY DEF UpdateTFState, At, ResizeInv, TypeOK
  <1>1. Pending' = {}
    BY <1>0 DEF ResizeInv, NothingPending, Removal, Finalizing, PCs
  <1>2. tfSize' \in Sizes
    BY <1>0 DEF RunState
  <1> QED
    BY <1>0, <1>1, <1>2, AfterRemovalKeeps
    DEF UpdateTFState, BeforeLaunch, Early, ResizeInv, TypeOK

-----------------------------------------------------------------------------
(* Removing nodes *)

\* Only nodes are removed.
LEMMA HostsAreNodes ==
    ASSUME ResizeInv, NEW hosts \in HostsToRemove
    PROVE  hosts \in SUBSET Nodes
  <1>1. run.ask \subseteq Nodes /\ inventory \subseteq Nodes
    BY DEF ResizeInv, TypeOK, RunState
  <1>2. \A S \in SUBSET Nodes : \A u \in Unreachable(S) : u \in SUBSET Nodes
    BY DEF Unreachable
  <1>3. CASE run.mode = "add"
    BY <1>1, <1>2, <1>3 DEF HostsToRemove
  <1>4. CASE run.mode = "remove" /\ run.ask # {}
    BY <1>1, <1>2, <1>4 DEF HostsToRemove
  <1>5. CASE run.mode = "remove" /\ run.ask = {}
    BY <1>1, <1>5 DEF HostsToRemove
  <1>6. CASE run.mode = "remove_unreachable" /\ run.ask # {}
    BY <1>1, <1>6 DEF HostsToRemove
  <1>7. CASE /\ run.mode # "add" /\ run.mode # "remove"
             /\ ~(run.mode = "remove_unreachable" /\ run.ask # {})
    BY <1>1, <1>2, <1>7 DEF HostsToRemove
  <1> QED
    BY <1>3, <1>4, <1>5, <1>6, <1>7

\* list and reconfigure only touch the inventory.
LEMMA ListKeeps ==
    ASSUME ResizeInv, List
    PROVE  ResizeInv'
  <1>1. /\ run.pc = "plan" /\ run' = Idle
        /\ inventory' \in {Members, inventory \cup Members, inventory}
        /\ UNCHANGED <<kind, cc, cloud, tfSize, journal, faults>>
    BY DEF List, At, Exit
  <1> QED
    BY <1>1, Quits DEF ResizeInv, TypeOK

\* A removal is planned for a pool that has its size.
LEMMA PlanKeeps ==
    ASSUME ResizeInv, Plan
    PROVE  ResizeInv'
  <1>0. /\ run \in RunState /\ run.pc = "plan" /\ inventory' \subseteq Nodes
        /\ kind = "compute" \/ Cardinality(Members) = size
        /\ UNCHANGED <<kind, cc, cloud, tfSize, journal, faults>>
        /\ Pending = {} /\ size \in Sizes /\ Members \subseteq Nodes
    BY DEF Plan, At, Settled, ResizeInv, TypeOK, NothingPending, PCs, Removal, Finalizing
  <1>p. run.mode = "add" => IF kind = "compute" THEN \A n \in Active : n + run.number \in Nodes
                                               ELSE size + run.number <= N
    BY <1>0 DEF ResizeInv, Room, Early, BeforeLaunch
  <1>u. UNCHANGED <<kind, life, size>>
    BY <1>0
  <1>1. CASE run' = Idle
    BY <1>0, <1>1, Quits DEF ResizeInv, TypeOK
  <1>2. CASE \E hosts \in HostsToRemove : Removing(hosts)
    <2>1. PICK hosts \in SUBSET Nodes : Removing(hosts)
      BY <1>2, HostsAreNodes
    <2>0. CASE run.mode = "add"
      <3>0. /\ run' \in RunState /\ run'.pc = "remove"
            /\ run'.mode = "add" /\ run'.number = run.number
            /\ run'.ready = run.ready /\ run'.planned = size
        BY <1>0, <2>0, <2>1 DEF Removing, RunState, PCs
      <3>A. TypeOK'
        BY <1>0, <1>p, <3>0 DEF ResizeInv, TypeOK
      <3>B. Phases' /\ InHand' /\ HasVolume' /\ Balanced'
        BY <1>0, <1>p, <3>0 DEF ResizeInv, Phases, InHand, HasVolume, Balanced,
           Removal
      <3>C. NothingPending' /\ ReadyIsGone' /\ SizeKnown'
        BY <1>0, <1>p, <3>0 DEF ResizeInv, NothingPending, ReadyIsGone, SizeKnown,
           Removal, Finalizing, PCs
      <3>D. Room'
        BY <1>p, <1>u, <2>0, <3>0 DEF ResizeInv, Room, Removal, Finalizing,
           BeforeLaunch, Early
      <3>E. LaunchedKnown' /\ RemovalRemembered'
        BY <1>0, <1>p, <3>0 DEF ResizeInv, LaunchedKnown, RemovalRemembered
      <3> QED
        BY <3>A, <3>B, <3>C, <3>D, <3>E DEF ResizeInv
    <2>2. CASE run.mode # "add"
      <3>0. /\ run' \in RunState /\ run'.pc = "remove"
            /\ run'.mode = "remove" /\ run'.ready = {}
        BY <1>0, <2>2, <2>1, IdleType DEF Removing, RunState, PCs, Idle, Modes
      <3>A. TypeOK'
        BY <1>0, <1>p, <3>0 DEF ResizeInv, TypeOK
      <3>B. Phases' /\ InHand' /\ HasVolume' /\ Balanced'
        BY <1>0, <1>p, <3>0 DEF ResizeInv, Phases, InHand, HasVolume, Balanced,
           Removal
      <3>C. NothingPending' /\ ReadyIsGone' /\ SizeKnown'
        BY <1>0, <1>p, <3>0 DEF ResizeInv, NothingPending, ReadyIsGone, SizeKnown,
           Removal, Finalizing, PCs
      <3>D. Room'
        BY <1>0, <1>p, <3>0 DEF ResizeInv, Room, Removal, Finalizing,
           BeforeLaunch, Early
      <3>E. LaunchedKnown' /\ RemovalRemembered'
        BY <1>0, <1>p, <3>0 DEF ResizeInv, LaunchedKnown, RemovalRemembered
      <3> QED
        BY <3>A, <3>B, <3>C, <3>D, <3>E DEF ResizeInv
    <2> QED
      BY <2>0, <2>2
  <1>3. CASE run.mode = "add" /\ run' = [run EXCEPT !.pc = "grow", !.old = Members, !.planned = size]
    <2>0. /\ run' \in RunState /\ run'.pc = "grow"
          /\ run'.mode = "add" /\ run'.number = run.number
          /\ run'.ready = run.ready /\ run'.planned = size
      BY <1>0, <1>3 DEF RunState, PCs
    <2>A. TypeOK'
      BY <1>0, <1>p, <2>0 DEF ResizeInv, TypeOK
    <2>B. Phases' /\ InHand' /\ HasVolume' /\ Balanced'
      BY <1>0, <1>p, <2>0 DEF ResizeInv, Phases, InHand, HasVolume, Balanced,
         Removal
    <2>C. NothingPending' /\ ReadyIsGone' /\ SizeKnown'
      BY <1>0, <1>p, <2>0 DEF ResizeInv, NothingPending, ReadyIsGone, SizeKnown,
         Removal, Finalizing, PCs
    <2>D. Room'
      BY <1>p, <1>u, <1>3, <2>0 DEF ResizeInv, Room, Removal, Finalizing,
         BeforeLaunch, Early
    <2>E. LaunchedKnown' /\ RemovalRemembered'
      BY <1>0, <1>p, <2>0 DEF ResizeInv, LaunchedKnown, RemovalRemembered
    <2> QED
      BY <2>A, <2>B, <2>C, <2>D, <2>E DEF ResizeInv
  <1> QED
    BY <1>1, <1>2, <1>3 DEF Plan, Exit

\* A node that is not there is passed over.
LEMMA SkipKeeps ==
    ASSUME ResizeInv, NEW n \in Nodes, Skip(n)
    PROVE  ResizeInv'
  <1>0. /\ run \in RunState /\ run.pc = "remove"
        /\ UNCHANGED <<kind, cc, cloud, books, faults>>
    BY DEF Skip, At, ResizeInv, TypeOK
  <1>1. CASE run' = Idle
    BY <1>0, <1>1, Quits DEF ResizeInv, TypeOK
  <1>2. CASE run' = [run EXCEPT !.todo = @ \ {n}]
    <2>0. /\ run' \in RunState /\ run'.pc = "remove"
          /\ run'.mode = run.mode /\ run'.number = run.number /\ run'.resume = run.resume
          /\ run'.ready = run.ready /\ run'.retried = run.retried /\ run'.planned = run.planned
      BY <1>0, <1>2 DEF RunState
    <2>A. TypeOK'
      BY <1>0, <2>0 DEF ResizeInv, TypeOK
    <2>B. Phases' /\ InHand' /\ HasVolume' /\ Balanced'
      BY <1>0, <2>0 DEF ResizeInv, Phases, InHand, HasVolume, Balanced, Removal
    <2>C. NothingPending' /\ ReadyIsGone' /\ SizeKnown'
      BY <1>0, <2>0 DEF ResizeInv, NothingPending, ReadyIsGone, SizeKnown,
         Removal, Finalizing
    <2>D. Room'
      BY <1>0, <2>0 DEF ResizeInv, Room, Removal, Finalizing, BeforeLaunch, Early
    <2>E. LaunchedKnown' /\ RemovalRemembered'
      BY <1>0, <2>0 DEF ResizeInv, LaunchedKnown, RemovalRemembered
    <2> QED
      BY <2>A, <2>B, <2>C, <2>D, <2>E DEF ResizeInv
  <1> QED
    BY <1>1, <1>2 DEF Skip, Exit

\* The removal of a node with a volume of its own is journalled before it begins.
LEMMA RememberKeeps ==
    ASSUME ResizeInv, NEW n \in Nodes, Remember(n)
    PROVE  ResizeInv'
  <1> DEFINE pc == IF kind = "compute" THEN "terminate" ELSE "detach"
  <1>0. /\ run \in RunState /\ run.pc = "remove" /\ n \in Active
        /\ run' = [run EXCEPT !.node = n, !.pc = pc]
        /\ UNCHANGED <<kind, cc, cloud, tfSize, inventory, faults>>
    BY DEF Remember, At, ResizeInv, TypeOK
  <1>1. /\ kind = "compute" => pc = "terminate"
        /\ kind # "compute" => pc = "detach" /\ n \in Members
    BY <1>0 DEF ResizeInv, Phases
  <1>2. pc \in {"terminate", "detach"}
    OBVIOUS
  <1> HIDE DEF pc
  <1>3. /\ run' \in RunState /\ run'.pc = pc /\ run'.node = n
        /\ run'.mode = run.mode /\ run'.number = run.number /\ run'.resume = run.resume
        /\ run'.ready = run.ready /\ run'.retried = run.retried /\ run'.planned = run.planned
    BY <1>0, <1>2 DEF RunState, PCs
  <1>4. CASE kind = "managed"
    <2>1. journal' = [journal EXCEPT ![n] = size]
      BY <1>0, <1>4 DEF Remember, HasOwnVolume, WriteJournal, ResizeInv, HasVolume
    <2>2. size \in Sizes /\ size # 0
      <3>1. size \in Sizes
        BY DEF ResizeInv, TypeOK
      <3>2. Cardinality(Members) = size
        BY <1>0, <1>4 DEF ResizeInv, Balanced, Removal
      <3>3. IsFiniteSet(Members) /\ Members # {}
        BY <1>1, <1>4, NodeCount
      <3> QED
        BY <3>1, <3>2, <3>3, FS_EmptySet
    <2>3. /\ journal' \in [Nodes -> Sizes] /\ n \in Pending'
          /\ \A m \in Nodes \ {n} : journal'[m] = journal[m]
      BY <2>1, <2>2 DEF ResizeInv, TypeOK
    <2>9. UNCHANGED <<kind, cc, cloud, tfSize, inventory, faults>> /\ run.pc = "remove"
      BY <1>0
    <2>A. TypeOK'
      BY <1>1, <1>3, <1>4, <2>3, <2>9 DEF ResizeInv, TypeOK
    <2>B. Phases' /\ InHand' /\ HasVolume' /\ Balanced'
      BY <1>1, <1>3, <1>4, <2>3, <2>9 DEF ResizeInv, Phases, InHand, HasVolume,
         Balanced, Removal
    <2>C. NothingPending' /\ ReadyIsGone' /\ SizeKnown'
      BY <1>1, <1>3, <1>4, <2>3, <2>9 DEF ResizeInv, NothingPending, ReadyIsGone,
         SizeKnown, Removal, Finalizing
    <2>D. Room'
      BY <1>1, <1>3, <1>4, <2>3, <2>9 DEF ResizeInv, Room, Removal, Finalizing,
         BeforeLaunch, Early
    <2>E. LaunchedKnown' /\ RemovalRemembered'
      BY <1>1, <1>3, <1>4, <2>3, <2>9 DEF ResizeInv, LaunchedKnown,
         RemovalRemembered
    <2> QED
      BY <2>A, <2>B, <2>C, <2>D, <2>E DEF ResizeInv
  <1>5. CASE kind # "managed"
    <2>1. UNCHANGED journal
      BY <1>5 DEF Remember, HasOwnVolume
    <2>A. TypeOK'
      BY <1>0, <1>1, <1>3, <1>5, <2>1 DEF ResizeInv, TypeOK
    <2>B. Phases' /\ InHand' /\ HasVolume' /\ Balanced'
      BY <1>0, <1>1, <1>3, <1>5, <2>1 DEF ResizeInv, Phases, InHand, HasVolume,
         Balanced, Removal
    <2>C. NothingPending' /\ ReadyIsGone' /\ SizeKnown'
      BY <1>0, <1>1, <1>3, <1>5, <2>1 DEF ResizeInv, NothingPending, ReadyIsGone,
         SizeKnown, Removal, Finalizing
    <2>D. Room'
      BY <1>0, <1>1, <1>3, <1>5, <2>1 DEF ResizeInv, Room, Removal, Finalizing,
         BeforeLaunch, Early
    <2>E. LaunchedKnown' /\ RemovalRemembered'
      BY <1>0, <1>1, <1>3, <1>5, <2>1 DEF ResizeInv, LaunchedKnown,
         RemovalRemembered
    <2> QED
      BY <2>A, <2>B, <2>C, <2>D, <2>E DEF ResizeInv
  <1> QED
    BY <1>4, <1>5

\* The node in hand leaves the pool.
LEMMA DetachKeeps ==
    ASSUME ResizeInv, Detach
    PROVE  ResizeInv'
  <1> DEFINE n == run.node
  <1>0. /\ run \in RunState /\ run.pc = "detach" /\ "terminate" \in PCs
        /\ n \in Nodes /\ life[n] = "member" /\ kind # "compute"
        /\ kind = "managed" => n \in Pending
        /\ DetachFromPool(n) /\ run' = [run EXCEPT !.pc = "terminate"]
        /\ UNCHANGED <<kind, cc, volumes, dns, books, faults>>
        /\ life' = [life EXCEPT ![n] = "detached"]
    BY DEF Detach, DetachFromPool, At, Goto, ResizeInv, TypeOK, InHand, Phases, PCs
  <1>1. Cardinality(Members) = size
    BY <1>0 DEF ResizeInv, Balanced, Removal
  <1>2. /\ run' \in RunState /\ run'.pc = "terminate" /\ run'.node = n
        /\ run'.mode = run.mode /\ run'.number = run.number /\ run'.resume = run.resume
        /\ run'.ready = run.ready /\ run'.retried = run.retried /\ run'.planned = run.planned
    BY <1>0, Goes
  <1> HIDE DEF n
  <1>3. Members' = Members \ {n} /\ n \in Members /\ Starting' = Starting
        /\ Cardinality(Members') = size' /\ size' \in Sizes
    BY <1>0, <1>1, LeavesPool DEF ResizeInv
  <1>A. TypeOK'
    BY <1>0, <1>2, <1>3 DEF ResizeInv, TypeOK, Phases
  <1>B. Phases' /\ InHand' /\ HasVolume' /\ Balanced'
    BY <1>0, <1>2, <1>3 DEF ResizeInv, Phases, InHand, HasVolume, Balanced,
       Removal
  <1>C. NothingPending' /\ ReadyIsGone' /\ SizeKnown'
    BY <1>0, <1>2, <1>3 DEF ResizeInv, NothingPending, ReadyIsGone, SizeKnown,
       Removal, Finalizing
  <1>D. Room'
    BY <1>0, <1>2, <1>3 DEF ResizeInv, Room, Removal, Finalizing, BeforeLaunch,
       Early
  <1>E. LaunchedKnown' /\ RemovalRemembered'
    BY <1>0, <1>2, <1>3 DEF ResizeInv, LaunchedKnown, RemovalRemembered
  <1> QED
    BY <1>A, <1>B, <1>C, <1>D, <1>E DEF ResizeInv

\* OCI does not find it: the next one.
LEMMA DetachNotFoundKeeps ==
    ASSUME ResizeInv, DetachNotFound
    PROVE  ResizeInv'
  <1>0. /\ run \in RunState /\ run.pc = "detach" /\ faults' \in 0..MaxFaults
        /\ UNCHANGED <<kind, cc, cloud, books>>
    BY PoolResizeAssumption DEF DetachNotFound, Fails, At, ResizeInv, TypeOK
  <1>1. /\ run' \in RunState /\ run'.pc = "remove"
        /\ run'.mode = run.mode /\ run'.number = run.number /\ run'.resume = run.resume
        /\ run'.ready = run.ready /\ run'.retried = run.retried /\ run'.planned = run.planned
    BY <1>0 DEF DetachNotFound, RunState, PCs
  <1>A. TypeOK'
    BY <1>0, <1>1 DEF ResizeInv, TypeOK
  <1>B. Phases' /\ InHand' /\ HasVolume' /\ Balanced'
    BY <1>0, <1>1 DEF ResizeInv, Phases, InHand, HasVolume, Balanced, Removal
  <1>C. NothingPending' /\ ReadyIsGone' /\ SizeKnown'
    BY <1>0, <1>1 DEF ResizeInv, NothingPending, ReadyIsGone, SizeKnown, Removal,
       Finalizing
  <1>D. Room'
    BY <1>0, <1>1 DEF ResizeInv, Room, Removal, Finalizing, BeforeLaunch, Early
  <1>E. LaunchedKnown' /\ RemovalRemembered'
    BY <1>0, <1>1 DEF ResizeInv, LaunchedKnown, RemovalRemembered
  <1> QED
    BY <1>A, <1>B, <1>C, <1>D, <1>E DEF ResizeInv

\* An instance is gone; what was known of it is forgotten with it.
LEMMA GoneIs ==
    ASSUME ResizeInv, NEW n \in Nodes, InstanceGone(n),
           life[n] = "detached" \/ kind = "compute"
    PROVE  /\ life' = [life EXCEPT ![n] = "gone"] /\ life'[n] = "gone"
           /\ \A m \in Nodes \ {n} : life'[m] = life[m]
           /\ life' \in [Nodes -> {"unborn", "starting", "member", "detached", "gone"}]
           /\ Members' = Members \ {n} /\ Starting' = Starting \ {n}
           /\ kind # "compute" => Members' = Members
           /\ volumes' \subseteq volumes /\ volumes \ {n} \subseteq volumes'
           /\ tracked' = tracked \ {n} /\ twins' = twins \ {n}
           /\ known' = known \ {n} /\ stray' = stray \ {n}
  BY DEF InstanceGone, ResizeInv, TypeOK

\* The instance in hand is terminated.
LEMMA TerminateKeeps ==
    ASSUME ResizeInv, Terminate
    PROVE  ResizeInv'
  <1> DEFINE n == run.node
  <1>0. /\ run \in RunState /\ run.pc = "terminate" /\ "tidy" \in PCs
        /\ n \in Nodes /\ InstanceGone(n)
        /\ kind = "compute" \/ life[n] = "detached"
        /\ run' = [run EXCEPT !.pc = "tidy"] /\ run.ready \subseteq Nodes
        /\ UNCHANGED <<kind, size, dns, books, faults>>
    BY DEF Terminate, At, Goto, ResizeInv, TypeOK, InHand, PCs, RunState
  <1>1. /\ run' \in RunState /\ run'.pc = "tidy" /\ run'.node = n
        /\ run'.mode = run.mode /\ run'.number = run.number /\ run'.resume = run.resume
        /\ run'.ready = run.ready /\ run'.retried = run.retried /\ run'.planned = run.planned
    BY <1>0, Goes
  <1> HIDE DEF n
  <1>2. /\ life'[n] = "gone" /\ \A m \in Nodes \ {n} : life'[m] = life[m]
        /\ life' \in [Nodes -> {"unborn", "starting", "member", "detached", "gone"}]
        /\ Members' = Members \ {n} /\ Starting' = Starting \ {n}
        /\ kind # "compute" => Members' = Members
        /\ volumes' \subseteq volumes /\ volumes \ {n} \subseteq volumes'
        /\ tracked' = tracked \ {n} /\ twins' = twins \ {n}
        /\ known' = known \ {n} /\ stray' = stray \ {n}
    BY <1>0, GoneIs
  <1>A. TypeOK'
    BY <1>0, <1>1, <1>2 DEF ResizeInv, TypeOK
  <1>B. Phases' /\ InHand' /\ HasVolume' /\ Balanced'
    BY <1>0, <1>1, <1>2 DEF ResizeInv, Phases, InHand, HasVolume, Balanced,
       Removal
  <1>C. NothingPending' /\ ReadyIsGone' /\ SizeKnown'
    BY <1>0, <1>1, <1>2 DEF ResizeInv, NothingPending, ReadyIsGone, SizeKnown,
       Removal, Finalizing
  <1>D. Room'
    BY <1>0, <1>1, <1>2 DEF ResizeInv, Room, Removal, Finalizing, BeforeLaunch,
       Early
  <1>E. LaunchedKnown' /\ RemovalRemembered'
    BY <1>0, <1>1, <1>2 DEF ResizeInv, LaunchedKnown, RemovalRemembered
  <1> QED
    BY <1>A, <1>B, <1>C, <1>D, <1>E DEF ResizeInv

\* Its volume or its DNS records are deleted.
LEMMA TidyKeeps ==
    ASSUME ResizeInv, Tidy
    PROVE  ResizeInv'
  <1> DEFINE n == run.node
  <1>0. /\ run \in RunState /\ run.pc = "tidy" /\ n \in Nodes /\ life[n] = "gone"
        /\ volumes' \in {volumes, volumes \ {n}} /\ dns' \in {dns, dns \ {n}}
        /\ UNCHANGED <<kind, cc, life, size, books, faults>>
    BY DEF Tidy, DeleteVolume, DeleteRecords, At, ResizeInv, TypeOK, InHand
  <1>1. /\ run' \in RunState /\ run'.pc = "remove"
        /\ run'.mode = run.mode /\ run'.number = run.number /\ run'.resume = run.resume
        /\ run'.ready = run.ready /\ run'.retried = run.retried /\ run'.planned = run.planned
    BY <1>0 DEF Tidy, RunState, PCs
  <1> HIDE DEF n
  <1>A. TypeOK'
    BY <1>0, <1>1 DEF ResizeInv, TypeOK
  <1>B. Phases' /\ InHand' /\ HasVolume' /\ Balanced'
    BY <1>0, <1>1 DEF ResizeInv, Phases, InHand, HasVolume, Balanced, Removal
  <1>C. NothingPending' /\ ReadyIsGone' /\ SizeKnown'
    BY <1>0, <1>1 DEF ResizeInv, NothingPending, ReadyIsGone, SizeKnown, Removal,
       Finalizing
  <1>D. Room'
    BY <1>0, <1>1 DEF ResizeInv, Room, Removal, Finalizing, BeforeLaunch, Early
  <1>E. LaunchedKnown' /\ RemovalRemembered'
    BY <1>0, <1>1 DEF ResizeInv, LaunchedKnown, RemovalRemembered
  <1> QED
    BY <1>A, <1>B, <1>C, <1>D, <1>E DEF ResizeInv

\* The loop is over: what is pending is finalized, if anything is.
LEMMA RemovedKeeps ==
    ASSUME ResizeInv, Removed
    PROVE  ResizeInv'
  <1>0. /\ run \in RunState /\ run.pc = "remove"
        /\ UNCHANGED <<kind, cc, cloud, books, faults>>
    BY DEF Removed, At, ResizeInv, TypeOK
  <1>1. CASE kind = "compute" /\ AfterRemoval
    <2>1. Pending = {} /\ tfSize \in Sizes /\ journal \in [Nodes -> Sizes]
      BY <1>1 DEF ResizeInv, TypeOK, Phases
    <2> QED
      BY <1>0, <1>1, <2>1, AfterRemovalKeeps DEF BeforeLaunch, Removal
  <1>2. CASE run' = [run EXCEPT !.pc = "pending", !.resume = FALSE, !.retried = TRUE]
    <2>0. /\ run' \in RunState /\ run'.pc = "pending"
          /\ run'.mode = run.mode /\ run'.number = run.number /\ run'.resume = FALSE
          /\ run'.ready = run.ready /\ run'.retried = TRUE /\ run'.planned = run.planned
      BY <1>0, <1>2 DEF RunState, PCs
    <2>A. TypeOK'
      BY <1>0, <2>0 DEF ResizeInv, TypeOK
    <2>B. Phases' /\ InHand' /\ HasVolume' /\ Balanced'
      BY <1>0, <2>0 DEF ResizeInv, Phases, InHand, HasVolume, Balanced, Removal
    <2>C. NothingPending' /\ ReadyIsGone' /\ SizeKnown'
      BY <1>0, <2>0 DEF ResizeInv, NothingPending, ReadyIsGone, SizeKnown,
         Removal, Finalizing
    <2>D. Room'
      BY <1>0, <2>0 DEF ResizeInv, Room, Removal, Finalizing, BeforeLaunch, Early
    <2>E. LaunchedKnown' /\ RemovalRemembered'
      BY <1>0, <2>0 DEF ResizeInv, LaunchedKnown, RemovalRemembered
    <2> QED
      BY <2>A, <2>B, <2>C, <2>D, <2>E DEF ResizeInv
  <1> QED
    BY <1>1, <1>2 DEF Removed

-----------------------------------------------------------------------------
(* The pool grows, shrinks and settles *)

\* OCI changes a pool in which nothing is pending: what is gone stays gone, and
\* members have their volumes.
LEMMA PoolChanges ==
    ASSUME ResizeInv, kind # "compute", Pending = {}, run.pc \notin Removal,
           NEW k \in Int, NEW m \in PoolsOf(k), PoolBecomes(m)
    PROVE  /\ life' \in [Nodes -> {"unborn", "starting", "member", "detached", "gone"}]
           /\ volumes' \subseteq Nodes
           /\ Members' = m /\ Starting' = {} /\ Members' \subseteq volumes'
           /\ \A n \in Nodes :
                /\ life[n] \in {"detached", "gone"} => life'[n] = life[n]
                /\ life'[n] = "detached" => life[n] = "detached"
                /\ life'[n] = "gone" => life[n] = "gone" \/ n \notin volumes'
                /\ n \in volumes' => n \in volumes \/ n \in Fresh \/ n \in Members
           /\ Cardinality(Members') = k
  <1>1. m \subseteq Members \cup Fresh /\ m \subseteq Nodes /\ Cardinality(m) = k
    BY DEF PoolsOf, Fresh
  <1>2. /\ life' = [n \in Nodes |-> CASE n \in m -> "member"
                                      [] n \in Members \ m -> "gone"
                                      [] OTHER -> life[n]]
        /\ volumes' = (volumes \ (Members \ m)) \cup (m \ Members)
    BY DEF PoolBecomes
  <1>3. Starting = {} /\ Members \subseteq volumes /\ volumes \subseteq Nodes
        /\ life \in [Nodes -> {"unborn", "starting", "member", "detached", "gone"}]
    BY DEF ResizeInv, TypeOK, Phases, HasVolume
  <1>4. \A n \in Nodes : /\ n \in m => life'[n] = "member"
                         /\ n \in Members \ m => life'[n] = "gone"
                         /\ n \notin m /\ n \notin Members => life'[n] = life[n]
    BY <1>2
  <1>5. Members' = m /\ Starting' = {}
    BY <1>1, <1>3, <1>4
  <1>6. Members' \subseteq volumes' /\ volumes' \subseteq Nodes
    BY <1>1, <1>2, <1>3, <1>5
  <1>7. life' \in [Nodes -> {"unborn", "starting", "member", "detached", "gone"}]
    BY <1>2, <1>3
  <1>8. \A n \in Nodes :
          /\ life[n] \in {"detached", "gone"} => life'[n] = life[n]
          /\ life'[n] = "detached" => life[n] = "detached"
          /\ life'[n] = "gone" => life[n] = "gone" \/ n \notin volumes'
          /\ n \in volumes' => n \in volumes \/ n \in Fresh \/ n \in Members
    BY <1>1, <1>2, <1>3, <1>4 DEF Fresh
  <1> QED
    BY <1>1, <1>5, <1>6, <1>7, <1>8

\* Hence the change keeps the invariant, wherever the run goes on.
LEMMA PoolChangeKeeps ==
    ASSUME ResizeInv, kind # "compute", Pending = {}, run.pc \notin Removal,
           NEW k \in Int, NEW m \in PoolsOf(k), PoolBecomes(m),
           run' \in RunState,
           \/ run' = run /\ size' = size
           \/ run'.pc \in {"check", "rollback"} /\ run.mode = "add"
                /\ run'.mode = run.mode /\ run'.number = run.number /\ run'.planned = run.planned
                /\ run'.ready = run.ready
           \/ run' = Idle,
           size' \in Sizes, faults' \in 0..MaxFaults,
           UNCHANGED <<kind, cc, dns, books>>
    PROVE  ResizeInv'
  <1>1. /\ life' \in [Nodes -> {"unborn", "starting", "member", "detached", "gone"}]
        /\ volumes' \subseteq Nodes
        /\ Starting' = {} /\ Members' \subseteq volumes'
        /\ \A n \in Nodes :
             /\ life[n] \in {"detached", "gone"} => life'[n] = life[n]
             /\ life'[n] = "detached" => life[n] = "detached"
             /\ life'[n] = "gone" => life[n] = "gone" \/ n \notin volumes'
             /\ n \in volumes' => n \in volumes \/ n \in Fresh \/ n \in Members
    BY PoolChanges
  <1>2. run.ready \subseteq Nodes /\ run'.ready \in {run.ready, {}}
    BY DEF ResizeInv, TypeOK, RunState, Idle
  <1>A. TypeOK'
    BY <1>1 DEF ResizeInv, TypeOK, Phases
  <1>B. Phases' /\ InHand' /\ HasVolume' /\ Balanced'
    BY <1>1, <1>2 DEF ResizeInv, Phases, InHand, HasVolume, Balanced, Removal,
       Idle
  <1>C. NothingPending' /\ ReadyIsGone' /\ SizeKnown'
    BY <1>1, <1>2 DEF ResizeInv, NothingPending, ReadyIsGone, SizeKnown, Removal,
       Finalizing, Idle, Fresh, PCs
  <1>D. Room'
    BY <1>1, <1>2 DEF ResizeInv, Room, Removal, Finalizing, BeforeLaunch, Early,
       Idle, Fresh
  <1>E. LaunchedKnown' /\ RemovalRemembered'
    BY <1>1, <1>2 DEF ResizeInv, LaunchedKnown, RemovalRemembered, Idle, Fresh
  <1> QED
    BY <1>A, <1>B, <1>C, <1>D, <1>E DEF ResizeInv

\* The sizes that an add asks for are those of a pool.
LEMMA AddSizes ==
    ASSUME ResizeInv, kind # "compute", run.pc \in {"grow", "check", "rollback"}
    PROVE  /\ TargetSize \in Int /\ (TargetSize >= 0 => TargetSize \in Sizes)
           /\ RollbackSize \in Int /\ (RollbackSize >= 0 => RollbackSize \in Sizes)
  <1>1. /\ run.planned + run.number <= N
        /\ run.planned \in 0..N /\ run.number \in 0..MaxAdd /\ run.hosts \in SUBSET Nodes
    BY DEF ResizeInv, Phases, Room, TypeOK, RunState, Sizes, N
  <1>2. Cardinality(run.hosts) \in 0..N /\ N \in Nat
    BY <1>1, NodeCount, NodesAre
  <1> QED
    BY <1>1, <1>2, PoolResizeAssumption DEF TargetSize, RollbackSize, Sizes, N

\* The pool grows, or the call fails half-way.
LEMMA GrowKeeps ==
    ASSUME ResizeInv, Grow
    PROVE  ResizeInv'
  <1>0. /\ run \in RunState /\ run.pc = "grow" /\ kind # "compute" /\ Pending = {}
        /\ faults \in 0..MaxFaults /\ size \in Sizes /\ run.mode = "add" /\ {"check", "rollback"} \subseteq PCs
        /\ UNCHANGED <<kind, cc, dns, books>>
    BY DEF Grow, At, ResizeInv, TypeOK, NothingPending, PCs, Removal, Finalizing,
       Phases
  <1>s. /\ TargetSize \in Int /\ (TargetSize >= 0 => TargetSize \in Sizes)
        /\ Fails => faults' \in 0..MaxFaults
    BY <1>0, AddSizes, PoolResizeAssumption DEF Fails
  <1>r. ASSUME NEW pc \in {"check", "rollback"},
               run' = [run EXCEPT !.pc = pc, !.old = Members]
        PROVE  /\ run' \in RunState /\ run'.pc = pc /\ run'.mode = run.mode
               /\ run'.number = run.number /\ run'.planned = run.planned
               /\ run'.ready = run.ready
    <2>1. Members \in SUBSET Nodes /\ pc \in PCs
      BY DEF PCs
    <2> HIDE DEF Members
    <2> QED
      BY <1>0, <1>r, <2>1 DEF RunState
  <1> USE DEF Removal
  <1>1. CASE /\ TargetSize >= 0 /\ size' = TargetSize
             /\ \E m \in PoolsOf(TargetSize) : PoolBecomes(m)
             /\ run' = [run EXCEPT !.pc = "check", !.old = Members]
             /\ UNCHANGED faults
    BY <1>0, <1>s, <1>r, <1>1, PoolChangeKeeps
  <1>2. CASE /\ TargetSize >= 0 /\ Fails /\ size' \in {size, TargetSize}
             /\ \E k \in Between(Cardinality(Members), size') :
                   \E m \in PoolsOf(k) : PoolBecomes(m)
             /\ run' = [run EXCEPT !.pc = "rollback", !.old = Members]
    <2>1. PICK k \in Between(Cardinality(Members), size') :
                   \E m \in PoolsOf(k) : PoolBecomes(m)
      BY <1>2
    <2>2. k \in Int
      BY <2>1 DEF Between
    <2>3. size' \in Sizes /\ faults' \in 0..MaxFaults
      BY <1>0, <1>s, <1>2
    <2> QED
      BY <1>0, <1>r, <1>2, <2>1, <2>2, <2>3, PoolChangeKeeps
  <1>3. CASE /\ run' = [run EXCEPT !.pc = "rollback"]
             /\ UNCHANGED <<life, size, volumes, faults>>
    <2>0. /\ run' \in RunState /\ run'.pc = "rollback"
          /\ run'.mode = run.mode /\ run'.number = run.number /\ run'.resume = run.resume
          /\ run'.ready = run.ready /\ run'.retried = run.retried /\ run'.planned = run.planned
      BY <1>0, <1>3, Goes
    <2>A. TypeOK'
      BY <1>0, <1>3, <2>0 DEF ResizeInv, TypeOK
    <2>B. Phases' /\ InHand' /\ HasVolume' /\ Balanced'
      BY <1>0, <1>3, <2>0 DEF ResizeInv, Phases, InHand, HasVolume, Balanced,
         Removal
    <2>C. NothingPending' /\ ReadyIsGone' /\ SizeKnown'
      BY <1>0, <1>3, <2>0 DEF ResizeInv, NothingPending, ReadyIsGone, SizeKnown,
         Removal, Finalizing
    <2>D. Room'
      BY <1>0, <1>3, <2>0 DEF ResizeInv, Room, Removal, Finalizing, BeforeLaunch,
         Early
    <2>E. LaunchedKnown' /\ RemovalRemembered'
      BY <1>0, <1>3, <2>0 DEF ResizeInv, LaunchedKnown, RemovalRemembered
    <2> QED
      BY <2>A, <2>B, <2>C, <2>D, <2>E DEF ResizeInv
  <1> QED
    BY <1>1, <1>2, <1>3 DEF Grow, Goto

\* The added nodes are counted.
LEMMA CheckAddedKeeps ==
    ASSUME ResizeInv, CheckAdded
    PROVE  ResizeInv'
  <1>0. /\ run \in RunState /\ run.pc = "check" /\ {"names", "rollback"} \subseteq PCs
        /\ faults' \in 0..MaxFaults
        /\ UNCHANGED <<kind, cc, cloud, books>>
    BY PoolResizeAssumption DEF CheckAdded, Fails, At, ResizeInv, TypeOK, PCs
  <1>1. PICK pc \in {"names", "rollback"} : run' = [run EXCEPT !.pc = pc]
    BY DEF CheckAdded, Goto
  <1>2. /\ run' \in RunState /\ run'.pc = pc
        /\ run'.mode = run.mode /\ run'.number = run.number /\ run'.resume = run.resume
        /\ run'.ready = run.ready /\ run'.retried = run.retried /\ run'.planned = run.planned
    BY <1>0, <1>1, Goes
  <1>A. TypeOK'
    BY <1>0, <1>2 DEF ResizeInv, TypeOK
  <1>B. Phases' /\ InHand' /\ HasVolume' /\ Balanced'
    BY <1>0, <1>2 DEF ResizeInv, Phases, InHand, HasVolume, Balanced, Removal
  <1>C. NothingPending' /\ ReadyIsGone' /\ SizeKnown'
    BY <1>0, <1>2 DEF ResizeInv, NothingPending, ReadyIsGone, SizeKnown, Removal,
       Finalizing, PCs
  <1>D. Room'
    BY <1>0, <1>2 DEF ResizeInv, Room, Removal, Finalizing, BeforeLaunch, Early
  <1>E. LaunchedKnown' /\ RemovalRemembered'
    BY <1>0, <1>2 DEF ResizeInv, LaunchedKnown, RemovalRemembered
  <1> QED
    BY <1>A, <1>B, <1>C, <1>D, <1>E DEF ResizeInv

\* A failed add gives the pool its size back.
LEMMA RollbackKeeps ==
    ASSUME ResizeInv, Rollback
    PROVE  ResizeInv'
  <1>0. /\ run \in RunState /\ run.pc = "rollback" /\ kind # "compute" /\ Pending = {}
        /\ faults' \in 0..MaxFaults /\ run' = Idle /\ run' \in RunState
        /\ UNCHANGED <<kind, cc, dns, books>>
    BY PoolResizeAssumption, IdleType
    DEF Rollback, Fails, At, Exit, ResizeInv, TypeOK, NothingPending, PCs, Removal,
        Finalizing, Phases
  <1>1. CASE /\ RollbackSize >= 0 /\ size' = RollbackSize
             /\ \E m \in PoolsOf(RollbackSize) : PoolBecomes(m)
    <2>1. RollbackSize \in Int /\ size' \in Sizes
      BY <1>0, <1>1, AddSizes
    <2> QED
      BY <1>0, <1>1, <2>1, PoolChangeKeeps DEF Removal
  <1>2. CASE UNCHANGED <<life, size, volumes>>
    BY <1>0, <1>2, Quits DEF ResizeInv, TypeOK
  <1> QED
    BY <1>1, <1>2 DEF Rollback

\* OCI only touches a pool that has not its size.
LEMMA SettleKeeps ==
    ASSUME ResizeInv, Settle
    PROVE  ResizeInv'
  <1>1. /\ kind # "compute" /\ Cardinality(Members) # size
        /\ UNCHANGED <<kind, cc, size, dns, books, run, faults>>
    BY DEF Settle, Settled
  <1>2. Pending = {} /\ run.pc \notin Removal
    BY <1>1 DEF ResizeInv, Balanced
  <1>3. PICK m \in PoolsOf(size) : PoolBecomes(m)
    BY DEF Settle
  <1>4. size \in Int /\ size \in Sizes /\ run \in RunState /\ faults \in 0..MaxFaults
    BY NodesAre DEF ResizeInv, TypeOK, Sizes, N
  <1> QED
    BY <1>1, <1>2, <1>3, <1>4, PoolChangeKeeps

\* The added nodes get their DNS records.
LEMMA AddDnsKeeps ==
    ASSUME ResizeInv, NEW n \in Nodes, AddDns(n)
    PROVE  ResizeInv'
  <1>0. /\ run.pc = "names" /\ dns' = dns \cup {n}
        /\ UNCHANGED <<kind, cc, life, size, volumes, books, run, faults>>
    BY DEF AddDns, At
  <1>A. TypeOK'
    BY <1>0 DEF ResizeInv, TypeOK
  <1>B. Phases' /\ InHand' /\ HasVolume' /\ Balanced'
    BY <1>0 DEF ResizeInv, Phases, InHand, HasVolume, Balanced, Removal
  <1>C. NothingPending' /\ ReadyIsGone' /\ SizeKnown'
    BY <1>0 DEF ResizeInv, NothingPending, ReadyIsGone, SizeKnown, Removal,
       Finalizing
  <1>D. Room'
    BY <1>0 DEF ResizeInv, Room, Removal, Finalizing, BeforeLaunch, Early
  <1>E. LaunchedKnown' /\ RemovalRemembered'
    BY <1>0 DEF ResizeInv, LaunchedKnown, RemovalRemembered
  <1> QED
    BY <1>A, <1>B, <1>C, <1>D, <1>E DEF ResizeInv

\* The Terraform state gets the number of members.
LEMMA AddStateKeeps ==
    ASSUME ResizeInv, AddState
    PROVE  ResizeInv'
  <1>0. /\ run \in RunState /\ run.pc = "names" /\ "configure" \in PCs
        /\ tfSize' \in Sizes
        /\ UNCHANGED <<kind, cc, cloud, inventory, journal, faults>>
    <2>1. Cardinality(Members) \in Sizes
      BY NodeCount DEF Sizes, N
    <2> QED
      BY <2>1 DEF AddState, At, ResizeInv, TypeOK, PCs
  <1>1. CASE run' = Idle
    <2>1. UNCHANGED tfSize
      BY <1>1, <1>0 DEF AddState, Goto, Idle, RunState
    <2> QED
      BY <1>0, <1>1, <2>1, Quits DEF ResizeInv, TypeOK
  <1>2. CASE run' = [run EXCEPT !.pc = "configure"]
    <2>0. /\ run' \in RunState /\ run'.pc = "configure"
          /\ run'.mode = run.mode /\ run'.number = run.number /\ run'.resume = run.resume
          /\ run'.ready = run.ready /\ run'.retried = run.retried /\ run'.planned = run.planned
      BY <1>0, <1>2, Goes
    <2>A. TypeOK'
      BY <1>0, <2>0 DEF ResizeInv, TypeOK
    <2>B. Phases' /\ InHand' /\ HasVolume' /\ Balanced'
      BY <1>0, <2>0 DEF ResizeInv, Phases, InHand, HasVolume, Balanced, Removal
    <2>C. NothingPending' /\ ReadyIsGone' /\ SizeKnown'
      BY <1>0, <2>0 DEF ResizeInv, NothingPending, ReadyIsGone, SizeKnown,
         Removal, Finalizing, PCs
    <2>D. Room'
      BY <1>0, <2>0 DEF ResizeInv, Room, Removal, Finalizing, BeforeLaunch, Early
    <2>E. LaunchedKnown' /\ RemovalRemembered'
      BY <1>0, <2>0 DEF ResizeInv, LaunchedKnown, RemovalRemembered
    <2> QED
      BY <2>A, <2>B, <2>C, <2>D, <2>E DEF ResizeInv
  <1> QED
    BY <1>1, <1>2 DEF AddState, Goto, Exit

\* The new nodes are configured, or the playbook fails.
LEMMA AddReconfigureKeeps ==
    ASSUME ResizeInv, AddReconfigure
    PROVE  ResizeInv'
  <1>1. /\ run.pc = "configure" /\ run' = Idle
        /\ inventory' \in {inventory, inventory \cup Members}
        /\ UNCHANGED <<kind, cc, cloud, tfSize, journal, faults>>
    BY DEF AddReconfigure, At, Exit
  <1> QED
    BY <1>1, Quits DEF ResizeInv, TypeOK

-----------------------------------------------------------------------------
(* Compute Clusters *)

\* What is there is listed, and the numbers after it are those of new nodes.
LEMMA ListInstancesKeeps ==
    ASSUME ResizeInv, ListInstances
    PROVE  ResizeInv'
  <1>0. /\ run \in RunState /\ run.pc = "grow" /\ kind = "compute" /\ 0 \in Sizes
        /\ run.mode = "add" /\ Pending = {} /\ run.ready = {}
        /\ UNCHANGED <<kind, cc, cloud, books, faults>>
    BY NodesAre DEF ListInstances, At, ResizeInv, TypeOK, Phases, Sizes, N
  <1>1. CASE run' = Idle
    BY <1>0, <1>1, Quits DEF ResizeInv, TypeOK
  <1>2. ASSUME NEW listed \in Listings, listed # {},
               run' = [run EXCEPT !.pc = "launch", !.old = listed, !.hosts = {},
                                  !.todo = {}, !.planned = 0]
        PROVE  ResizeInv'
    <2>1. Members \subseteq listed /\ listed \subseteq Active /\ listed \in SUBSET Nodes
      BY DEF Listings
    <2>2. \A n \in listed : n + run.number \in Nodes
      BY <1>0, <2>1 DEF ResizeInv, Room, BeforeLaunch
    <2>3. tracked \subseteq listed
      BY <2>1 DEF ResizeInv, TypeOK
    <2>0. /\ run' \in RunState /\ run'.pc = "launch" /\ run'.old = listed
          /\ run'.mode = run.mode /\ run'.number = run.number /\ run'.ready = {}
          /\ run'.todo = {}
      <3> HIDE DEF Members, Starting, Active
      <3> QED
        BY <1>0, <1>2, <2>1 DEF RunState, PCs
    <2>A. TypeOK'
      BY <1>0, <2>0 DEF ResizeInv, TypeOK
    <2>B. Phases' /\ InHand' /\ HasVolume' /\ Balanced'
      BY <1>0, <2>0 DEF ResizeInv, Phases, InHand, HasVolume, Balanced, Removal
    <2>C. NothingPending' /\ ReadyIsGone' /\ SizeKnown'
      BY <1>0, <2>0 DEF ResizeInv, NothingPending, ReadyIsGone, SizeKnown,
         Removal, Finalizing
    <2>D. Room'
      BY <1>0, <1>2, <2>0, <2>2, <2>3 DEF ResizeInv, Room, Removal, Finalizing,
         BeforeLaunch, Early
    <2>E. LaunchedKnown' /\ RemovalRemembered'
      BY <1>0, <2>0 DEF ResizeInv, LaunchedKnown, RemovalRemembered
    <2> QED
      BY <2>A, <2>B, <2>C, <2>D, <2>E DEF ResizeInv
  <1> QED
    BY <1>1, <1>2 DEF ListInstances, Exit

\* The next name is a name, and none of those that were listed.
LEMMA NextNameIs ==
    ASSUME ResizeInv, run.pc = "launch", Cardinality(run.todo) < run.number
    PROVE  NextName \in Nodes /\ NextName \notin run.old /\ NextName \notin tracked
  <1>1. /\ run.old # {} /\ \A n \in run.old : n + run.number \in Nodes
        /\ tracked \subseteq run.old
    BY DEF ResizeInv, Phases, Room
  <1>2. run.old \in SUBSET Nodes /\ run.todo \in SUBSET Nodes /\ run.number \in 0..MaxAdd
    BY DEF ResizeInv, TypeOK, RunState
  <1>3. Cardinality(run.todo) \in 0..N /\ N \in Nat /\ Nodes = 1..N
    BY <1>2, NodeCount, NodesAre
  <1>4. Max(run.old) \in run.old /\ \A y \in run.old : Max(run.old) >= y
    <2>1. run.old \in SUBSET (0..N)
      BY <1>2, <1>3
    <2> QED
      BY <1>1, <1>3, <2>1, MaxOf
  <1>5. Max(run.old) \in 1..N /\ Max(run.old) + run.number \in 1..N
    BY <1>1, <1>2, <1>3, <1>4
  <1>6. NextName = Max(run.old) + 1 + Cardinality(run.todo)
    BY DEF NextName
  <1>7. NextName \in 1..N /\ NextName > Max(run.old)
    BY <1>2, <1>3, <1>5, <1>6, PoolResizeAssumption
  <1>8. NextName \notin run.old
    BY <1>2, <1>3, <1>4, <1>5, <1>7
  <1> QED
    BY <1>1, <1>3, <1>7, <1>8

\* An instance that is launched, in whatever state.
LEMMA CreatedIs ==
    ASSUME ResizeInv, kind = "compute", NEW n \in Nodes, n \notin tracked,
           NEW state \in {"starting", "member"}, Created(n, state)
    PROVE  /\ life' \in [Nodes -> {"unborn", "starting", "member", "detached", "gone"}]
           /\ Active' = Active \cup {n}
           /\ volumes' = volumes \cup {n}
           /\ tracked \subseteq Members' /\ twins' \subseteq Active'
           /\ volumes' \subseteq Nodes
  BY DEF Created, ResizeInv, TypeOK

\* An instance is launched, or its launch fails, with or without an instance.
LEMMA LaunchKeeps ==
    ASSUME ResizeInv, Launch
    PROVE  ResizeInv'
  <1>0. /\ run \in RunState /\ run.pc = "launch" /\ kind = "compute"
        /\ Cardinality(run.todo) < run.number /\ run.mode = "add"
        /\ Pending = {} /\ run.ready = {} /\ faults' \in 0..MaxFaults
        /\ UNCHANGED <<kind, size, dns, books, tracked, known, stray>>
    <2>1. run.pc = "launch" /\ (UNCHANGED faults \/ Fails)
      BY DEF Launch, At
    <2>2. faults' \in 0..MaxFaults
      BY <2>1, PoolResizeAssumption DEF Fails, ResizeInv, TypeOK
    <2> QED
      BY <2>1, <2>2 DEF Launch, ResizeInv, TypeOK, Phases
  <1>1. NextName \in Nodes /\ NextName \notin tracked
    BY <1>0, NextNameIs
  <1>2. \/ \E state \in {"starting", "member"} : Created(NextName, state)
        \/ UNCHANGED <<life, volumes, twins>>
    BY DEF Launch
  <1>3. \/ run' = [run EXCEPT !.todo = run.todo \cup {NextName}]
        \/ run' = [run EXCEPT !.pc = "undo", !.todo = run.todo \cup {NextName}]
    BY DEF Launch, LaunchedNames
  <1>4. /\ run' \in RunState /\ run'.pc \in {"launch", "undo"}
        /\ run'.mode = "add" /\ run'.number = run.number /\ run'.ready = {}
        /\ run'.old = run.old /\ run'.todo = run.todo \cup {NextName}
    <2>1. run.todo \cup {NextName} \in SUBSET Nodes
      BY <1>0, <1>1 DEF RunState
    <2> DEFINE todo == run.todo \cup {NextName}
    <2> HIDE DEF todo
    <2> QED
      BY <1>0, <1>3, <2>1 DEF RunState, PCs, todo
  <1>5. /\ life' \in [Nodes -> {"unborn", "starting", "member", "detached", "gone"}]
        /\ Active' \subseteq Active \cup {NextName} /\ Active' \subseteq volumes'
        /\ volumes' \subseteq Nodes
        /\ tracked \subseteq Members' /\ twins' \subseteq Active'
    <2>1. CASE UNCHANGED <<life, volumes, twins>>
      BY <2>1 DEF ResizeInv, TypeOK, HasVolume
    <2>2. ASSUME NEW state \in {"starting", "member"}, Created(NextName, state)
          PROVE  /\ life' \in [Nodes -> {"unborn", "starting", "member", "detached", "gone"}]
                 /\ Active' \subseteq Active \cup {NextName} /\ Active' \subseteq volumes'
                 /\ volumes' \subseteq Nodes
                 /\ tracked \subseteq Members' /\ twins' \subseteq Active'
      BY <1>0, <1>1, <2>2, CreatedIs DEF ResizeInv, HasVolume
    <2> QED
      BY <1>2, <2>1, <2>2
  <1>A. TypeOK'
    BY <1>0, <1>4, <1>5 DEF ResizeInv, TypeOK
  <1>B. Phases' /\ InHand' /\ HasVolume' /\ Balanced'
    BY <1>0, <1>4, <1>5 DEF ResizeInv, Phases, InHand, HasVolume, Balanced,
       Removal
  <1>C. NothingPending' /\ ReadyIsGone' /\ SizeKnown'
    BY <1>0, <1>4, <1>5 DEF ResizeInv, NothingPending, ReadyIsGone, SizeKnown,
       Removal, Finalizing
  <1>D. Room'
    BY <1>0, <1>4, <1>5 DEF ResizeInv, Room, Removal, Finalizing, BeforeLaunch,
       Early
  <1>E. LaunchedKnown' /\ RemovalRemembered'
    BY <1>0, <1>4, <1>5 DEF ResizeInv, LaunchedKnown, RemovalRemembered
  <1> QED
    BY <1>A, <1>B, <1>C, <1>D, <1>E DEF ResizeInv

\* A run that is killed while it launches leaves what it has launched astray.
LEMMA LaunchKilledKeeps ==
    ASSUME ResizeInv, LaunchKilled
    PROVE  ResizeInv'
  <1>0. /\ run \in RunState /\ run.pc = "launch" /\ kind = "compute"
        /\ Cardinality(run.todo) < run.number
        /\ Pending = {} /\ faults' \in 0..MaxFaults
        /\ Created(NextName, "starting")
        /\ stray' = stray \cup {NextName} \cup (run.todo \ known)
        /\ run' = Idle /\ run.todo \subseteq Nodes
        /\ UNCHANGED <<kind, size, dns, books, tracked, known>>
    BY PoolResizeAssumption
    DEF LaunchKilled, Fails, At, Exit, ResizeInv, TypeOK, Phases, RunState
  <1>1. NextName \in Nodes /\ NextName \notin tracked
    BY <1>0, NextNameIs
  <1>2. /\ life' \in [Nodes -> {"unborn", "starting", "member", "detached", "gone"}]
        /\ Active' = Active \cup {NextName}
        /\ volumes' = volumes \cup {NextName} /\ volumes' \subseteq Nodes
        /\ tracked \subseteq Members' /\ twins' \subseteq Active'
    BY <1>0, <1>1, CreatedIs
  <1>A. TypeOK'
    BY <1>0, <1>1, <1>2, IdleType DEF ResizeInv, TypeOK
  <1>B. Phases' /\ InHand' /\ HasVolume' /\ Balanced'
    BY <1>0, <1>1, <1>2 DEF ResizeInv, Phases, InHand, HasVolume, Balanced,
       Removal, Idle
  <1>C. NothingPending' /\ ReadyIsGone' /\ SizeKnown'
    BY <1>0, <1>1, <1>2 DEF ResizeInv, NothingPending, ReadyIsGone, SizeKnown,
       Removal, Finalizing, Idle
  <1>D. Room'
    BY <1>0, <1>1, <1>2 DEF ResizeInv, Room, Removal, Finalizing, BeforeLaunch,
       Early, Idle
  <1>E. LaunchedKnown' /\ RemovalRemembered'
    BY <1>0, <1>1, <1>2 DEF ResizeInv, LaunchedKnown, RemovalRemembered, Idle
  <1> QED
    BY <1>A, <1>B, <1>C, <1>D, <1>E DEF ResizeInv

\* The launched instances are found, or not.
LEMMA CheckLaunchedKeeps ==
    ASSUME ResizeInv, CheckLaunched
    PROVE  ResizeInv'
  <1>0. /\ run \in RunState /\ run.pc = "launch" /\ kind = "compute"
        /\ Pending = {} /\ run.ready = {} /\ run.todo \subseteq Nodes
        /\ {"names", "undo"} \subseteq PCs
        /\ UNCHANGED <<kind, cloud, books, tracked, twins, stray>>
    BY DEF CheckLaunched, At, ResizeInv, TypeOK, Phases, RunState, PCs
  <1>f. faults' \in 0..MaxFaults
    BY PoolResizeAssumption DEF CheckLaunched, Fails, ResizeInv, TypeOK
  <1>1. \/ run' = [run EXCEPT !.pc = "names"] /\ known' = known \cup run.todo
        \/ run' = [run EXCEPT !.pc = "undo"] /\ known' = known
    BY DEF CheckLaunched, Goto
  <1>2. CASE run' = [run EXCEPT !.pc = "names"] /\ known' = known \cup run.todo
    <2>0. /\ run' \in RunState /\ run'.pc = "names"
          /\ run'.mode = run.mode /\ run'.number = run.number /\ run'.resume = run.resume
          /\ run'.ready = run.ready /\ run'.retried = run.retried /\ run'.planned = run.planned
      BY <1>0, <1>2, Goes
    <2>A. TypeOK'
      BY <1>0, <1>2, <1>f, <2>0 DEF ResizeInv, TypeOK
    <2>B. Phases' /\ InHand' /\ HasVolume' /\ Balanced'
      BY <1>0, <1>2, <1>f, <2>0 DEF ResizeInv, Phases, InHand, HasVolume,
         Balanced, Removal
    <2>C. NothingPending' /\ ReadyIsGone' /\ SizeKnown'
      BY <1>0, <1>2, <1>f, <2>0 DEF ResizeInv, NothingPending, ReadyIsGone,
         SizeKnown, Removal, Finalizing, PCs
    <2>D. Room'
      BY <1>0, <1>2, <1>f, <2>0 DEF ResizeInv, Room, Removal, Finalizing,
         BeforeLaunch, Early
    <2>E. LaunchedKnown' /\ RemovalRemembered'
      BY <1>0, <1>2, <1>f, <2>0 DEF ResizeInv, LaunchedKnown, RemovalRemembered
    <2> QED
      BY <2>A, <2>B, <2>C, <2>D, <2>E DEF ResizeInv
  <1>3. CASE run' = [run EXCEPT !.pc = "undo"] /\ known' = known
    <2>0. /\ run' \in RunState /\ run'.pc = "undo" /\ run'.todo = run.todo
          /\ run'.mode = run.mode /\ run'.number = run.number /\ run'.resume = run.resume
          /\ run'.ready = run.ready /\ run'.retried = run.retried /\ run'.planned = run.planned
      BY <1>0, <1>3, Goes
    <2>A. TypeOK'
      BY <1>0, <1>3, <1>f, <2>0 DEF ResizeInv, TypeOK
    <2>B. Phases' /\ InHand' /\ HasVolume' /\ Balanced'
      BY <1>0, <1>3, <1>f, <2>0 DEF ResizeInv, Phases, InHand, HasVolume,
         Balanced, Removal
    <2>C. NothingPending' /\ ReadyIsGone' /\ SizeKnown'
      BY <1>0, <1>3, <1>f, <2>0 DEF ResizeInv, NothingPending, ReadyIsGone,
         SizeKnown, Removal, Finalizing, PCs
    <2>D. Room'
      BY <1>0, <1>3, <1>f, <2>0 DEF ResizeInv, Room, Removal, Finalizing,
         BeforeLaunch, Early
    <2>E. LaunchedKnown' /\ RemovalRemembered'
      BY <1>0, <1>3, <1>f, <2>0 DEF ResizeInv, LaunchedKnown, RemovalRemembered
    <2> QED
      BY <2>A, <2>B, <2>C, <2>D, <2>E DEF ResizeInv
  <1> QED
    BY <1>1, <1>2, <1>3

\* An instance that a failed add has launched is terminated, or left astray.
LEMMA UndoLaunchKeeps ==
    ASSUME ResizeInv, NEW n \in Nodes, UndoLaunch(n)
    PROVE  ResizeInv'
  <1>0. /\ run \in RunState /\ run.pc = "undo" /\ kind = "compute" /\ n \in run.todo
        /\ Pending = {} /\ run.ready = {}
        /\ run' = [run EXCEPT !.todo = @ \ {n}]
        /\ UNCHANGED <<kind, size, dns, books>>
    BY DEF UndoLaunch, At, ResizeInv, TypeOK, Phases
  <1>f. faults' \in 0..MaxFaults
    BY PoolResizeAssumption DEF UndoLaunch, Fails, ResizeInv, TypeOK
  <1>r. /\ run' \in RunState /\ run'.pc = "undo" /\ run'.todo = run.todo \ {n}
        /\ run'.mode = run.mode /\ run'.number = run.number /\ run'.resume = run.resume
        /\ run'.ready = run.ready /\ run'.retried = run.retried /\ run'.planned = run.planned
    BY <1>0 DEF RunState
  <1>1. CASE InstanceGone(n)
    <2>1. /\ life' \in [Nodes -> {"unborn", "starting", "member", "detached", "gone"}]
          /\ Members' = Members \ {n} /\ Starting' = Starting \ {n}
          /\ volumes' \subseteq volumes /\ volumes \ {n} \subseteq volumes'
          /\ tracked' = tracked \ {n} /\ twins' = twins \ {n}
          /\ known' = known \ {n} /\ stray' = stray \ {n}
      BY <1>0, <1>1, GoneIs
    <2>A. TypeOK'
      BY <1>0, <1>f, <1>r, <2>1 DEF ResizeInv, TypeOK
    <2>B. Phases' /\ InHand' /\ HasVolume' /\ Balanced'
      BY <1>0, <1>f, <1>r, <2>1 DEF ResizeInv, Phases, InHand, HasVolume,
         Balanced, Removal
    <2>C. NothingPending' /\ ReadyIsGone' /\ SizeKnown'
      BY <1>0, <1>f, <1>r, <2>1 DEF ResizeInv, NothingPending, ReadyIsGone,
         SizeKnown, Removal, Finalizing
    <2>D. Room'
      BY <1>0, <1>f, <1>r, <2>1 DEF ResizeInv, Room, Removal, Finalizing,
         BeforeLaunch, Early
    <2>E. LaunchedKnown' /\ RemovalRemembered'
      BY <1>0, <1>f, <1>r, <2>1 DEF ResizeInv, LaunchedKnown, RemovalRemembered
    <2> QED
      BY <2>A, <2>B, <2>C, <2>D, <2>E DEF ResizeInv
  <1>2. CASE /\ stray' = IF n \in Active THEN stray \cup {n} ELSE stray
             /\ UNCHANGED <<life, volumes, tracked, twins, known>>
    <2>A. TypeOK'
      BY <1>0, <1>2, <1>f, <1>r DEF ResizeInv, TypeOK
    <2>B. Phases' /\ InHand' /\ HasVolume' /\ Balanced'
      BY <1>0, <1>2, <1>f, <1>r DEF ResizeInv, Phases, InHand, HasVolume,
         Balanced, Removal
    <2>C. NothingPending' /\ ReadyIsGone' /\ SizeKnown'
      BY <1>0, <1>2, <1>f, <1>r DEF ResizeInv, NothingPending, ReadyIsGone,
         SizeKnown, Removal, Finalizing
    <2>D. Room'
      BY <1>0, <1>2, <1>f, <1>r DEF ResizeInv, Room, Removal, Finalizing,
         BeforeLaunch, Early
    <2>E. LaunchedKnown' /\ RemovalRemembered'
      BY <1>0, <1>2, <1>f, <1>r DEF ResizeInv, LaunchedKnown, RemovalRemembered
    <2> QED
      BY <2>A, <2>B, <2>C, <2>D, <2>E DEF ResizeInv
  <1> QED
    BY <1>1, <1>2 DEF UndoLaunch

\* Nothing is left to be taken back.
LEMMA UndoneKeeps ==
    ASSUME ResizeInv, Undone
    PROVE  ResizeInv'
  <1>1. /\ run.pc = "undo" /\ run.todo = {} /\ run' = Idle
        /\ UNCHANGED <<kind, cc, cloud, books, faults>>
    BY DEF Undone, At, Exit
  <1>2. kind = "compute" => Active \subseteq known \cup stray'
    BY <1>1 DEF ResizeInv, LaunchedKnown
  <1> QED
    BY <1>1, <1>2, Exits DEF ResizeInv, TypeOK

\* The cleanup before a destroy terminates what the Terraform state does not have.
LEMMA SweepKeeps ==
    ASSUME ResizeInv, NEW n \in Nodes, Sweep(n)
    PROVE  ResizeInv'
  <1>0. /\ run.pc = "sweep" /\ kind = "compute" /\ Pending = {} /\ run.ready = {}
        /\ InstanceGone(n)
        /\ UNCHANGED <<kind, size, dns, books, run, faults>>
    BY DEF Sweep, At, ResizeInv, Phases
  <1>1. /\ life' \in [Nodes -> {"unborn", "starting", "member", "detached", "gone"}]
        /\ Members' = Members \ {n} /\ Starting' = Starting \ {n}
        /\ volumes' \subseteq volumes /\ volumes \ {n} \subseteq volumes'
        /\ tracked' = tracked \ {n} /\ twins' = twins \ {n}
        /\ known' = known \ {n} /\ stray' = stray \ {n}
    BY <1>0, GoneIs
  <1>A. TypeOK'
    BY <1>0, <1>1 DEF ResizeInv, TypeOK
  <1>B. Phases' /\ InHand' /\ HasVolume' /\ Balanced'
    BY <1>0, <1>1 DEF ResizeInv, Phases, InHand, HasVolume, Balanced, Removal
  <1>C. NothingPending' /\ ReadyIsGone' /\ SizeKnown'
    BY <1>0, <1>1 DEF ResizeInv, NothingPending, ReadyIsGone, SizeKnown, Removal,
       Finalizing
  <1>D. Room'
    BY <1>0, <1>1 DEF ResizeInv, Room, Removal, Finalizing, BeforeLaunch, Early
  <1>E. LaunchedKnown' /\ RemovalRemembered'
    BY <1>0, <1>1 DEF ResizeInv, LaunchedKnown, RemovalRemembered
  <1> QED
    BY <1>A, <1>B, <1>C, <1>D, <1>E DEF ResizeInv

\* It ends when nothing else is active, or an error is left.
LEMMA SweptKeeps ==
    ASSUME ResizeInv, Swept
    PROVE  ResizeInv'
  <1>1. /\ run.pc = "sweep" /\ run' = Idle /\ faults' \in 0..MaxFaults
        /\ UNCHANGED <<kind, cc, cloud, books>>
    BY PoolResizeAssumption DEF Swept, Fails, At, Exit, ResizeInv, TypeOK
  <1> QED
    BY <1>1, Quits DEF ResizeInv, TypeOK

-----------------------------------------------------------------------------
(* Kills, and what OCI does of its own accord *)

\* A run that is killed leaves astray what nobody has checked.
LEMMA AbortKeeps ==
    ASSUME ResizeInv, Abort
    PROVE  ResizeInv'
  <1>1. /\ run' = Idle /\ faults' \in 0..MaxFaults
        /\ UNCHANGED <<kind, tracked, twins, known, cloud, books>>
    BY PoolResizeAssumption DEF Abort, Fails, Exit, ResizeInv, TypeOK
  <1>2. /\ kind = "compute" => Active \subseteq known \cup stray'
        /\ stray' \subseteq Nodes
    BY DEF Abort, ResizeInv, TypeOK
  <1> QED
    BY <1>1, <1>2, Exits DEF ResizeInv, TypeOK

\* An instance that starts is running in the end.
LEMMA StartedKeeps ==
    ASSUME ResizeInv, NEW n \in Nodes, Started(n)
    PROVE  ResizeInv'
  <1>0. /\ life[n] = "starting" /\ life' = [life EXCEPT ![n] = "member"]
        /\ kind = "compute" /\ Pending = {} /\ run.ready = {}
        /\ UNCHANGED <<kind, cc, size, volumes, dns, books, run, faults>>
    BY DEF Started, ResizeInv, Phases
  <1>1. /\ life' \in [Nodes -> {"unborn", "starting", "member", "detached", "gone"}]
        /\ Members \subseteq Members' /\ Active' = Active
        /\ \A m \in Nodes : life[m] = "gone" => life'[m] = "gone"
    BY <1>0 DEF ResizeInv, TypeOK
  <1>A. TypeOK'
    BY <1>0, <1>1 DEF ResizeInv, TypeOK
  <1>B. Phases' /\ InHand' /\ HasVolume' /\ Balanced'
    BY <1>0, <1>1 DEF ResizeInv, Phases, InHand, HasVolume, Balanced, Removal
  <1>C. NothingPending' /\ ReadyIsGone' /\ SizeKnown'
    BY <1>0, <1>1 DEF ResizeInv, NothingPending, ReadyIsGone, SizeKnown, Removal,
       Finalizing
  <1>D. Room'
    BY <1>0, <1>1 DEF ResizeInv, Room, Removal, Finalizing, BeforeLaunch, Early
  <1>E. LaunchedKnown' /\ RemovalRemembered'
    BY <1>0, <1>1 DEF ResizeInv, LaunchedKnown, RemovalRemembered
  <1> QED
    BY <1>A, <1>B, <1>C, <1>D, <1>E DEF ResizeInv

-----------------------------------------------------------------------------
(* Theorems *)

\* The invariant holds for every cluster that resize.py finds at first.
LEMMA ResizeInit == Init => ResizeInv
  <1> SUFFICES ASSUME Init PROVE ResizeInv
    OBVIOUS
  <1>1. PICK first \in SUBSET Nodes \ {{}} :
        /\ kind \in Kinds
        /\ life = [n \in Nodes |-> IF n \in first THEN "member" ELSE "unborn"]
        /\ size = IF kind = "compute" THEN 0 ELSE Cardinality(first)
        /\ tracked = IF kind = "compute" THEN first ELSE {}
        /\ tfSize = size /\ known = tracked
        /\ twins = {} /\ stray = {}
        /\ volumes = first
        /\ dns = first /\ inventory = first
        /\ journal = [n \in Nodes |-> 0]
        /\ run = Idle
        /\ faults = 0
    BY DEF Init
  <1>2. Members = first /\ Starting = {} /\ Pending = {}
    BY <1>1
  <1>3. size \in Sizes /\ 0 \in Sizes /\ faults \in 0..MaxFaults
    BY <1>1, NodeCount, NodesAre, PoolResizeAssumption DEF Sizes, N
  <1>4. TypeOK
    BY <1>1, <1>2, <1>3, IdleType DEF TypeOK
  <1>5. Phases /\ InHand /\ HasVolume /\ Balanced
    BY <1>1, <1>2 DEF Phases, InHand, HasVolume, Balanced, Idle, Removal
  <1>6. NothingPending /\ ReadyIsGone /\ SizeKnown /\ Room
    BY <1>1, <1>2
    DEF NothingPending, ReadyIsGone, SizeKnown, Room, Idle, Removal, Finalizing
  <1>7. LaunchedKnown /\ RemovalRemembered
    BY <1>1, <1>2 DEF LaunchedKnown, RemovalRemembered, Idle
  <1> QED
    BY <1>4, <1>5, <1>6, <1>7 DEF ResizeInv

\* Every step keeps it.
LEMMA ResizeStep == ResizeInv /\ [Next]_vars => ResizeInv'
  <1> SUFFICES ASSUME ResizeInv, [Next]_vars PROVE ResizeInv'
    OBVIOUS
  <1>1. ASSUME NEW mode \in Modes, NEW ask \in SUBSET Nodes, NEW number \in 0..MaxAdd,
               Start(mode, ask, number)
        PROVE  ResizeInv'
    BY <1>1, StartKeeps
  <1>2. CASE Retry
    BY <1>2, RetryDetachKeeps, RetryTerminateKeeps, RetryVolumeKeeps DEF Retry
  <1>3. CASE Retried \/ List
    BY <1>3, RetriedKeeps, ListKeeps
  <1>4. CASE Finalize
    BY <1>4, FinalizeCheckKeeps, FinalizeStateKeeps, FinalizeJournalKeeps,
       UpdateTFStateKeeps, FinalizeDnsKeeps DEF Finalize
  <1>5. CASE Remove
    BY <1>5, PlanKeeps, DetachKeeps, DetachNotFoundKeeps, TerminateKeeps, TidyKeeps,
       RemovedKeeps, SkipKeeps, RememberKeeps DEF Remove
  <1>6. CASE Add
    BY <1>6, GrowKeeps, CheckAddedKeeps, RollbackKeeps, AddStateKeeps,
       AddReconfigureKeeps, AddDnsKeeps DEF Add
  <1>7. CASE ComputeCluster
    BY <1>7, ListInstancesKeeps, LaunchKeeps, CheckLaunchedKeeps, UndoneKeeps,
       SweptKeeps, UndoLaunchKeeps, SweepKeeps DEF ComputeCluster
  <1>8. CASE Abort \/ LaunchKilled
    BY <1>8, AbortKeeps, LaunchKilledKeeps
  <1>9. CASE Settle \/ \E n \in Nodes : Started(n)
    BY <1>9, SettleKeeps, StartedKeeps
  <1>10. CASE UNCHANGED vars
    <2>1. UNCHANGED <<kind, cloud, books, cc, run, faults>>
      BY <1>10 DEF vars
    <2>A. TypeOK'
      BY <2>1 DEF ResizeInv, TypeOK
    <2>B. Phases' /\ InHand' /\ HasVolume' /\ Balanced'
      BY <2>1 DEF ResizeInv, Phases, InHand, HasVolume, Balanced
    <2>C. NothingPending' /\ ReadyIsGone' /\ SizeKnown'
      BY <2>1 DEF ResizeInv, NothingPending, ReadyIsGone, SizeKnown
    <2>D. Room'
      BY <2>1 DEF ResizeInv, Room
    <2>E. LaunchedKnown' /\ RemovalRemembered'
      BY <2>1 DEF ResizeInv, LaunchedKnown, RemovalRemembered
    <2> QED
      BY <2>A, <2>B, <2>C, <2>D, <2>E DEF ResizeInv
  <1> QED
    BY <1>1, <1>2, <1>3, <1>4, <1>5, <1>6, <1>7, <1>8, <1>9, <1>10 DEF Next, Step

\* Hence it always holds.
LEMMA ResizeInvHolds == Spec => []ResizeInv
  BY ResizeInit, ResizeStep, PTL DEF Spec

\* The pool size, in OCI and in the Terraform state, and every name that an add
\* gives stay within what there is.
THEOREM TypeCorrect == Spec => []TypeOK
  BY ResizeInvHolds, PTL DEF ResizeInv

\* Wherever removals fail or are killed, and whatever runs come next: what has
\* left the pool and is not gone completely is in the journal.
THEOREM RemovalRememberedHolds == Spec => []RemovalRemembered
  BY ResizeInvHolds, PTL DEF ResizeInv

\* Between two runs, an add to a Compute Cluster has left no instance behind that
\* is neither in order nor astray for a reason.
THEOREM LaunchesUndoneHolds == Spec => []LaunchesUndone
  <1>1. ResizeInv => LaunchesUndone
    BY DEF ResizeInv, LaunchedKnown, LaunchesUndone, At
  <1> QED
    BY <1>1, ResizeInvHolds, PTL

\* Only two steps write the journal: the one before a removal, and the one when
\* removals are done.
LEMMA JournalWriters ==
    ASSUME [Next]_vars, ~FinalizeJournal, \A n \in Nodes : ~Remember(n)
    PROVE  UNCHANGED journal
  <1>1. CASE \E mode \in Modes, ask \in SUBSET Nodes, number \in 0..MaxAdd :
                 Start(mode, ask, number)
    BY <1>1 DEF Start
  <1>2. CASE Retry \/ Retried \/ List
    BY <1>2 DEF Retry, RetryDetach, RetryTerminate, RetryVolume, Retried, List
  <1>3. CASE Finalize
    BY <1>3 DEF Finalize, FinalizeCheck, FinalizeState, UpdateTFState, FinalizeDns
  <1>4. CASE Remove
    BY <1>4 DEF Remove, Plan, Detach, DetachNotFound, Terminate, Tidy, Removed, Skip
  <1>5. CASE Add
    BY <1>5 DEF Add, Grow, CheckAdded, Rollback, AddState, AddReconfigure, AddDns
  <1>6. CASE ComputeCluster
    BY <1>6 DEF ComputeCluster, ListInstances, Launch, CheckLaunched, Undone, Swept,
       UndoLaunch, Sweep
  <1>7. CASE Abort \/ LaunchKilled \/ Settle \/ \E n \in Nodes : Started(n)
    BY <1>7 DEF Abort, LaunchKilled, Settle, Started
  <1>8. CASE UNCHANGED vars
    BY <1>8 DEF vars
  <1> QED
    BY <1>1, <1>2, <1>3, <1>4, <1>5, <1>6, <1>7, <1>8 DEF Next, Step

\* A removal leaves the journal only when nothing is left of the node and the
\* Terraform state has the size of the pool.
THEOREM ForgottenWhenDoneHolds == Spec => ForgottenWhenDone
  <1> DEFINE Forgotten == \A n \in Nodes : n \in Pending /\ n \notin Pending' =>
                              /\ life'[n] = "gone" /\ n \notin volumes' /\ n \notin dns'
                              /\ tfSize' = size'
  <1>1. ResizeInv /\ [Next]_vars => [Forgotten]_vars
    <2> SUFFICES ASSUME ResizeInv, [Next]_vars, NEW n \in Nodes,
                        n \in Pending, n \notin Pending'
                 PROVE  /\ life'[n] = "gone" /\ n \notin volumes' /\ n \notin dns'
                        /\ tfSize' = size'
      OBVIOUS
    <2>1. CASE FinalizeJournal
      <3>1. /\ run.pc = "commit" /\ UNCHANGED <<cloud, tfSize>>
            /\ journal' = [m \in Nodes |-> IF m \in run.ready THEN 0 ELSE journal[m]]
        BY <2>1 DEF FinalizeJournal, WriteJournal, At
      <3>2. n \in run.ready
        BY <3>1
      <3> QED
        BY <3>1, <3>2 DEF ResizeInv, ReadyIsGone, SizeKnown
    <2>2. ASSUME NEW m \in Nodes, Remember(m) PROVE FALSE
      <3>1. ResizeInv' /\ journal \in [Nodes -> Sizes]
        BY <2>2, RememberKeeps DEF ResizeInv, TypeOK
      <3>2. n = m /\ HasOwnVolume(m)
        BY <2>2, <3>1 DEF Remember, WriteJournal
      <3>3. run'.pc = "detach" /\ run'.node = m /\ kind' = "managed"
        BY <2>2, <3>2 DEF Remember, HasOwnVolume, ResizeInv, TypeOK, RunState
      <3> QED
        BY <3>1, <3>2, <3>3 DEF ResizeInv, InHand
    <2> QED
      BY <2>1, <2>2, JournalWriters
  <1> QED
    BY <1>1, ResizeInvHolds, PTL DEF Spec, ForgottenWhenDone

=============================================================================

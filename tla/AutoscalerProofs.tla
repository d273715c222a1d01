--------------------------- MODULE AutoscalerProofs ---------------------------
(***************************************************************************)
(* The autoscaler keeps the limit on nodes, never creates a cluster in the *)
(* directory of another one and deletes none under a job that sinfo showed *)
(* as running, but for the races that the properties name: for every       *)
(* number of jobs and clusters, all limits and any number of faults.       *)
(***************************************************************************)
EXTENDS Autoscaler, FiniteSetTheorems, WellFoundedInduction, TLAPS

\* A directory that is not there has no nodes; jobs run on nodes that Slurm has.
Sized     == \A i \in Index : st[i] = "none" => size[i] = 0
OnInSlurm == \A j \in Jobs : on[j] # 0 => on[j] \in InSlurm /\ job[j] = "running"

\* A job that sinfo showed is on a cluster that no script is at work on, and that
\* the pass will not delete.
ShownSafe == \A j \in shown : on[j] \in AtRest \ pass.doomed

\* From its last read on a pass knows every directory, and has counted at least
\* the nodes that there are; between the reads, those of the clusters it has seen.
UsedKnown    == pass.pc \in {"delete", "build"} => Directories \subseteq pass.used
SeenCounted  == pass.pc \in {"times", "dirs"} => NodesOf(pass.seen) <= pass.nodes
AliveCounted == pass.pc \in {"delete", "build"} =>
                    NodesOf(Alive \ missed) <= pass.nodes

AutoscaleInv ==
    /\ TypeOK /\ Sized /\ OnInSlurm
    /\ ShownSafe
    /\ UsedKnown /\ NamesUnique
    /\ SeenCounted /\ AliveCounted /\ LimitsKept

-----------------------------------------------------------------------------
(* Counting nodes *)

\* The bounds are natural numbers.
LEMMA Bounds ==
    /\ MaxNodes \in Nat /\ MaxSize \in Nat /\ MaxClusters \in Nat /\ MaxFaults \in Nat
    /\ \A j \in Jobs : NumNodes[j] \in Nat \ {0}
  BY AutoscalerAssumption

\* NodeSet and NodesOf, with the sizes as a parameter.
Sizes         == [Index -> 0..MaxSize]
Entries(s, A) == {n \in A \X (1..MaxSize) : n[2] <= s[n[1]]}
Count(s, A)   == Cardinality(Entries(s, A))

\* NodesOf counts with the present sizes.
LEMMA NodesOfIsCount == \A A : NodesOf(A) = Count(size, A)
  BY DEF NodesOf, NodeSet, Count, Entries

\* The clusters have finitely many nodes.
LEMMA CountType ==
    ASSUME NEW s \in Sizes, NEW A \in SUBSET Index
    PROVE  IsFiniteSet(Entries(s, A)) /\ Count(s, A) \in Nat
  <1>1. IsFiniteSet(Index) /\ IsFiniteSet(1..MaxSize)
    BY FS_Interval, Bounds DEF Index
  <1>2. IsFiniteSet(A)
    BY <1>1, FS_Subset
  <1>3. IsFiniteSet(A \X (1..MaxSize))
    BY <1>1, <1>2, FS_Product
  <1>4. IsFiniteSet(Entries(s, A))
    BY <1>3, FS_Subset DEF Entries
  <1> QED
    BY <1>4, FS_CardinalityType DEF Count

\* No clusters have no nodes.
LEMMA CountNothing == \A s : Count(s, {}) = 0
  <1>1. \A s : Entries(s, {}) = {}
    BY DEF Entries
  <1> QED
    BY <1>1, FS_EmptySet DEF Count

\* Two sets of clusters have no more nodes together than apart.
LEMMA CountUnion ==
    ASSUME NEW s \in Sizes, NEW A \in SUBSET Index, NEW B \in SUBSET Index
    PROVE  Count(s, A \cup B) <= Count(s, A) + Count(s, B)
  <1> DEFINE a == Entries(s, A)
             b == Entries(s, B)
  <1>1. Entries(s, A \cup B) = a \cup b
    BY DEF Entries
  <1>2. IsFiniteSet(a) /\ IsFiniteSet(b)
    BY CountType
  <1> HIDE DEF a, b
  <1>3. IsFiniteSet(a \cap b)
    BY <1>2, FS_Subset
  <1>4. Cardinality(a) \in Nat /\ Cardinality(b) \in Nat /\ Cardinality(a \cap b) \in Nat
    BY <1>2, <1>3, FS_CardinalityType
  <1>5. Cardinality(a \cup b) = Cardinality(a) + Cardinality(b) - Cardinality(a \cap b)
    BY <1>2, FS_Union
  <1>6. Cardinality(a \cup b) <= Cardinality(a) + Cardinality(b)
    BY <1>4, <1>5
  <1> QED
    BY <1>1, <1>6 DEF Count, a, b

\* Fewer clusters, none of which has grown, have no more nodes.
LEMMA CountShrinks ==
    ASSUME NEW s \in Sizes, NEW t \in Sizes,
           NEW A \in SUBSET Index, NEW B \in SUBSET A,
           \A i \in B : t[i] <= s[i]
    PROVE  Count(t, B) <= Count(s, A)
  <1>1. Entries(t, B) \subseteq Entries(s, A)
    <2> SUFFICES ASSUME NEW n \in Entries(t, B)
                 PROVE  n \in Entries(s, A)
      OBVIOUS
    <2>1. /\ n \in B \X (1..MaxSize) /\ n[1] \in B /\ n[2] \in 1..MaxSize
          /\ n[2] <= t[n[1]] /\ t[n[1]] <= s[n[1]]
      BY DEF Entries
    <2>2. n[2] \in Int /\ t[n[1]] \in Int /\ s[n[1]] \in Int
      BY <2>1, Bounds DEF Sizes
    <2>3. n[2] <= s[n[1]]
      BY <2>1, <2>2
    <2> QED
      BY <2>1, <2>3 DEF Entries
  <1>2. IsFiniteSet(Entries(s, A))
    BY CountType
  <1> QED
    BY <1>1, <1>2, FS_Subset DEF Count

\* A cluster has as many nodes as its size says.
LEMMA CountOne ==
    ASSUME NEW s \in Sizes, NEW i \in Index
    PROVE  Count(s, {i}) = s[i]
  <1>1. s[i] \in 0..MaxSize
    BY DEF Sizes
  <1>2. Entries(s, {i}) = {i} \X (1..s[i])
    BY <1>1, Bounds DEF Entries
  <1>3. IsFiniteSet(1..s[i]) /\ Cardinality(1..s[i]) = s[i]
    <2>1. s[i] \in Int /\ s[i] >= 0 /\ 1 \in Int
      BY <1>1, Bounds
    <2>2. /\ IsFiniteSet(1..s[i])
          /\ Cardinality(1..s[i]) = IF 1 > s[i] THEN 0 ELSE s[i] - 1 + 1
      BY <2>1, FS_Interval
    <2> QED
      BY <2>1, <2>2
  <1>4. IsFiniteSet({i}) /\ Cardinality({i}) = 1
    BY FS_Singleton
  <1>5. Cardinality({i} \X (1..s[i])) = 1 * s[i]
    BY <1>3, <1>4, FS_Product
  <1> QED
    BY <1>1, <1>2, <1>5, Bounds DEF Count

\* A new cluster adds its own size, which is at most n.
LEMMA CountGrows ==
    ASSUME NEW s \in Sizes, NEW t \in Sizes, NEW A \in SUBSET Index,
           NEW i \in Index, NEW n \in Nat, t[i] <= n,
           \A k \in Index : k # i => t[k] = s[k],
           NEW B \in SUBSET (A \cup {i})
    PROVE  Count(t, B) <= Count(s, A) + n
  <1>1. Count(t, B) <= Count(t, (B \ {i}) \cup {i})
    <2>1. (B \ {i}) \cup {i} \in SUBSET Index /\ B \in SUBSET ((B \ {i}) \cup {i})
      OBVIOUS
    <2>2. \A k \in B : t[k] <= t[k]
      BY Bounds DEF Sizes
    <2> QED
      BY <2>1, <2>2, CountShrinks
  <1>2. Count(t, (B \ {i}) \cup {i}) <= Count(t, B \ {i}) + Count(t, {i})
    BY CountUnion
  <1>3. Count(t, B \ {i}) <= Count(s, A)
    <2>1. B \ {i} \in SUBSET A
      OBVIOUS
    <2>2. \A k \in B \ {i} : t[k] <= s[k]
      BY Bounds DEF Sizes
    <2> QED
      BY <2>1, <2>2, CountShrinks
  <1>4. Count(t, {i}) <= n
    BY CountOne
  <1>5. /\ Count(t, B) \in Nat /\ Count(t, (B \ {i}) \cup {i}) \in Nat
        /\ Count(t, B \ {i}) \in Nat /\ Count(t, {i}) \in Nat /\ Count(s, A) \in Nat
    BY CountType
  <1> QED
    BY <1>1, <1>2, <1>3, <1>4, <1>5

\* While the names used are fewer than max_cluster_count, there is a next one.
LEMMA NextIndexFree ==
    ASSUME NEW used \in SUBSET Index, Cardinality(used) < MaxClusters
    PROVE  NextIndex(used) \in Index \ used
  <1> DEFINE T == Index \ used
  <1>1. T # {}
    <2>1. Cardinality(Index) = IF 1 > MaxClusters THEN 0 ELSE MaxClusters - 1 + 1
      BY FS_Interval, Bounds DEF Index
    <2>2. Cardinality(Index) = MaxClusters
      BY <2>1, Bounds
    <2>3. T = {} => used = Index
      OBVIOUS
    <2> QED
      BY <2>2, <2>3, Bounds
  <1>2. T \subseteq Nat
    BY Bounds DEF Index
  <1> HIDE DEF T
  <1>3. \E R : /\ R = {ss \in Nat \X Nat : ss[1] < ss[2]}
               /\ IsWellFoundedOn(R, Nat)
    BY NatLessThanWellFounded DEF OpToRel
  <1>4. \E x \in T : \A y \in T : x <= y
    <2>1. PICK R : /\ R = {ss \in Nat \X Nat : ss[1] < ss[2]}
                   /\ IsWellFoundedOn(R, Nat)
      BY <1>3
    <2>2. PICK x \in T : \A y \in T : <<y, x>> \notin R
      BY <1>1, <1>2, <2>1, WFMin
    <2>3. ASSUME NEW y \in T PROVE x <= y
      <3>1. <<y, x>> \notin {ss \in Nat \X Nat : ss[1] < ss[2]}
        BY <2>1, <2>2
      <3>2. x \in Nat /\ y \in Nat
        BY <1>2
      <3>3. ~(y < x)
        BY <3>1, <3>2
      <3> QED
        BY <3>2, <3>3
    <2> QED
      BY <2>3
  <1>5. Min(T) \in T
    BY <1>4 DEF Min
  <1> QED
    BY <1>5 DEF NextIndex, T

-----------------------------------------------------------------------------
(* What several steps have in common *)

\* The sets of clusters are sets of indices, and sizes are as Count wants them.
LEMMA SetTypes ==
    ASSUME TypeOK
    PROVE  /\ InSlurm \subseteq Index /\ Building \subseteq Index
           /\ Directories \subseteq Index /\ Alive \subseteq Index
           /\ size \in Sizes
  BY DEF TypeOK, InSlurm, Building, Directories, Alive, In, Sizes

\* Steps that add no nodes keep the counts.
LEMMA CountsKept ==
    ASSUME AutoscaleInv, TypeOK',
           \A i \in Index : size'[i] <= size[i],
           (Alive \ missed)' \subseteq Alive \ missed,
           \/ pass'.pc \in {"off", "jobs", "nodes"}
           \/ /\ pass.pc \in {"times", "dirs"} /\ pass'.pc \in {"times", "dirs"}
              /\ pass'.nodes = pass.nodes /\ pass'.seen = pass.seen
           \/ /\ pass.pc \in {"delete", "build"} /\ pass'.pc \in {"delete", "build"}
              /\ pass'.nodes = pass.nodes
    PROVE  (SeenCounted /\ AliveCounted /\ LimitsKept)'
  <1> DEFINE A == Alive \ missed
             B == (Alive \ missed)'
  <1>1. size \in Sizes /\ size' \in Sizes
    BY DEF AutoscaleInv, TypeOK, Sizes
  <1>2. A \in SUBSET Index /\ B \in SUBSET A
    BY SetTypes DEF AutoscaleInv
  <1>3. Count(size', B) <= Count(size, A)
    <2> HIDE DEF A, B
    <2> QED
      BY <1>1, <1>2, CountShrinks
  <1>4. Count(size', B) \in Nat /\ Count(size, A) \in Nat
    <2> HIDE DEF A, B
    <2> QED
      BY <1>1, <1>2, CountType
  <1>5. NodesOf(Alive \ missed)' = Count(size', B) /\ NodesOf(Alive \ missed) = Count(size, A)
    BY DEF NodesOf, NodeSet, Count, Entries
  <1>6. pass.nodes \in Nat /\ pass'.nodes \in Nat /\ pass.seen \in SUBSET Index
    BY DEF AutoscaleInv, TypeOK, PassState
  <1> HIDE DEF A, B
  <1>7. LimitsKept'
    BY <1>3, <1>4, <1>5, Bounds DEF AutoscaleInv, LimitsKept
  <1>8. AliveCounted'
    BY <1>3, <1>4, <1>5, <1>6 DEF AutoscaleInv, AliveCounted
  <1>9. SeenCounted'
    <2> SUFFICES ASSUME pass.pc \in {"times", "dirs"}, pass'.pc \in {"times", "dirs"},
                        pass'.nodes = pass.nodes, pass'.seen = pass.seen
                 PROVE  SeenCounted'
      BY DEF SeenCounted
    <2>1. Count(size', pass.seen) <= Count(size, pass.seen)
      BY <1>1, <1>6, CountShrinks
    <2>2. Count(size', pass.seen) \in Nat /\ Count(size, pass.seen) \in Nat
      BY <1>1, <1>6, CountType
    <2>3. NodesOf(pass.seen)' = Count(size', pass.seen)
          /\ NodesOf(pass.seen) = Count(size, pass.seen)
      BY DEF NodesOf, NodeSet, Count, Entries
    <2> QED
      BY <1>6, <2>1, <2>2, <2>3 DEF AutoscaleInv, SeenCounted
  <1> QED
    BY <1>7, <1>8, <1>9

\* Steps of Slurm and of the pass that leave the clusters alone.
LEMMA SameClusters ==
    ASSUME AutoscaleInv, TypeOK', UNCHANGED <<st, size, missed>>,
           \/ pass'.pc \in {"off", "jobs", "nodes"}
           \/ /\ pass.pc \in {"times", "dirs"} /\ pass'.pc \in {"times", "dirs"}
              /\ pass'.nodes = pass.nodes /\ pass'.seen = pass.seen
           \/ /\ pass.pc \in {"delete", "build"} /\ pass'.pc \in {"delete", "build"}
              /\ pass'.nodes = pass.nodes
    PROVE  (SeenCounted /\ AliveCounted /\ LimitsKept)'
  <1>1. \A i \in Index : size'[i] <= size[i]
    BY Bounds DEF AutoscaleInv, TypeOK
  <1>2. (Alive \ missed)' \subseteq Alive \ missed
    BY DEF Alive, In
  <1> QED
    BY <1>1, <1>2, CountsKept

\* A pass that does not go on from its reads, or is unchanged.
LEMMA SamePass ==
    ASSUME AutoscaleInv, UNCHANGED pass
    PROVE  \/ pass'.pc \in {"off", "jobs", "nodes"}
           \/ /\ pass.pc \in {"times", "dirs"} /\ pass'.pc \in {"times", "dirs"}
              /\ pass'.nodes = pass.nodes /\ pass'.seen = pass.seen
           \/ /\ pass.pc \in {"delete", "build"} /\ pass'.pc \in {"delete", "build"}
              /\ pass'.nodes = pass.nodes
  BY DEF AutoscaleInv, TypeOK, PassState

-----------------------------------------------------------------------------
(* Initial states, Slurm *)

LEMMA InitSafe == Init => AutoscaleInv
  <1> SUFFICES ASSUME Init PROVE AutoscaleInv
    OBVIOUS
  <1>1. TypeOK
    <2>1. pass \in PassState
      BY DEF Init, Off, PassState
    <2>2. clash \in BOOLEAN /\ lockfile \in BOOLEAN
      BY Zenon DEF Init
    <2>3. /\ job \in [Jobs -> {"new", "pending", "running", "done", "lost"}]
          /\ on \in [Jobs -> {0} \cup Index] /\ st \in [Index -> States]
          /\ size \in [Index -> 0..MaxSize] /\ faults \in 0..MaxFaults
      BY Bounds DEF Init, States
    <2>4. old \subseteq InSlurm /\ unfit \subseteq InSlurm
          /\ orphan \subseteq Directories
          /\ missed \subseteq Index /\ shown \subseteq Jobs
      BY DEF Init
    <2> QED
      BY <2>1, <2>2, <2>3, <2>4 DEF TypeOK
  <1>2. Sized /\ UsedKnown /\ NamesUnique /\ SeenCounted /\ AliveCounted
    BY DEF Init, Sized, UsedKnown, NamesUnique, SeenCounted, AliveCounted, Off
  <1>3. OnInSlurm /\ ShownSafe
    BY DEF Init, OnInSlurm, ShownSafe, AtRest
  <1>4. LimitsKept
    <2>1. Alive \ missed = {}
      BY DEF Init, Alive, In
    <2>2. NodesOf({}) = 0
      BY NodesOfIsCount, CountNothing
    <2> QED
      BY <2>1, <2>2, Bounds DEF LimitsKept
  <1> QED
    BY <1>1, <1>2, <1>3, <1>4 DEF AutoscaleInv

\* A job is submitted.
LEMMA SubmitSafe ==
    ASSUME AutoscaleInv, NEW j \in Jobs, Submit(j)
    PROVE  AutoscaleInv'
  <1>1. /\ job' = [job EXCEPT ![j] = "pending"]
        /\ job[j] = "new"
        /\ UNCHANGED <<on, old, unfit, clusters, lockfile, pass, faults, history>>
    BY DEF Submit
  <1>2. TypeOK'
    BY <1>1 DEF AutoscaleInv, TypeOK, clusters, history, InSlurm, Directories, In
  <1>3. (Sized /\ UsedKnown /\ NamesUnique)'
    BY <1>1 DEF AutoscaleInv, Sized, UsedKnown, NamesUnique, clusters, history,
                Directories, In
  <1>4. (OnInSlurm /\ ShownSafe)'
    BY <1>1 DEF AutoscaleInv, TypeOK, OnInSlurm, ShownSafe, AtRest,
                clusters, history, InSlurm, In
  <1>5. (SeenCounted /\ AliveCounted /\ LimitsKept)'
    BY <1>1, <1>2, SamePass, SameClusters DEF clusters, history
  <1> QED
    BY <1>2, <1>3, <1>4, <1>5 DEF AutoscaleInv

\* A job starts, which sinfo cannot have shown.
LEMMA StartJobSafe ==
    ASSUME AutoscaleInv, NEW j \in Jobs, StartJob(j)
    PROVE  AutoscaleInv'
  <1>1. PICK i \in Suitable(j) :
          /\ job' = [job EXCEPT ![j] = "running"]
          /\ on' = [on EXCEPT ![j] = i]
          /\ old' = old \ {i}
    BY DEF StartJob
  <1>2. job[j] = "pending"
        /\ UNCHANGED <<unfit, clusters, lockfile, pass, faults, history>>
    BY DEF StartJob, Pending
  <1>3. i \in InSlurm /\ i \in Index
    BY SetTypes DEF Suitable, AutoscaleInv
  <1>4. TypeOK'
    <2>1. /\ job' \in [Jobs -> {"new", "pending", "running", "done", "lost"}]
          /\ on' \in [Jobs -> {0} \cup Index]
      BY <1>1, <1>3 DEF AutoscaleInv, TypeOK
    <2>2. /\ old' \subseteq InSlurm' /\ unfit' \subseteq InSlurm'
          /\ orphan' \subseteq Directories'
      BY <1>1, <1>2 DEF AutoscaleInv, TypeOK, clusters, InSlurm, Directories, In
    <2> QED
      BY <1>2, <2>1, <2>2 DEF AutoscaleInv, TypeOK, clusters, history
  <1>5. (Sized /\ UsedKnown /\ NamesUnique)'
    BY <1>2 DEF AutoscaleInv, Sized, UsedKnown, NamesUnique, clusters, history,
                Directories, In
  <1>6. (OnInSlurm /\ ShownSafe)'
    <2>1. OnInSlurm'
      BY <1>1, <1>2, <1>3 DEF AutoscaleInv, TypeOK, OnInSlurm, clusters, InSlurm, In
    <2>2. j \notin shown
      BY <1>2 DEF AutoscaleInv, TypeOK, OnInSlurm, ShownSafe, AtRest, In, Index
    <2>3. ShownSafe'
      BY <1>1, <1>2, <2>2
      DEF AutoscaleInv, TypeOK, ShownSafe, AtRest, In, clusters, history
    <2> QED
      BY <2>1, <2>3
  <1>7. (SeenCounted /\ AliveCounted /\ LimitsKept)'
    BY <1>2, <1>4, SamePass, SameClusters DEF clusters, history
  <1> QED
    BY <1>4, <1>5, <1>6, <1>7 DEF AutoscaleInv

\* A job ends or is cancelled.
LEMMA EndJobSafe ==
    ASSUME AutoscaleInv, NEW j \in Jobs, EndJob(j)
    PROVE  AutoscaleInv'
  <1>1. /\ job' = [job EXCEPT ![j] = "done"] /\ on' = [on EXCEPT ![j] = 0]
        /\ shown' = shown \ {j}
        /\ UNCHANGED <<old, unfit, clusters, lockfile, pass, faults, clash, missed>>
    BY DEF EndJob
  <1>2. TypeOK'
    BY <1>1 DEF AutoscaleInv, TypeOK, clusters, InSlurm, Directories, In
  <1>3. (Sized /\ UsedKnown /\ NamesUnique)'
    BY <1>1 DEF AutoscaleInv, Sized, UsedKnown, NamesUnique, clusters, Directories, In
  <1>4. (OnInSlurm /\ ShownSafe)'
    BY <1>1 DEF AutoscaleInv, TypeOK, OnInSlurm, ShownSafe, AtRest,
                clusters, InSlurm, In
  <1>5. (SeenCounted /\ AliveCounted /\ LimitsKept)'
    BY <1>1, <1>2, SamePass, SameClusters DEF clusters
  <1> QED
    BY <1>2, <1>3, <1>4, <1>5 DEF AutoscaleInv

\* The idle time is reached.
LEMMA AgeSafe ==
    ASSUME AutoscaleInv, NEW i \in Index, Age(i)
    PROVE  AutoscaleInv'
  <1>1. /\ st[i] = "up" \/ st[i] = "joined"
        /\ old' = old \cup {i}
        /\ UNCHANGED <<job, on, unfit, clusters, lockfile, pass, faults, history>>
    BY DEF Age, AtRest, In
  <1>2. TypeOK'
    BY <1>1 DEF AutoscaleInv, TypeOK, clusters, history, InSlurm, Directories, In
  <1>3. (Sized /\ UsedKnown /\ NamesUnique)'
    BY <1>1 DEF AutoscaleInv, Sized, UsedKnown, NamesUnique, clusters, history,
                Directories, In
  <1>4. (OnInSlurm /\ ShownSafe)'
    BY <1>1 DEF AutoscaleInv, OnInSlurm, ShownSafe, AtRest,
                clusters, history, InSlurm, In
  <1>5. (SeenCounted /\ AliveCounted /\ LimitsKept)'
    BY <1>1, <1>2, SamePass, SameClusters DEF clusters, history
  <1> QED
    BY <1>2, <1>3, <1>4, <1>5 DEF AutoscaleInv

\* Nodes are drained.
LEMMA DrainSafe ==
    ASSUME AutoscaleInv, NEW i \in Index, Drain(i)
    PROVE  AutoscaleInv'
  <1>1. /\ unfit' \subseteq InSlurm /\ faults' \in 0..MaxFaults
        /\ UNCHANGED <<job, on, old, clusters, lockfile, pass, history>>
    BY Bounds DEF Drain, Fault, AutoscaleInv, TypeOK
  <1>2. TypeOK'
    BY <1>1 DEF AutoscaleInv, TypeOK, clusters, history, InSlurm, Directories, In
  <1>3. (Sized /\ UsedKnown /\ NamesUnique)'
    BY <1>1 DEF AutoscaleInv, Sized, UsedKnown, NamesUnique, clusters, history,
                Directories, In
  <1>4. (OnInSlurm /\ ShownSafe)'
    BY <1>1 DEF AutoscaleInv, OnInSlurm, ShownSafe, AtRest,
                clusters, history, InSlurm, In
  <1>5. (SeenCounted /\ AliveCounted /\ LimitsKept)'
    BY <1>1, <1>2, SamePass, SameClusters DEF clusters, history
  <1> QED
    BY <1>2, <1>3, <1>4, <1>5 DEF AutoscaleInv

-----------------------------------------------------------------------------
(* The scripts *)

\* Steps of one cluster: which of its states matter for the other parts of the
\* invariant, when no directory is made and no live cluster comes back.
LEMMA OneCluster ==
    ASSUME AutoscaleInv, NEW i \in Index, NEW s \in States,
           st' = [st EXCEPT ![i] = s]
    PROVE  /\ st' \in [Index -> States]
           /\ st'[i] = s
           /\ \A k \in Index : k # i => st'[k] = st[k]
           /\ st[i] # "none" => Directories' \subseteq Directories
           /\ s \notin {"copied", "building", "joined", "up", "deleting"}
                \/ st[i] \in {"copied", "building", "joined", "up", "deleting"}
                  => Alive' \subseteq Alive
           /\ s # "none" => Directories \subseteq Directories'
           /\ s \in {"joined", "up", "deleting"} => InSlurm \subseteq InSlurm'
           /\ InSlurm \ {i} \subseteq InSlurm' /\ Directories \ {i} \subseteq Directories'
  <1>1. st \in [Index -> States]
    BY DEF AutoscaleInv, TypeOK
  <1>2. /\ st' \in [Index -> States] /\ st'[i] = s
        /\ \A k \in Index : k # i => st'[k] = st[k]
    BY <1>1
  <1>3. /\ Directories = {k \in Index : st[k] # "none"}
        /\ Directories' = {k \in Index : st'[k] # "none"}
    BY <1>1, <1>2 DEF Directories, In, States
  <1> QED
    BY <1>2, <1>3 DEF Alive, InSlurm, In

\* A script goes on; the nodes of a deleted cluster leave Slurm with their jobs.
LEMMA ProgressSafe ==
    ASSUME AutoscaleInv, NEW i \in Index, Progress(i)
    PROVE  AutoscaleInv'
  <1>1. i \notin orphan /\ UNCHANGED <<orphan, lockfile, pass, faults, clash, shown>>
    BY DEF Progress
  <1>2. CASE /\ \/ st[i] = "copied" /\ Becomes(i, "building")
                \/ st[i] = "building" /\ Becomes(i, "joined")
                \/ st[i] = "joined" /\ Becomes(i, "up")
             /\ UNCHANGED <<slurm, size, missed>>
    <2>1. PICK s \in {"building", "joined", "up"} : st' = [st EXCEPT ![i] = s]
      BY <1>2 DEF Becomes
    <2>2. s \in States /\ s # "none" /\ st[i] # "none"
          /\ st[i] \in {"copied", "building", "joined", "up", "deleting"}
      BY <1>2 DEF States
    <2>3. /\ st' \in [Index -> States] /\ st'[i] = s
          /\ \A k \in Index : k # i => st'[k] = st[k]
          /\ Directories' = Directories /\ Alive' \subseteq Alive
          /\ InSlurm \subseteq InSlurm'
      <3>1. InSlurm \subseteq InSlurm'
        BY <1>2, <2>1, <2>2, OneCluster DEF InSlurm, In, Becomes
      <3> QED
        BY <2>1, <2>2, <3>1, OneCluster
    <2>4. TypeOK'
      BY <1>1, <1>2, <2>3 DEF AutoscaleInv, TypeOK, slurm
    <2>5. (Sized /\ UsedKnown /\ NamesUnique)'
      BY <1>1, <1>2, <2>2, <2>3
      DEF AutoscaleInv, Sized, UsedKnown, NamesUnique, slurm
    <2>6. OnInSlurm'
      BY <1>1, <1>2, <2>3 DEF AutoscaleInv, OnInSlurm, slurm
    <2>7. ShownSafe'
      <3>1. AtRest \subseteq AtRest'
        BY <1>1, <1>2, <2>3 DEF AtRest, In
      <3> QED
        BY <1>1, <1>2, <3>1 DEF AutoscaleInv, ShownSafe, slurm
    <2>8. (SeenCounted /\ AliveCounted /\ LimitsKept)'
      <3>1. \A k \in Index : size'[k] <= size[k]
        BY <1>2, Bounds DEF AutoscaleInv, TypeOK
      <3> QED
        BY <1>1, <1>2, <2>3, <2>4, <3>1, SamePass, CountsKept
    <2> QED
      BY <2>4, <2>5, <2>6, <2>7, <2>8 DEF AutoscaleInv
  <1>3. CASE /\ st[i] = "deleting" /\ Becomes(i, "drained") /\ LeaveSlurm(i)
             /\ UNCHANGED <<size, missed>>
    <2>1. /\ st' \in [Index -> States] /\ st'[i] = "drained"
          /\ \A k \in Index : k # i => st'[k] = st[k]
          /\ Directories' = Directories /\ Alive' \subseteq Alive
          /\ InSlurm \ {i} \subseteq InSlurm'
      BY <1>3, OneCluster DEF Becomes, States
    <2>2. /\ job' = [j \in Jobs |-> IF on[j] = i THEN "lost" ELSE job[j]]
          /\ on' = [j \in Jobs |-> IF on[j] = i THEN 0 ELSE on[j]]
          /\ old' = old \ {i} /\ unfit' = unfit \ {i}
      BY <1>3 DEF LeaveSlurm
    <2>3. TypeOK'
      <3>1. /\ job' \in [Jobs -> {"new", "pending", "running", "done", "lost"}]
            /\ on' \in [Jobs -> {0} \cup Index]
            /\ old' \subseteq InSlurm' /\ unfit' \subseteq InSlurm'
        BY <2>1, <2>2 DEF AutoscaleInv, TypeOK
      <3> QED
        BY <1>1, <1>3, <2>1, <3>1 DEF AutoscaleInv, TypeOK
    <2>4. (Sized /\ UsedKnown /\ NamesUnique)'
      BY <1>1, <1>3, <2>1 DEF AutoscaleInv, Sized, UsedKnown, NamesUnique
    <2>5. OnInSlurm'
      BY <2>1, <2>2 DEF AutoscaleInv, OnInSlurm
    <2>6. ShownSafe'
      <3>1. AtRest \subseteq AtRest' /\ i \notin AtRest
        BY <1>1, <1>3, <2>1 DEF AtRest, In
      <3>2. \A j \in shown : j \in Jobs /\ on'[j] = on[j]
        BY <2>2, <3>1 DEF AutoscaleInv, TypeOK, ShownSafe
      <3> QED
        BY <1>1, <3>1, <3>2 DEF AutoscaleInv, ShownSafe
    <2>8. (SeenCounted /\ AliveCounted /\ LimitsKept)'
      <3>1. \A k \in Index : size'[k] <= size[k]
        BY <1>3, Bounds DEF AutoscaleInv, TypeOK
      <3> QED
        BY <1>1, <1>3, <2>1, <2>3, <3>1, SamePass, CountsKept
    <2> QED
      BY <2>3, <2>4, <2>5, <2>6, <2>8 DEF AutoscaleInv
  <1>4. CASE st[i] = "drained" /\ Gone(i) /\ UNCHANGED slurm
    <2>1. /\ st' \in [Index -> States] /\ st'[i] = "none"
          /\ \A k \in Index : k # i => st'[k] = st[k]
          /\ Directories' \subseteq Directories /\ Alive' \subseteq Alive
          /\ Directories \ {i} \subseteq Directories'
      BY <1>4, OneCluster DEF Gone, Becomes, States
    <2>2. InSlurm' = InSlurm
      BY <1>4, <2>1 DEF InSlurm, In
    <2>3. /\ size' \in [Index -> 0..MaxSize] /\ size'[i] = 0
          /\ \A k \in Index : k # i => size'[k] = size[k]
          /\ missed' = missed \ {i}
      BY <1>4, Bounds DEF Gone, AutoscaleInv, TypeOK
    <2>4. TypeOK'
      BY <1>1, <1>4, <2>1, <2>2, <2>3 DEF AutoscaleInv, TypeOK, slurm
    <2>5. (Sized /\ UsedKnown /\ NamesUnique)'
      BY <1>1, <2>1, <2>3 DEF AutoscaleInv, Sized, UsedKnown, NamesUnique
    <2>6. OnInSlurm'
      BY <1>1, <1>4, <2>2 DEF AutoscaleInv, OnInSlurm, slurm
    <2>7. ShownSafe'
      <3>1. AtRest \subseteq AtRest'
        BY <1>1, <1>4, <2>1 DEF AtRest, In
      <3> QED
        BY <1>1, <1>4, <3>1 DEF AutoscaleInv, ShownSafe, slurm
    <2>8. (SeenCounted /\ AliveCounted /\ LimitsKept)'
      <3>1. \A k \in Index : size'[k] <= size[k]
        BY <2>3, Bounds DEF AutoscaleInv, TypeOK
      <3>2. (Alive \ missed)' \subseteq Alive \ missed
        <4>1. i \notin Alive'
          BY <2>1 DEF Alive, In
        <4> QED
          BY <2>1, <2>3, <4>1
      <3> QED
        BY <1>1, <2>4, <3>1, <3>2, SamePass, CountsKept
    <2> QED
      BY <2>4, <2>5, <2>6, <2>7, <2>8 DEF AutoscaleInv
  <1> QED
    BY <1>2, <1>3, <1>4 DEF Progress

\* A script fails and starts the next attempt or a deletion, or leaves the cluster.
LEMMA ScriptFailsSafe ==
    ASSUME AutoscaleInv, NEW i \in Index, ScriptFails(i)
    PROVE  AutoscaleInv'
  <1>1. /\ UNCHANGED <<slurm, size, orphan, lockfile, pass, history>>
        /\ faults' \in 0..MaxFaults
    BY Bounds DEF ScriptFails, Fault, AutoscaleInv, TypeOK
  <1>2. PICK s \in States :
          /\ st' = [st EXCEPT ![i] = s]
          /\ \/ st[i] = "building" /\ s \in {"copied", "drained"}
             \/ st[i] = "joined" /\ s = "deleting"
             \/ st[i] = "deleting" /\ s = "up"
             \/ st[i] = "drained" /\ s = "stuck"
    BY DEF ScriptFails, Becomes, States
  <1>3. /\ st' \in [Index -> States] /\ st'[i] = s
        /\ \A k \in Index : k # i => st'[k] = st[k]
        /\ Directories' = Directories /\ Alive' \subseteq Alive
    BY <1>2, OneCluster
  <1>4. InSlurm' = InSlurm
    BY <1>2, <1>3 DEF InSlurm, In
  <1>5. TypeOK'
    BY <1>1, <1>3, <1>4 DEF AutoscaleInv, TypeOK, slurm, history
  <1>6. (Sized /\ UsedKnown /\ NamesUnique)'
    BY <1>1, <1>2, <1>3
    DEF AutoscaleInv, Sized, UsedKnown, NamesUnique, slurm, history
  <1>7. OnInSlurm'
    BY <1>1, <1>4 DEF AutoscaleInv, OnInSlurm, slurm, history
  <1>8. ShownSafe'
    <2>1. AtRest \subseteq AtRest'
      BY <1>1, <1>2, <1>3 DEF AtRest, In, ScriptFails
    <2> QED
      BY <1>1, <2>1 DEF AutoscaleInv, ShownSafe, slurm, history
  <1>9. (SeenCounted /\ AliveCounted /\ LimitsKept)'
    <2>1. \A k \in Index : size'[k] <= size[k]
      BY <1>1, Bounds DEF AutoscaleInv, TypeOK
    <2> QED
      BY <1>1, <1>3, <1>5, <2>1, SamePass, CountsKept DEF history
  <1> QED
    BY <1>5, <1>6, <1>7, <1>8, <1>9 DEF AutoscaleInv

\* A script is killed.
LEMMA ScriptKilledSafe ==
    ASSUME AutoscaleInv, NEW i \in Index, ScriptKilled(i)
    PROVE  AutoscaleInv'
  <1>1. /\ UNCHANGED <<slurm, st, size, lockfile, pass, history>>
        /\ orphan' = orphan \cup {i} /\ i \in Directories
        /\ faults' \in 0..MaxFaults
    BY Bounds DEF ScriptKilled, Fault, AutoscaleInv, TypeOK, Directories, In, States
  <1>2. TypeOK'
    BY <1>1 DEF AutoscaleInv, TypeOK, slurm, history, InSlurm, Directories, In
  <1>3. (Sized /\ UsedKnown /\ NamesUnique)'
    BY <1>1 DEF AutoscaleInv, Sized, UsedKnown, NamesUnique, history, Directories, In
  <1>4. (OnInSlurm /\ ShownSafe)'
    BY <1>1 DEF AutoscaleInv, OnInSlurm, ShownSafe, AtRest,
                slurm, history, InSlurm, In
  <1>5. (SeenCounted /\ AliveCounted /\ LimitsKept)'
    BY <1>1, <1>2, SamePass, SameClusters DEF history
  <1> QED
    BY <1>2, <1>3, <1>4, <1>5 DEF AutoscaleInv

-----------------------------------------------------------------------------
(* The pass *)

\* A pass starts, reads the jobs, ends or is killed.
LEMMA PassControlSafe ==
    ASSUME AutoscaleInv, StartPass \/ EndPass \/ KillPass \/ ReadJobs
    PROVE  AutoscaleInv'
  <1>1. /\ UNCHANGED <<slurm, clusters, history>>
        /\ faults' \in 0..MaxFaults /\ lockfile' \in BOOLEAN
    <2>1. lockfile' \in BOOLEAN
      BY Zenon DEF StartPass, EndPass, KillPass, ReadJobs, AutoscaleInv, TypeOK
    <2> QED
      BY <2>1, Bounds
      DEF StartPass, EndPass, KillPass, ReadJobs, Fault, AutoscaleInv, TypeOK
  <1>2. /\ pass' \in PassState /\ pass'.pc \in {"off", "jobs", "nodes"}
        /\ pass'.doomed \subseteq pass.doomed
    <2>1. CASE StartPass
      BY <2>1 DEF StartPass, Goto, AutoscaleInv, TypeOK, PassState
    <2>2. CASE EndPass \/ KillPass
      BY <2>2 DEF EndPass, KillPass, Off, PassState
    <2>3. CASE ReadJobs
      <3>1. Pending \subseteq Jobs
        BY DEF Pending
      <3> QED
        BY <2>3, <3>1 DEF ReadJobs, AutoscaleInv, TypeOK, PassState
    <2> QED
      BY <2>1, <2>2, <2>3
  <1>3. TypeOK'
    BY <1>1, <1>2
    DEF AutoscaleInv, TypeOK, slurm, clusters, history, InSlurm, Directories, In
  <1>4. (Sized /\ UsedKnown /\ NamesUnique)'
    BY <1>1, <1>2 DEF AutoscaleInv, Sized, UsedKnown, NamesUnique, clusters, history
  <1>5. (OnInSlurm /\ ShownSafe)'
    BY <1>1, <1>2 DEF AutoscaleInv, OnInSlurm, ShownSafe, AtRest,
                slurm, clusters, history, InSlurm, In
  <1>6. (SeenCounted /\ AliveCounted /\ LimitsKept)'
    BY <1>1, <1>2, <1>3, SameClusters DEF clusters, history
  <1> QED
    BY <1>3, <1>4, <1>5, <1>6 DEF AutoscaleInv

\* sinfo is read: what is seen is counted, and a job that it shows is on a cluster
\* that is running.
LEMMA ReadNodesSafe ==
    ASSUME AutoscaleInv, ReadNodes
    PROVE  AutoscaleInv'
  <1>1. /\ UNCHANGED <<slurm, clusters, lockfile, faults, clash, missed>>
        /\ pass' = [pass EXCEPT !.pc = "times", !.seen = InSlurm,
                                !.doomed = InSlurm \ ShownRunning,
                                !.nodes = NodesOf(InSlurm)]
        /\ shown' = {j \in Jobs : on[j] \in AtRest \ unfit}
    BY DEF ReadNodes
  <1>2. InSlurm \subseteq Index /\ NodesOf(InSlurm) \in Nat
    BY SetTypes, NodesOfIsCount, CountType DEF AutoscaleInv
  <1>3. /\ pass' \in PassState /\ pass'.pc = "times" /\ pass'.seen = InSlurm
        /\ pass'.doomed = InSlurm \ ShownRunning /\ pass'.nodes = NodesOf(InSlurm)
    BY <1>1, <1>2 DEF AutoscaleInv, TypeOK, PassState
  <1>4. TypeOK'
    BY <1>1, <1>3
    DEF AutoscaleInv, TypeOK, slurm, clusters, InSlurm, Directories, In
  <1>5. (Sized /\ UsedKnown /\ NamesUnique)'
    BY <1>1, <1>3 DEF AutoscaleInv, Sized, UsedKnown, NamesUnique, clusters
  <1>6. OnInSlurm'
    BY <1>1 DEF AutoscaleInv, OnInSlurm, slurm, clusters, InSlurm, In
  <1>7. ShownSafe'
    <2>1. \A j \in Jobs : on[j] \in InSlurm \ unfit => on[j] \in ShownRunning
      BY DEF ShownRunning, RunsOn
    <2>2. AtRest \subseteq InSlurm /\ AtRest' = AtRest
      BY <1>1 DEF AtRest, InSlurm, In, clusters
    <2>3. \A j \in shown' : j \in Jobs /\ on'[j] = on[j] /\ on[j] \in AtRest \ unfit
      BY <1>1 DEF slurm
    <2> QED
      BY <1>3, <2>1, <2>2, <2>3 DEF ShownSafe
  <1>8. (SeenCounted /\ AliveCounted /\ LimitsKept)'
    <2>1. NodesOf(pass.seen)' = NodesOf(InSlurm)
      BY <1>1, <1>3 DEF NodesOf, NodeSet, clusters
    <2>2. SeenCounted'
      BY <1>2, <1>3, <2>1 DEF SeenCounted
    <2>3. AliveCounted'
      BY <1>3 DEF AliveCounted
    <2>4. LimitsKept'
      BY <1>1 DEF AutoscaleInv, LimitsKept, NodesOf, NodeSet, Alive, In, clusters
    <2> QED
      BY <2>2, <2>3, <2>4
  <1> QED
    BY <1>4, <1>5, <1>6, <1>7, <1>8 DEF AutoscaleInv

\* The idle times are read: fewer clusters remain to be deleted.
LEMMA ReadIdleTimesSafe ==
    ASSUME AutoscaleInv, ReadIdleTimes
    PROVE  AutoscaleInv'
  <1>1. /\ UNCHANGED <<slurm, clusters, lockfile, faults, history>>
        /\ pass.pc = "times"
    BY DEF ReadIdleTimes
  <1>2. /\ pass' \in PassState /\ pass'.pc = "dirs" /\ pass'.seen = pass.seen
        /\ pass'.nodes = pass.nodes /\ pass'.doomed \subseteq pass.doomed
    <2>1. PICK more \in SUBSET CountedFromStart :
            pass' = [pass EXCEPT !.pc = "dirs",
                                 !.doomed = pass.doomed \cap (Idle \cup more)]
      BY DEF ReadIdleTimes
    <2>2. pass \in PassState /\ pass.doomed \subseteq Index
      BY DEF AutoscaleInv, TypeOK, PassState
    <2>3. pass.doomed \cap (Idle \cup more) \in SUBSET Index
      BY <2>2
    <2> QED
      BY <2>1, <2>2, <2>3 DEF PassState
  <1>3. TypeOK'
    BY <1>1, <1>2
    DEF AutoscaleInv, TypeOK, slurm, clusters, history, InSlurm, Directories, In
  <1>4. (Sized /\ UsedKnown /\ NamesUnique)'
    BY <1>1, <1>2 DEF AutoscaleInv, Sized, UsedKnown, NamesUnique, clusters, history
  <1>5. (OnInSlurm /\ ShownSafe)'
    BY <1>1, <1>2 DEF AutoscaleInv, OnInSlurm, ShownSafe, AtRest,
                slurm, clusters, history, InSlurm, In
  <1>6. (SeenCounted /\ AliveCounted /\ LimitsKept)'
    BY <1>1, <1>2, <1>3, SameClusters DEF clusters, history
  <1> QED
    BY <1>3, <1>4, <1>5, <1>6 DEF AutoscaleInv

\* The directories are read: a live cluster is among those seen or being built, or
\* missed, so the nodes counted by the two reads are at least those there are.
LEMMA ReadDirectoriesSafe ==
    ASSUME AutoscaleInv, ReadDirectories
    PROVE  AutoscaleInv'
  <1>1. PICK rest \in Unserved(pass.todo) :
          pass' = [pass EXCEPT !.pc = "delete", !.todo = rest, !.seen = {},
                               !.used = Directories,
                               !.nodes = @ + NodesOf(Building)]
    BY DEF ReadDirectories
  <1>2. /\ pass.pc = "dirs"
        /\ missed' = (Alive \ (pass.seen \cup Building))
                         \cup (IF NodesOf(Alive) <= MaxNodes THEN {} ELSE missed)
        /\ UNCHANGED <<slurm, clusters, lockfile, faults, clash, shown>>
    BY DEF ReadDirectories
  <1>3. /\ Directories \subseteq Index /\ Building \subseteq Index
        /\ Alive \subseteq Index /\ size \in Sizes /\ pass.seen \subseteq Index
        /\ pass.nodes \in Nat /\ pass.todo \subseteq Jobs
    BY SetTypes DEF AutoscaleInv, TypeOK, PassState
  <1>4. NodesOf(Building) \in Nat /\ NodesOf(pass.seen) \in Nat
    BY <1>3, NodesOfIsCount, CountType
  <1>5. rest \subseteq Jobs
    BY <1>3 DEF Unserved
  <1>6. /\ pass' \in PassState /\ pass'.pc = "delete" /\ pass'.used = Directories
        /\ pass'.doomed = pass.doomed
        /\ pass'.nodes = pass.nodes + NodesOf(Building)
    <2> DEFINE n == pass.nodes + NodesOf(Building)
    <2>1. n \in Nat
      BY <1>3, <1>4
    <2>2. pass' = [pass EXCEPT !.pc = "delete", !.todo = rest, !.seen = {},
                               !.used = Directories, !.nodes = n]
      BY <1>1 DEF AutoscaleInv, TypeOK, PassState
    <2>3. pass \in PassState
      BY DEF AutoscaleInv, TypeOK
    <2> HIDE DEF n
    <2>4. /\ pass' \in PassState /\ pass'.pc = "delete" /\ pass'.used = Directories
          /\ pass'.doomed = pass.doomed /\ pass'.nodes = n
      BY <1>3, <1>5, <2>1, <2>2, <2>3 DEF PassState
    <2> QED
      BY <2>4 DEF n
  <1>7. TypeOK'
    BY <1>2, <1>3, <1>6
    DEF AutoscaleInv, TypeOK, slurm, clusters, InSlurm, Directories, In
  <1>8. (Sized /\ UsedKnown /\ NamesUnique)'
    BY <1>2, <1>6
    DEF AutoscaleInv, Sized, UsedKnown, NamesUnique, clusters, Directories, In
  <1>9. (OnInSlurm /\ ShownSafe)'
    BY <1>2, <1>6 DEF AutoscaleInv, OnInSlurm, ShownSafe, AtRest,
                slurm, clusters, InSlurm, In
  <1>10. (SeenCounted /\ AliveCounted /\ LimitsKept)'
    <2> DEFINE B == (Alive \ missed)'
    <2>1. /\ B \subseteq pass.seen \cup Building /\ B \subseteq Alive
          /\ NodesOf(Alive) <= MaxNodes \/ B \subseteq Alive \ missed
      BY <1>2 DEF Alive, In, clusters
    <2>2. NodesOf(Alive \ missed)' = NodesOf(B)
      BY <1>2 DEF NodesOf, NodeSet, clusters
    <2> HIDE DEF B
    <2>3. \A k \in Index : size[k] <= size[k]
      BY <1>3, Bounds DEF Sizes
    <2>4. NodesOf(B) <= NodesOf(pass.seen \cup Building)
      BY <1>3, <2>1, <2>3, NodesOfIsCount, CountShrinks
    <2>5. NodesOf(pass.seen \cup Building) <= NodesOf(pass.seen) + NodesOf(Building)
      BY <1>3, NodesOfIsCount, CountUnion
    <2>6. /\ NodesOf(B) \in Nat /\ NodesOf(pass.seen \cup Building) \in Nat
          /\ NodesOf(Alive) \in Nat /\ NodesOf(Alive \ missed) \in Nat
      BY <1>3, <2>1, NodesOfIsCount, CountType
    <2>7. NodesOf(pass.seen) <= pass.nodes /\ NodesOf(Alive \ missed) <= MaxNodes
      BY <1>2 DEF AutoscaleInv, SeenCounted, LimitsKept
    <2>8. NodesOf(B) <= MaxNodes
      <3>1. CASE NodesOf(Alive) <= MaxNodes
        <4>1. NodesOf(B) <= NodesOf(Alive)
          BY <1>3, <2>1, <2>3, NodesOfIsCount, CountShrinks
        <4> QED
          BY <2>6, <3>1, <4>1, Bounds
      <3>2. CASE B \subseteq Alive \ missed
        <4>1. NodesOf(B) <= NodesOf(Alive \ missed)
          BY <1>3, <2>3, <3>2, NodesOfIsCount, CountShrinks
        <4> QED
          BY <2>6, <2>7, <4>1, Bounds
      <3> QED
        BY <2>1, <3>1, <3>2
    <2>9. NodesOf(B) <= pass'.nodes
      BY <1>3, <1>4, <1>6, <2>4, <2>5, <2>6, <2>7
    <2> QED
      BY <1>6, <2>2, <2>8, <2>9 DEF SeenCounted, AliveCounted, LimitsKept
  <1> QED
    BY <1>7, <1>8, <1>9, <1>10 DEF AutoscaleInv

\* A cluster found idle is deleted: sinfo showed no job on it.
LEMMA DeleteClusterSafe ==
    ASSUME AutoscaleInv, DeleteCluster
    PROVE  AutoscaleInv'
  <1>1. pass.pc = "delete" /\ UNCHANGED <<slurm, size, lockfile, faults, history>>
    BY DEF DeleteCluster
  <1>2. pass \in PassState /\ pass.doomed \subseteq Index
    BY DEF AutoscaleInv, TypeOK, PassState
  <1>3. \/ pass'.pc \in {"off", "jobs", "nodes"}
        \/ /\ pass.pc \in {"times", "dirs"} /\ pass'.pc \in {"times", "dirs"}
           /\ pass'.nodes = pass.nodes /\ pass'.seen = pass.seen
        \/ /\ pass.pc \in {"delete", "build"} /\ pass'.pc \in {"delete", "build"}
           /\ pass'.nodes = pass.nodes
    BY <1>1, <1>2 DEF DeleteCluster, Goto, PassState
  <1>4. /\ pass' \in PassState /\ pass'.used = pass.used
        /\ pass'.doomed \subseteq pass.doomed
    BY <1>2 DEF DeleteCluster, Goto, PassState
  <1>5. CASE UNCHANGED <<st, orphan>>
    <2>1. TypeOK'
      BY <1>1, <1>4, <1>5
      DEF AutoscaleInv, TypeOK, slurm, history, InSlurm, Directories, In
    <2>2. (Sized /\ UsedKnown /\ NamesUnique)'
      BY <1>1, <1>4, <1>5
      DEF AutoscaleInv, Sized, UsedKnown, NamesUnique, history, Directories, In
    <2>3. (OnInSlurm /\ ShownSafe)'
      BY <1>1, <1>4, <1>5 DEF AutoscaleInv, OnInSlurm, ShownSafe, AtRest,
                  slurm, history, InSlurm, In
    <2>4. (SeenCounted /\ AliveCounted /\ LimitsKept)'
      BY <1>1, <1>3, <1>5, <2>1, SameClusters DEF history
    <2> QED
      BY <2>1, <2>2, <2>3, <2>4 DEF AutoscaleInv
  <1>6. ASSUME NEW i \in pass.doomed, st[i] \in {"joined", "up", "stuck"},
               Becomes(i, IF st[i] = "stuck" THEN "drained" ELSE "deleting"),
               orphan' = orphan \ {i}
        PROVE  AutoscaleInv'
    <2>1. PICK s \in {"drained", "deleting"} :
            /\ st' = [st EXCEPT ![i] = s]
            /\ st[i] = "stuck" <=> s = "drained"
      BY <1>6 DEF Becomes
    <2>2. s \in States /\ s # "none" /\ i \in Index
      BY <1>2 DEF States
    <2>3. /\ st' \in [Index -> States] /\ st'[i] = s
          /\ \A k \in Index : k # i => st'[k] = st[k]
          /\ Directories' = Directories /\ Alive' \subseteq Alive
      BY <1>6, <2>1, <2>2, OneCluster
    <2>4. InSlurm' = InSlurm
      BY <1>6, <2>1, <2>3 DEF InSlurm, In
    <2>5. TypeOK'
      BY <1>1, <1>4, <1>6, <2>3, <2>4 DEF AutoscaleInv, TypeOK, slurm, history
    <2>6. (Sized /\ UsedKnown /\ NamesUnique)'
      BY <1>1, <1>4, <2>2, <2>3
      DEF AutoscaleInv, Sized, UsedKnown, NamesUnique, history
    <2>7. OnInSlurm'
      BY <1>1, <2>4 DEF AutoscaleInv, OnInSlurm, slurm, history
    <2>8. ShownSafe'
      <3>1. AtRest \ pass.doomed \subseteq AtRest'
        BY <1>6, <2>3 DEF AtRest, In
      <3> QED
        BY <1>1, <1>4, <3>1 DEF AutoscaleInv, ShownSafe, slurm, history
    <2>9. (SeenCounted /\ AliveCounted /\ LimitsKept)'
      <3>1. \A k \in Index : size'[k] <= size[k]
        BY <1>1, Bounds DEF AutoscaleInv, TypeOK
      <3> QED
        BY <1>1, <1>3, <2>3, <2>5, <3>1, CountsKept DEF history
    <2> QED
      BY <2>5, <2>6, <2>7, <2>8, <2>9 DEF AutoscaleInv
  <1> QED
    BY <1>5, <1>6 DEF DeleteCluster

\* A job is passed over, or a cluster is built for it in a directory of its own,
\* within the limit.
LEMMA BuildClusterSafe ==
    ASSUME AutoscaleInv, NEW j \in Jobs, BuildCluster(j)
    PROVE  AutoscaleInv'
  <1> DEFINE i == NextIndex(pass.used)
             n == NumNodes[j]
  <1>1. /\ pass.pc = "build"
        /\ UNCHANGED <<slurm, orphan, lockfile, faults, missed, shown>>
    BY DEF BuildCluster
  <1>2. pass \in PassState /\ pass.used \subseteq Index /\ pass.nodes \in Nat
    BY DEF AutoscaleInv, TypeOK, PassState
  <1>3. Cardinality(pass.used) < MaxClusters => i \in Index /\ i \notin pass.used
    BY <1>2, NextIndexFree
  <1>4. n \in Nat \ {0}
    BY Bounds
  <1>5. IsFiniteSet(pass.used) /\ Cardinality(pass.used) \in Nat
    <2>1. IsFiniteSet(Index)
      BY FS_Interval, Bounds DEF Index
    <2> QED
      BY <1>2, <2>1, FS_Subset, FS_CardinalityType
  <1>6. CASE ~(Cardinality(pass.used) < MaxClusters /\ Fits(j))
    <2>1. UNCHANGED <<st, size, clash>>
      BY <1>6 DEF BuildCluster
    <2>2. /\ pass' \in PassState /\ pass'.pc = pass.pc /\ pass'.nodes = pass.nodes
          /\ pass'.doomed = pass.doomed /\ pass.used \subseteq pass'.used
      <3>1. PICK more \in SUBSET Index :
              pass' = [pass EXCEPT !.todo = @ \ {j}, !.used = @ \cup more]
        <4>1. CASE Cardinality(pass.used) >= MaxClusters
          <5>1. pass' = [pass EXCEPT !.todo = @ \ {j}]
            BY <4>1 DEF BuildCluster
          <5>2. pass' = [pass EXCEPT !.todo = @ \ {j}, !.used = @ \cup {}]
            BY <1>2, <5>1 DEF PassState
          <5> QED
            BY <5>2
        <4>2. CASE Cardinality(pass.used) < MaxClusters
          <5>1. pass' = [[pass EXCEPT !.todo = @ \ {j}] EXCEPT !.used = @ \cup {i}]
            BY <1>5, <1>6, <4>2, Bounds DEF BuildCluster
          <5> HIDE DEF i
          <5>2. pass' = [pass EXCEPT !.todo = @ \ {j}, !.used = @ \cup {i}]
            BY <1>2, <5>1 DEF PassState
          <5> QED
            BY <1>3, <4>2, <5>2
        <4>3. Cardinality(pass.used) >= MaxClusters \/ Cardinality(pass.used) < MaxClusters
          BY <1>5, Bounds
        <4> QED
          BY <4>1, <4>2, <4>3
      <3> QED
        BY <1>2, <3>1 DEF PassState
    <2>3. TypeOK'
      BY <1>1, <2>1, <2>2 DEF AutoscaleInv, TypeOK, slurm, InSlurm, Directories, In
    <2>4. (Sized /\ UsedKnown /\ NamesUnique)'
      BY <1>1, <2>1, <2>2
      DEF AutoscaleInv, Sized, UsedKnown, NamesUnique, Directories, In
    <2>5. (OnInSlurm /\ ShownSafe)'
      BY <1>1, <2>1, <2>2 DEF AutoscaleInv, OnInSlurm, ShownSafe, AtRest,
                  slurm, InSlurm, In
    <2>6. (SeenCounted /\ AliveCounted /\ LimitsKept)'
      BY <1>1, <2>1, <2>2, <2>3, SameClusters
    <2> QED
      BY <2>3, <2>4, <2>5, <2>6 DEF AutoscaleInv
  <1>7. CASE Cardinality(pass.used) < MaxClusters /\ Fits(j)
    <2>1. pass' = [[pass EXCEPT !.todo = @ \ {j}]
                       EXCEPT !.used = @ \cup {i}, !.nodes = pass.nodes + n]
      BY <1>5, <1>7, Bounds DEF BuildCluster, NodesWith
    <2>2. CreateCluster(i, n)
      BY <1>7 DEF BuildCluster
    <2>3. i \in Index /\ i \notin pass.used
      BY <1>3, <1>7
    <2>4. n <= MaxSize /\ pass.nodes + n <= MaxNodes
      BY <1>7 DEF Fits
    <2> HIDE DEF i, n
    <2>5. /\ pass' \in PassState /\ pass'.pc = "build"
          /\ pass'.nodes = pass.nodes + n /\ pass'.doomed = pass.doomed
          /\ pass'.used = pass.used \cup {i}
      <3>1. pass.nodes + n \in Nat
        BY <1>2, <1>4
      <3> QED
        BY <1>1, <1>2, <2>1, <2>3, <3>1 DEF PassState
    <2>6. st[i] = "none" /\ size[i] = 0
      BY <1>1, <2>3
      DEF AutoscaleInv, TypeOK, UsedKnown, Sized, Directories, In
    <2>7. /\ st' = [st EXCEPT ![i] = "copied"] /\ size' = [size EXCEPT ![i] = n]
          /\ clash' = clash
      <3>1. st' = [st EXCEPT ![i] = "copied"] /\ size' = [size EXCEPT ![i] = n]
        BY <2>2, <2>6 DEF CreateCluster
      <3>2. clash' = (clash \/ FALSE)
        BY <2>2, <2>6 DEF CreateCluster
      <3>3. clash \in BOOLEAN
        BY DEF AutoscaleInv, TypeOK
      <3> QED
        BY <3>1, <3>2, <3>3
    <2>8. /\ st' \in [Index -> States] /\ st'[i] = "copied"
          /\ \A k \in Index : k # i => st'[k] = st[k]
          /\ Directories \subseteq Directories'
      BY <2>3, <2>7, OneCluster DEF States
    <2>9. InSlurm' = InSlurm
      BY <2>6, <2>8 DEF InSlurm, In
    <2>10. /\ size' \in [Index -> 0..MaxSize] /\ size'[i] = n
           /\ \A k \in Index : k # i => size'[k] = size[k]
      BY <1>4, <2>3, <2>4, <2>7, Bounds DEF AutoscaleInv, TypeOK
    <2>11. TypeOK'
      BY <1>1, <2>5, <2>7, <2>8, <2>9, <2>10 DEF AutoscaleInv, TypeOK, slurm
    <2>12. (Sized /\ NamesUnique)'
      BY <2>7, <2>8, <2>10 DEF AutoscaleInv, Sized, NamesUnique
    <2>13. UsedKnown'
      <3>1. Directories' \subseteq Directories \cup {i}
        BY <2>8 DEF Directories, In
      <3> QED
        BY <1>1, <2>5, <3>1 DEF AutoscaleInv, UsedKnown
    <2>14. OnInSlurm'
      BY <1>1, <2>9 DEF AutoscaleInv, OnInSlurm, slurm
    <2>15. ShownSafe'
      <3>1. AtRest \subseteq AtRest'
        BY <1>1, <2>6, <2>8 DEF AtRest, In
      <3> QED
        BY <1>1, <2>5, <3>1 DEF AutoscaleInv, ShownSafe, slurm
    <2>16. (SeenCounted /\ AliveCounted /\ LimitsKept)'
      <3> DEFINE A == Alive \ missed
                 B == (Alive \ missed)'
      <3>1. size \in Sizes /\ size' \in Sizes
        BY <2>11 DEF AutoscaleInv, TypeOK, Sizes
      <3>2. A \in SUBSET Index /\ B \in SUBSET (A \cup {i})
        BY <1>1, <2>8 DEF Alive, In
      <3>3. NodesOf(Alive \ missed)' = Count(size', B)
            /\ NodesOf(Alive \ missed) = Count(size, A)
        BY DEF NodesOf, NodeSet, Count, Entries
      <3> HIDE DEF A, B
      <3>4. Count(size', B) <= Count(size, A) + n
        <4>1. size'[i] <= n /\ n \in Nat
          BY <1>4, <2>10
        <4> QED
          BY <2>3, <2>10, <3>1, <3>2, <4>1, CountGrows
      <3>5. B \in SUBSET Index
        BY <2>3, <3>2
      <3>6. Count(size', B) \in Nat /\ Count(size, A) \in Nat
        BY <3>1, <3>2, <3>5, CountType
      <3>7. Count(size, A) <= pass.nodes
        BY <1>1, <3>3 DEF AutoscaleInv, AliveCounted
      <3>8. Count(size', B) <= pass'.nodes /\ pass'.nodes <= MaxNodes
        BY <1>2, <1>4, <2>4, <2>5, <3>4, <3>6, <3>7
      <3>9. Count(size', B) <= MaxNodes
        BY <1>2, <1>4, <2>5, <3>6, <3>8, Bounds
      <3> QED
        BY <2>5, <3>3, <3>8, <3>9 DEF SeenCounted, AliveCounted, LimitsKept
    <2> QED
      BY <2>11, <2>12, <2>13, <2>14, <2>15, <2>16 DEF AutoscaleInv
  <1> QED
    BY <1>6, <1>7

-----------------------------------------------------------------------------
(* Theorems *)

LEMMA NextSafe ==
    ASSUME AutoscaleInv, [Next]_vars
    PROVE  AutoscaleInv'
  <1>1. CASE UNCHANGED vars
    <2>1. TypeOK'
      BY <1>1 DEF vars, slurm, clusters, history, AutoscaleInv, TypeOK, InSlurm,
                  Directories, In
    <2>2. (Sized /\ UsedKnown /\ NamesUnique)'
      BY <1>1 DEF vars, slurm, clusters, history, AutoscaleInv, Sized, UsedKnown,
                  NamesUnique, Directories, In
    <2>3. (OnInSlurm /\ ShownSafe)'
      BY <1>1 DEF vars, slurm, clusters, history, AutoscaleInv, OnInSlurm, ShownSafe, AtRest, InSlurm, In
    <2>4. (SeenCounted /\ AliveCounted /\ LimitsKept)'
      BY <1>1, <2>1, SamePass, SameClusters DEF vars, clusters, history
    <2> QED
      BY <2>1, <2>2, <2>3, <2>4 DEF AutoscaleInv
  <1>2. CASE Slurm
    BY <1>2, SubmitSafe, StartJobSafe, EndJobSafe DEF Slurm
  <1>3. CASE Scripts
    BY <1>3, ProgressSafe, ScriptFailsSafe, ScriptKilledSafe DEF Scripts
  <1>4. CASE \E i \in Index : Age(i) \/ Drain(i)
    BY <1>4, AgeSafe, DrainSafe
  <1>5. CASE StartPass \/ PassStep \/ KillPass
    BY <1>5, PassControlSafe, ReadNodesSafe, ReadIdleTimesSafe, ReadDirectoriesSafe,
       DeleteClusterSafe, BuildClusterSafe DEF PassStep
  <1> QED
    BY <1>1, <1>2, <1>3, <1>4, <1>5 DEF Next

LEMMA AutoscaleInvHolds == Spec => []AutoscaleInv
  <1>1. AutoscaleInv /\ [Next]_vars => AutoscaleInv'
    BY NextSafe
  <1> QED
    BY InitSafe, <1>1, PTL DEF Spec

\* Jobs, clusters and the pass; sizes stay within max_cluster_size.
THEOREM TypeCorrect == Spec => []TypeOK
  <1>1. AutoscaleInv => TypeOK
    BY DEF AutoscaleInv
  <1> QED
    BY AutoscaleInvHolds, <1>1, PTL

\* max_number_nodes is kept over any number of passes, but for clusters that a pass
\* missed between its reads.
THEOREM LimitsKeptHolds == Spec => []LimitsKept
  <1>1. AutoscaleInv => LimitsKept
    BY DEF AutoscaleInv
  <1> QED
    BY AutoscaleInvHolds, <1>1, PTL

\* No cluster is created in the directory of another one.
THEOREM NamesUniqueHolds == Spec => []NamesUnique
  <1>1. AutoscaleInv => NamesUnique
    BY DEF AutoscaleInv
  <1> QED
    BY AutoscaleInvHolds, <1>1, PTL

\* No cluster is deleted under a job that sinfo showed as running on it, for any
\* number of passes, scripts and faults.
THEOREM JobsLostUnseenOnlyHolds == Spec => []JobsLostUnseenOnly
  <1>1. AutoscaleInv => JobsLostUnseenOnly
    BY DEF AutoscaleInv, TypeOK, OnInSlurm, ShownSafe, JobsLostUnseenOnly, AtRest, In,
           Index
  <1> QED
    BY AutoscaleInvHolds, <1>1, PTL

=============================================================================

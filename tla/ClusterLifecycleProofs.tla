------------------------ MODULE ClusterLifecycleProofs ------------------------
(***************************************************************************)
(* Four results about ClusterLifecycle, for any number of processes,        *)
(* directories and retries:                                                 *)
(*   MarkersHaveOwners  the marker of a deletion stays only while one runs  *)
(*                      or after one was killed;                            *)
(*   DeletionExcludes   no resize works on a cluster that is being          *)
(*                      destroyed, outside the gaps;                        *)
(*   NoOrphansHolds     no directory is removed with resources that         *)
(*                      Terraform or resize.py knows of, outside the gaps;  *)
(*   TypeCorrect        the loops of the scripts stay within their counts.  *)
(***************************************************************************)
EXTENDS ClusterLifecycle, TLAPS

\* TypeOK without the bound on attempts, as far as the proofs need it.
ProcRecord == [pc : {"idle", "cd", "claim", "ended"}
                      \cup CreatePCs \cup DestroyPCs \cup ResizePCs,
               g : 0..MaxGen, r : 0..MaxGen, force : BOOLEAN, clean : BOOLEAN,
               gone : BOOLEAN, n : Nat]

Typed ==
    /\ path \in 0..MaxGen
    /\ gen \in 0..MaxGen
    /\ proc \in [Procs -> ProcRecord]

\* The steps of the processes, without the sets they belong to.
Step(p) ==
    \/ CopyTemplate(p) \/ Validate(p) \/ StartBuild(p) \/ Apply(p)
    \/ StartDelete(p) \/ ChangeDirectory(p) \/ Claim(p) \/ Cleanup(p)
    \/ TerraformDestroy(p) \/ CleanupAgain(p) \/ FinishDelete(p) \/ Remove(p)
    \/ StartResize(p) \/ MarkResizing(p) \/ AcquireResizeLock(p)
    \/ p \in Resizers /\ (EnsureNotBeingDestroyed(p) \/ ResizeWork(p))
    \/ UnmarkResizing(p) \/ Kill(p)

\* Every step is the step of a process.
LEMMA NextIsStep == Next => \E p \in Procs : Step(p)
  BY DEF Next, Create, Delete, Resize, Step, Procs

\* The bounds are natural numbers.
LEMMA Bounds == MaxGen \in Nat \ {0} /\ MaxADs \in Nat /\ MaxTries \in Nat
  BY ClusterLifecycleAssumption

\* A new or ended process has the type of a process.
LEMMA FreshType == Fresh("idle") \in ProcRecord /\ Fresh("ended") \in ProcRecord
                    /\ [Fresh("cd") EXCEPT !.force = TRUE] \in ProcRecord
  <1>1. \A pc \in {"idle", "cd", "ended"} : Fresh(pc) \in ProcRecord
    BY Bounds DEF Fresh, ProcRecord
  <1>2. QED BY <1>1 DEF ProcRecord

\* The generations and the processes keep their types.
LEMMA StepTyped == ASSUME Typed, [Next]_vars PROVE Typed'
  <1> USE Bounds, FreshType
  <1>0. CASE UNCHANGED vars
    BY <1>0 DEF vars, Typed
  <1>1. ASSUME NEW p \in Procs, Step(p) PROVE Typed'
    <2> USE <1>1 DEF Typed, Goto, Ends, At, RemoveDirectory
    <2>0. proc[p] \in ProcRecord
      OBVIOUS
    <2> USE <2>0
    <2>1. CASE CopyTemplate(p)
      <3>1. gen + 1 \in 0..MaxGen
        BY <2>1 DEF CopyTemplate
      <3>2. [proc[p] EXCEPT !.pc = "validate", !.g = gen + 1] \in ProcRecord
        BY <3>1 DEF ProcRecord, CreatePCs
      <3>3. QED BY <2>1, <3>1, <3>2 DEF CopyTemplate
    <2>2. CASE Validate(p)
      BY <2>2 DEF Validate, ProcRecord, CreatePCs
    <2>3. CASE StartBuild(p)
      BY <2>3 DEF StartBuild, ProcRecord, CreatePCs
    <2>4. CASE Apply(p)
      <3>1. CASE Ends(p)
        BY <2>4, <3>1 DEF Apply
      <3>2. CASE proc' = [proc EXCEPT ![p].pc = "build", ![p].n = @ + 1]
        BY <2>4, <3>2 DEF Apply, ProcRecord, CreatePCs
      <3>3. CASE proc' = [proc EXCEPT ![p] = [Fresh("cd") EXCEPT !.force = TRUE]]
        BY <2>4, <3>3 DEF Apply
      <3>4. QED BY <2>4, <3>1, <3>2, <3>3 DEF Apply
    <2>5. CASE StartDelete(p)
      <3>1. PICK force \in BOOLEAN :
               proc' = [proc EXCEPT ![p].pc = "cd", ![p].force = force]
        BY <2>5 DEF StartDelete
      <3>2. QED BY <2>5, <3>1 DEF StartDelete, ProcRecord
    <2>6. CASE ChangeDirectory(p)
      BY <2>6 DEF ChangeDirectory, ProcRecord
    <2>7. CASE Claim(p)
      <3>1. Ends(p) \/ Goto(p, "cleanup")
        BY <2>7 DEF Claim
      <3>2. UNCHANGED <<path, gen>>
        BY <2>7 DEF Claim
      <3>3. QED BY <3>1, <3>2 DEF ProcRecord, DestroyPCs
    <2>8. CASE Cleanup(p)
      BY <2>8 DEF Cleanup, ComputeCleanup, ProcRecord, DestroyPCs
    <2>9. CASE TerraformDestroy(p)
      BY <2>9 DEF TerraformDestroy, ProcRecord, DestroyPCs
    <2>10. CASE CleanupAgain(p)
      BY <2>10 DEF CleanupAgain, ComputeCleanup, ProcRecord, DestroyPCs
    <2>11. CASE FinishDelete(p)
      BY <2>11 DEF FinishDelete, ProcRecord, DestroyPCs
    <2>12. CASE Remove(p)
      BY <2>12 DEF Remove
    <2>13. CASE StartResize(p)
      BY <2>13 DEF StartResize, ProcRecord, ResizePCs
    <2>14. CASE MarkResizing(p)
      BY <2>14 DEF MarkResizing, ProcRecord, ResizePCs
    <2>15. CASE AcquireResizeLock(p)
      BY <2>15 DEF AcquireResizeLock, ProcRecord, ResizePCs
    <2>16. CASE EnsureNotBeingDestroyed(p)
      BY <2>16 DEF EnsureNotBeingDestroyed, ProcRecord, ResizePCs
    <2>17. CASE ResizeWork(p)
      BY <2>17 DEF ResizeWork, ProcRecord, ResizePCs
    <2>18. CASE UnmarkResizing(p)
      BY <2>18 DEF UnmarkResizing
    <2>19. CASE Kill(p)
      BY <2>19 DEF Kill
    <2>20. QED
      BY <2>1, <2>2, <2>3, <2>4, <2>5, <2>6, <2>7, <2>8, <2>9, <2>10, <2>11,
         <2>12, <2>13, <2>14, <2>15, <2>16, <2>17, <2>18, <2>19 DEF Step
  <1>2. QED BY <1>0, <1>1, NextIsStep

-----------------------------------------------------------------------------
(* MarkerHasOwner *)

Working(p, g) == proc[p].pc \in DestroyPCs /\ proc[p].g = g

\* A marker is in the directory of the name, and somebody owns it.
MarkerInv ==
    /\ destroying \subseteq {path} \ {0}
    /\ \A g \in destroying : g \in abandoned \/ \E p \in Procs : Working(p, g)

\* Every step preserves MarkerInv.
LEMMA StepMarker == ASSUME Typed, MarkerInv, [Next]_vars PROVE MarkerInv'
  <1>0. CASE UNCHANGED vars
    BY <1>0 DEF vars, MarkerInv, files, Working
  <1>1. ASSUME NEW p \in Procs, Step(p) PROVE MarkerInv'
    <2> USE <1>1
    \* A process that does not destroy before or after its step.
    <2>1. ASSUME /\ proc[p].pc \notin DestroyPCs
                 /\ destroying' \subseteq destroying
                 /\ path' = path \/ destroying' = {}
                 /\ abandoned' = abandoned
                 /\ \A q \in Procs \ {p} : proc'[q] = proc[q]
          PROVE MarkerInv'
      BY <2>1 DEF MarkerInv, Working
    \* A process that goes on destroying the same directory.
    <2>2. ASSUME /\ proc'[p].pc \in DestroyPCs
                 /\ proc'[p].g = proc[p].g
                 /\ destroying' = destroying
                 /\ path' = path
                 /\ abandoned' = abandoned
                 /\ \A q \in Procs \ {p} : proc'[q] = proc[q]
          PROVE MarkerInv'
      BY <2>2 DEF MarkerInv, Working
    <2> USE DEF Typed, Goto, Ends, At, files, cloud
    <2>3. CASE CopyTemplate(p)
      <3>1. destroying = {}
        BY <2>3, Bounds DEF CopyTemplate, MarkerInv
      <3>2. QED BY <2>3, <3>1 DEF CopyTemplate, MarkerInv
    <2>4. CASE Validate(p)
      BY <2>1, <2>4 DEF Validate, MarkerInv, DestroyPCs, RemoveDirectory
    <2>5. CASE StartBuild(p)
      BY <2>1, <2>5 DEF StartBuild, DestroyPCs
    <2>6. CASE Apply(p)
      BY <2>1, <2>6 DEF Apply, DestroyPCs
    <2>7. CASE StartDelete(p)
      BY <2>1, <2>7 DEF StartDelete, DestroyPCs
    <2>8. CASE ChangeDirectory(p)
      BY <2>1, <2>8 DEF ChangeDirectory, DestroyPCs
    <2>9. CASE Claim(p)
      <3>1. CASE Ends(p) /\ UNCHANGED destroying
        BY <2>1, <2>9, <3>1 DEF Claim, DestroyPCs
      <3>2. CASE ~(Ends(p) /\ UNCHANGED destroying)
        <4>1. /\ destroying' = destroying \cup {path} /\ path # 0
              /\ path' = path /\ abandoned' = abandoned
              /\ Working(p, path)'
              /\ \A q \in Procs \ {p} : proc'[q] = proc[q]
          BY <2>9, <3>2 DEF Claim, Home, Working, DestroyPCs, ProcRecord
        <4>2. QED BY <4>1 DEF MarkerInv, Working
      <3>3. QED BY <3>1, <3>2
    <2>10. CASE Cleanup(p)
      BY <2>2, <2>10 DEF Cleanup, ComputeCleanup, DestroyPCs, ProcRecord
    <2>11. CASE TerraformDestroy(p)
      BY <2>2, <2>11 DEF TerraformDestroy, DestroyPCs, ProcRecord
    <2>12. CASE CleanupAgain(p)
      BY <2>2, <2>12 DEF CleanupAgain, ComputeCleanup, DestroyPCs, ProcRecord
    <2>13. CASE FinishDelete(p)
      <3>1. CASE Goto(p, "remove") /\ UNCHANGED destroying
        BY <2>2, <2>13, <3>1 DEF FinishDelete, DestroyPCs, ProcRecord
      <3>2. CASE destroying' = destroying \ {proc[p].g} /\ Ends(p)
        <4>1. \A g \in destroying' : ~Working(p, g)
          BY <3>2 DEF Working
        <4>2. QED BY <2>13, <3>2, <4>1 DEF FinishDelete, MarkerInv, Working
      <3>3. QED BY <2>13, <3>1, <3>2 DEF FinishDelete
    <2>14. CASE Remove(p)
      <3>1. destroying' = {}
        BY <2>14 DEF Remove, RemoveDirectory, MarkerInv
      <3>2. QED BY <3>1 DEF MarkerInv
    <2>15. CASE StartResize(p)
      BY <2>1, <2>15 DEF StartResize, DestroyPCs
    <2>16. CASE MarkResizing(p)
      BY <2>1, <2>16 DEF MarkResizing, DestroyPCs
    <2>17. CASE AcquireResizeLock(p)
      BY <2>1, <2>17 DEF AcquireResizeLock, DestroyPCs
    <2>18. CASE EnsureNotBeingDestroyed(p)
      BY <2>1, <2>18 DEF EnsureNotBeingDestroyed, DestroyPCs
    <2>19. CASE ResizeWork(p)
      BY <2>1, <2>19 DEF ResizeWork, DestroyPCs
    <2>20. CASE UnmarkResizing(p)
      BY <2>1, <2>20 DEF UnmarkResizing, DestroyPCs
    <2>21. CASE Kill(p)
      <3>1. CASE proc[p].pc \notin DestroyPCs
        BY <2>1, <2>21, <3>1 DEF Kill
      <3>2. CASE proc[p].pc \in DestroyPCs
        <4>1. /\ path' = path /\ destroying' = destroying
              /\ abandoned' = abandoned \cup {proc[p].g}
              /\ \A q \in Procs \ {p} : proc'[q] = proc[q]
          BY <2>21, <3>2 DEF Kill
        <4>2. QED BY <4>1 DEF MarkerInv, Working
      <3>3. QED BY <3>1, <3>2
    <2>22. QED
      BY <2>3, <2>4, <2>5, <2>6, <2>7, <2>8, <2>9, <2>10, <2>11, <2>12, <2>13,
         <2>14, <2>15, <2>16, <2>17, <2>18, <2>19, <2>20, <2>21 DEF Step
  <1>2. QED BY <1>0, <1>1, NextIsStep

\* The initial states have the types and no marker.
LEMMA InitTyped == Init => Typed /\ MarkerInv
  BY Bounds, FreshType DEF Init, Typed, MarkerInv

\* However many deletions run and fail, forced or not: currently_destroying is
\* there only while one of them runs, or after one of them was killed.
THEOREM MarkersHaveOwners == Spec => []MarkerHasOwner
  <1>1. Typed /\ MarkerInv /\ [Next]_vars => (Typed /\ MarkerInv)'
    BY StepTyped, StepMarker
  <1>2. MarkerInv => MarkerHasOwner
    BY DEF MarkerInv, MarkerHasOwner, BeingDestroyed, Working
  <1>3. QED
    BY InitTyped, <1>1, <1>2, PTL DEF Spec

-----------------------------------------------------------------------------
(* ResizeExcludesDestroy *)

\* Outside the contested generations a deletion is alone with its directory and
\* keeps the marker as long as the directory has the name, a resize at work
\* holds the lock of its directory, and the two exclude each other.
ExclusionInv ==
    /\ path <= gen
    /\ lock \in [Gens -> Procs \cup {None}]
    /\ \A q \in Procs : proc[q].g <= gen
    /\ \A r \in Resizers : At(r, "work") =>
            /\ proc[r].r \in Gens
            /\ proc[r].r \in contested \/ lock[proc[r].r] = r
    /\ \A d \in Procs : proc[d].pc \in DestroyPCs =>
            /\ proc[d].g # 0
            /\ proc[d].g \notin contested =>
                 /\ proc[d].g = path => path \in destroying
                 /\ \A e \in Procs : proc[e].pc \in DestroyPCs
                                       /\ proc[e].g = proc[d].g => e = d
                 /\ \A r \in Resizers : At(r, "work") => proc[r].r # proc[d].g

\* Only a resizer's own steps and its death touch the locks and its work.
LEMMA StepFrame ==
    ASSUME Typed, NEW p \in Procs, Step(p)
    PROVE  /\ \A q \in Procs \ {p} : proc'[q] = proc[q]
           /\ contested \subseteq contested'
  <1> USE DEF Typed, Goto, Ends, files, cloud
  <1>1. CASE CopyTemplate(p) \/ Validate(p) \/ StartBuild(p) \/ Apply(p)
    BY <1>1 DEF CopyTemplate, Validate, StartBuild, Apply
  <1>2. CASE StartDelete(p) \/ ChangeDirectory(p) \/ Claim(p) \/ Cleanup(p)
    BY <1>2 DEF StartDelete, ChangeDirectory, Claim, Cleanup, ComputeCleanup
  <1>3. CASE TerraformDestroy(p) \/ CleanupAgain(p) \/ FinishDelete(p) \/ Remove(p)
    BY <1>3 DEF TerraformDestroy, CleanupAgain, ComputeCleanup, FinishDelete, Remove
  <1>4. CASE StartResize(p) \/ MarkResizing(p) \/ AcquireResizeLock(p)
    BY <1>4 DEF StartResize, MarkResizing, AcquireResizeLock
  <1>5. CASE EnsureNotBeingDestroyed(p) \/ ResizeWork(p) \/ UnmarkResizing(p)
               \/ Kill(p)
    BY <1>5 DEF EnsureNotBeingDestroyed, ResizeWork, UnmarkResizing, Kill
  <1>6. QED BY <1>1, <1>2, <1>3, <1>4, <1>5 DEF Step

\* A process that neither begins to destroy nor to work on a resize, while
\* the name keeps its directory and every other process keeps its lock.
LEMMA QuietStep ==
    ASSUME Typed, ExclusionInv, NEW p \in Procs, Step(p),
           proc'[p] \in ProcRecord,
           path' <= gen' /\ gen' \in Nat /\ gen <= gen',
           \/ path' = 0 \/ path' = gen + 1
           \/ path' = path /\ destroying' = destroying,
           lock' \in [Gens -> Procs \cup {None}],
           \A q \in Procs \ {p} : \A g \in Gens : lock[g] = q => lock'[g] = q,
           proc'[p].g <= gen',
           proc'[p].pc = "work" => FALSE,
           \/ proc'[p].pc \notin DestroyPCs
           \/ proc[p].pc \in DestroyPCs /\ proc'[p].g = proc[p].g
    PROVE  ExclusionInv'
  <1> USE Bounds, ClusterLifecycleAssumption
  <1>1. /\ \A q \in Procs \ {p} : proc'[q] = proc[q]
        /\ contested \subseteq contested'
    BY StepFrame
  <1>2. \A q \in Procs : proc[q] \in ProcRecord /\ proc[q].g <= gen /\ proc[q].g \in Nat
    BY DEF Typed, ExclusionInv, ProcRecord
  <1>3. \A q \in Procs : proc'[q].g <= gen'
    BY <1>1, <1>2 DEF Typed
  <1>4. \A r \in Resizers : At(r, "work")' =>
            r # p /\ proc'[r] = proc[r] /\ At(r, "work")
    BY <1>1 DEF At, Procs
  <1>5. \A r \in Resizers : At(r, "work")' =>
            /\ proc'[r].r \in Gens
            /\ proc'[r].r \in contested' \/ lock'[proc'[r].r] = r
    BY <1>1, <1>4 DEF ExclusionInv, Procs
  <1>6. \A d \in Procs : proc'[d].pc \in DestroyPCs =>
            proc[d].pc \in DestroyPCs /\ proc'[d].g = proc[d].g
    BY <1>1
  <1>7. ASSUME NEW d \in Procs, proc'[d].pc \in DestroyPCs
        PROVE  /\ proc'[d].g # 0
               /\ proc'[d].g \notin contested' =>
                    /\ proc'[d].g = path' => path' \in destroying'
                    /\ \A e \in Procs : proc'[e].pc \in DestroyPCs
                                          /\ proc'[e].g = proc'[d].g => e = d
                    /\ \A r \in Resizers : At(r, "work")' => proc'[r].r # proc'[d].g
    <2>1. proc[d].pc \in DestroyPCs /\ proc'[d].g = proc[d].g /\ proc[d].g # 0
      BY <1>6, <1>7 DEF ExclusionInv
    <2>2. ASSUME proc'[d].g \notin contested', proc'[d].g = path'
          PROVE  path' \in destroying'
      <3>0. proc[d].g \in Nat /\ proc[d].g <= gen /\ proc[d].g # gen + 1
        BY <1>2 DEF Typed
      <3>1. path' = path /\ destroying' = destroying
        BY <2>1, <2>2, <3>0
      <3>2. path \in destroying
        BY <1>1, <2>1, <2>2, <3>1 DEF ExclusionInv
      <3>3. QED BY <3>1, <3>2 DEF Typed
    <2>3. ASSUME proc'[d].g \notin contested', NEW e \in Procs,
                 proc'[e].pc \in DestroyPCs, proc'[e].g = proc'[d].g
          PROVE  e = d
      BY <1>1, <1>6, <2>1, <2>3 DEF ExclusionInv
    <2>4. ASSUME proc'[d].g \notin contested', NEW r \in Resizers, At(r, "work")'
          PROVE  proc'[r].r # proc'[d].g
      BY <1>1, <1>4, <2>1, <2>4 DEF ExclusionInv
    <2>5. QED BY <2>1, <2>2, <2>3, <2>4
  <1>8. QED BY <1>3, <1>5, <1>7 DEF ExclusionInv

\* A deletion that claims its directory has the lock free and sets the marker.
LEMMA ClaimExcludes ==
    ASSUME Typed, ExclusionInv, NEW p \in Procs, Claim(p),
           ~(Ends(p) /\ UNCHANGED destroying)
    PROVE  ExclusionInv'
  <1> USE Bounds, ClusterLifecycleAssumption
  <1> DEFINE g == proc[p].g
  <1>1. proc[p] \in ProcRecord /\ g \in 0..MaxGen /\ g <= gen /\ path \in 0..MaxGen
    BY DEF Typed, ProcRecord, ExclusionInv
  <1>2. /\ g = path /\ path # 0 /\ lock[g] = None
        /\ destroying' = destroying \cup {g}
        /\ proc' = [proc EXCEPT ![p].pc = "cleanup"]
        /\ contested' = IF g \in BeingDestroyed \cup BeingCreated
                        THEN contested \cup {g} ELSE contested
        /\ UNCHANGED <<path, gen, lock>>
        /\ proc[p].pc = "claim"
    BY DEF Claim, Home, Goto, At
  <1>3. /\ proc'[p].pc = "cleanup" /\ proc'[p].g = g
        /\ \A q \in Procs \ {p} : proc'[q] = proc[q]
    BY <1>1, <1>2 DEF Typed, ProcRecord
  <1>4. contested \subseteq contested' /\ g \in Gens
    BY <1>1, <1>2 DEF Gens
  <1>5. \A q \in Procs : proc'[q].g <= gen'
    BY <1>1, <1>2, <1>3 DEF ExclusionInv
  <1>6. \A r \in Resizers : At(r, "work")' =>
            /\ At(r, "work") /\ proc'[r] = proc[r] /\ proc[r].r \in Gens
            /\ proc[r].r \in contested' \/ lock'[proc[r].r] = r
    BY <1>2, <1>3, <1>4 DEF ExclusionInv, At, Procs
  <1>7. ASSUME NEW d \in Procs, proc'[d].pc \in DestroyPCs
        PROVE  /\ proc'[d].g # 0
               /\ proc'[d].g \notin contested' =>
                    /\ proc'[d].g = path' => path' \in destroying'
                    /\ \A e \in Procs : proc'[e].pc \in DestroyPCs
                                          /\ proc'[e].g = proc'[d].g => e = d
                    /\ \A r \in Resizers : At(r, "work")' => proc'[r].r # proc'[d].g
    <2>1. path' \in destroying'
      BY <1>2
    <2>2. proc'[d].g = proc[d].g /\ (d # p => proc[d].pc \in DestroyPCs)
      BY <1>3, <1>7
    <2>3. proc'[d].g # 0
      BY <1>2, <1>7, <2>2 DEF ExclusionInv
    <2>4. ASSUME proc'[d].g \notin contested', NEW e \in Procs,
                 proc'[e].pc \in DestroyPCs, proc'[e].g = proc'[d].g
          PROVE  e = d
      <3>1. proc'[e].g = proc[e].g /\ (e # p => proc[e].pc \in DestroyPCs)
        BY <1>3, <2>4
      <3>2. \A q \in Procs : proc[q].pc \in DestroyPCs /\ proc[q].g = g
                               => g \in contested'
        BY <1>2 DEF BeingDestroyed
      <3>3. CASE d = p /\ e # p
        BY <2>2, <2>4, <3>1, <3>2, <3>3
      <3>6. CASE e = p /\ d # p
        BY <2>2, <2>4, <3>1, <3>2, <3>6
      <3>4. CASE d # p /\ e # p
        BY <1>4, <2>2, <2>4, <3>1, <3>4 DEF ExclusionInv
      <3>5. QED BY <3>3, <3>4, <3>6
    <2>5. ASSUME proc'[d].g \notin contested', NEW r \in Resizers, At(r, "work")'
          PROVE  proc'[r].r # proc'[d].g
      <3>1. CASE d = p
        BY <1>2, <1>6, <2>2, <2>5, <3>1 DEF Procs
      <3>2. CASE d # p
        BY <1>4, <1>6, <2>2, <2>5, <3>2 DEF ExclusionInv
      <3>3. QED BY <3>1, <3>2
    <2>6. QED BY <2>1, <2>3, <2>4, <2>5
  <1>8. QED BY <1>2, <1>5, <1>6, <1>7 DEF ExclusionInv

\* A resize that goes to work has seen no marker under the name.
LEMMA WorkExcludes ==
    ASSUME Typed, ExclusionInv, NEW p \in Resizers, EnsureNotBeingDestroyed(p),
           path \in inventory \ destroying, path # 0
    PROVE  ExclusionInv'
  <1> USE Bounds, ClusterLifecycleAssumption
  <1>1. /\ p \in Procs /\ proc[p] \in ProcRecord /\ path \in Gens /\ path <= gen
        /\ proc[p].g <= gen
    BY DEF Typed, Procs, Gens, ExclusionInv
  <1>2. /\ proc' = [proc EXCEPT ![p].pc = "work", ![p].r = path]
        /\ contested' = IF lock[path] = p THEN contested
                                          ELSE contested \cup {path}
        /\ UNCHANGED <<path, gen, lock, destroying>>
    BY DEF EnsureNotBeingDestroyed, files
  <1>3. /\ proc'[p].pc = "work" /\ proc'[p].r = path /\ proc'[p].g = proc[p].g
        /\ \A q \in Procs \ {p} : proc'[q] = proc[q]
    BY <1>1, <1>2 DEF Typed, ProcRecord
  <1>4. contested \subseteq contested' /\ "work" \notin DestroyPCs
    BY <1>2 DEF DestroyPCs
  <1>5. \A q \in Procs : proc'[q].g <= gen'
    <2>1. \A q \in Procs : proc'[q].g = proc[q].g
      BY <1>3
    <2>2. QED BY <1>2, <2>1 DEF ExclusionInv
  <1>6. \A r \in Resizers : At(r, "work")' =>
            /\ proc'[r].r \in Gens
            /\ proc'[r].r \in contested' \/ lock'[proc'[r].r] = r
    <2>1. path \in contested' \/ lock'[path] = p
      BY <1>2
    <2>2. QED BY <1>1, <1>2, <1>3, <1>4, <2>1 DEF ExclusionInv, At, Procs
  <1>7. ASSUME NEW d \in Procs, proc'[d].pc \in DestroyPCs
        PROVE  /\ proc'[d].g # 0
               /\ proc'[d].g \notin contested' =>
                    /\ proc'[d].g = path' => path' \in destroying'
                    /\ \A e \in Procs : proc'[e].pc \in DestroyPCs
                                          /\ proc'[e].g = proc'[d].g => e = d
                    /\ \A r \in Resizers : At(r, "work")' => proc'[r].r # proc'[d].g
    <2>1. d # p /\ proc'[d] = proc[d]
      BY <1>3, <1>4, <1>7
    <2>2. proc[d].g # 0
      BY <1>7, <2>1 DEF ExclusionInv
    <2>3. ASSUME proc[d].g \notin contested'
          PROVE  /\ proc[d].g # path
                 /\ \A e \in Procs : proc'[e].pc \in DestroyPCs
                                       /\ proc'[e].g = proc[d].g => e = d
                 /\ \A r \in Resizers : At(r, "work")' => proc'[r].r # proc[d].g
      <3>1. proc[d].g # path
        BY <1>4, <1>7, <2>1, <2>3 DEF ExclusionInv
      <3>2. \A e \in Procs : proc'[e].pc \in DestroyPCs
                               /\ proc'[e].g = proc[d].g => e = d
        BY <1>3, <1>4, <1>7, <2>1, <2>3 DEF ExclusionInv
      <3>3. \A r \in Resizers : At(r, "work")' => proc'[r].r # proc[d].g
        BY <1>3, <1>4, <1>7, <2>1, <2>3, <3>1 DEF ExclusionInv, At, Procs
      <3>4. QED BY <3>1, <3>2, <3>3
    <2>4. QED BY <1>2, <2>1, <2>2, <2>3
  <1>8. QED BY <1>1, <1>2, <1>5, <1>6, <1>7 DEF ExclusionInv

\* A deletion that failed takes the marker away: it is not destroying any more.
LEMMA FailedDeletionExcludes ==
    ASSUME Typed, ExclusionInv, NEW p \in Procs, FinishDelete(p), Ends(p)
    PROVE  ExclusionInv'
  <1> USE Bounds, ClusterLifecycleAssumption
  <1> DEFINE g == proc[p].g
  <1>1. /\ proc[p].pc = "finish" /\ proc[p] \in ProcRecord
        /\ destroying \ {g} \subseteq destroying'
        /\ UNCHANGED <<path, gen, lock, contested>>
    BY DEF FinishDelete, Typed, At
  <1>2. /\ proc'[p].pc = "ended" /\ proc'[p].g = 0
        /\ \A q \in Procs \ {p} : proc'[q] = proc[q]
    BY DEF Ends, Fresh, Typed
  <1>3. \A q \in Procs : proc'[q].g <= gen'
    BY <1>1, <1>2 DEF ExclusionInv, Typed
  <1>4. \A r \in Resizers : At(r, "work")' => proc'[r] = proc[r] /\ At(r, "work")
    BY <1>2 DEF At, Procs
  <1>5. \A d \in Procs : proc'[d].pc \in DestroyPCs =>
            d # p /\ proc'[d] = proc[d] /\ proc[d].pc \in DestroyPCs
    BY <1>2 DEF DestroyPCs
  <1>6. \A d \in Procs : proc'[d].pc \in DestroyPCs /\ proc[d].g = g
                           => g \in contested
    BY <1>1, <1>5 DEF ExclusionInv, DestroyPCs
  <1>7. ASSUME NEW d \in Procs, proc'[d].pc \in DestroyPCs
        PROVE  /\ proc'[d].g # 0
               /\ proc'[d].g \notin contested' =>
                    /\ proc'[d].g = path' => path' \in destroying'
                    /\ \A e \in Procs : proc'[e].pc \in DestroyPCs
                                          /\ proc'[e].g = proc'[d].g => e = d
                    /\ \A r \in Resizers : At(r, "work")' => proc'[r].r # proc'[d].g
    BY <1>1, <1>4, <1>5, <1>6, <1>7 DEF ExclusionInv
  <1>8. QED BY <1>1, <1>3, <1>4, <1>7 DEF ExclusionInv

\* Every step preserves ExclusionInv.
LEMMA StepExclusion ==
    ASSUME Typed, ExclusionInv, 0 \notin inventory, Next PROVE ExclusionInv'
  <1> USE Bounds, ClusterLifecycleAssumption
  <1>0. Typed'
    BY StepTyped
  <1>1. ASSUME NEW p \in Procs, Step(p) PROVE ExclusionInv'
    <2> USE <1>1
    <2>0. /\ proc[p] \in ProcRecord /\ proc'[p] \in ProcRecord
          /\ gen \in Nat /\ gen' \in Nat /\ path \in Nat /\ path <= gen
          /\ lock \in [Gens -> Procs \cup {None}]
          /\ proc[p].g <= gen /\ proc[p].g \in Nat
      BY <1>0 DEF Typed, ExclusionInv, ProcRecord
    <2> USE <2>0
    \* A step that leaves the directories and the locks alone.
    <2>1. ASSUME UNCHANGED <<path, gen, destroying, lock>>,
                 proc'[p].g <= gen, proc'[p].pc # "work",
                 \/ proc'[p].pc \notin DestroyPCs
                 \/ proc[p].pc \in DestroyPCs /\ proc'[p].g = proc[p].g
          PROVE  ExclusionInv'
      BY <2>1, QuietStep
    \* A process that ends and gives its lock back.
    <2>2. ASSUME UNCHANGED <<path, gen, destroying>>, Release(p),
                 proc'[p].g <= gen, proc'[p].pc \notin DestroyPCs \cup {"work"}
          PROVE  ExclusionInv'
      <3>1. /\ lock' \in [Gens -> Procs \cup {None}]
            /\ \A q \in Procs \ {p} : \A g \in Gens : lock[g] = q => lock'[g] = q
        BY <2>2 DEF Release
      <3>2. QED BY <2>2, <3>1, QuietStep
    \* A process that removes the directory and ends.
    <2>3. ASSUME RemoveDirectory, Ends(p), UNCHANGED <<gen, lock>>
          PROVE  ExclusionInv'
      <3>1. path' = 0 /\ proc'[p].pc = "ended" /\ proc'[p].g = 0
        BY <2>3 DEF RemoveDirectory, Ends, Fresh, Typed
      <3>2. gen' = gen /\ lock' = lock /\ path' <= gen' /\ 0 <= gen
        BY <2>3, <3>1
      <3>3. proc'[p].pc \notin DestroyPCs \cup {"work"} /\ proc'[p].g <= gen'
        BY <3>1, <3>2 DEF DestroyPCs
      <3>4. /\ path' <= gen' /\ gen' \in Nat /\ gen <= gen'
            /\ lock' \in [Gens -> Procs \cup {None}]
            /\ \A q \in Procs \ {p} : \A g \in Gens : lock[g] = q => lock'[g] = q
        BY <3>1, <3>2
      <3>5. /\ proc'[p].pc = "work" => FALSE
            /\ proc'[p].pc \notin DestroyPCs
        BY <3>3
      <3>6. QED BY <3>1, <3>3, <3>4, <3>5, QuietStep
    <2> USE DEF Goto, Ends, At, files, Typed
    <2>4. CASE CopyTemplate(p)
      <3>1. /\ path' = gen + 1 /\ gen' = gen + 1 /\ UNCHANGED <<lock, destroying>>
            /\ proc'[p].pc = "validate" /\ proc'[p].g = gen + 1
        BY <2>4 DEF CopyTemplate, ProcRecord
      <3>2. QED BY <3>1, QuietStep DEF DestroyPCs
    <2>5. CASE Validate(p)
      <3>1. CASE Goto(p, "build") /\ UNCHANGED <<path, files>>
        BY <2>1, <2>5, <3>1 DEF Validate, ProcRecord, DestroyPCs
      <3>2. CASE RemoveDirectory /\ Ends(p)
        BY <2>3, <2>5, <3>2 DEF Validate
      <3>3. QED BY <2>5, <3>1, <3>2 DEF Validate
    <2>6. CASE StartBuild(p)
      BY <2>1, <2>6 DEF StartBuild, ProcRecord, DestroyPCs
    <2>7. CASE Apply(p)
      <3>1. /\ proc'[p].pc \in {"ended", "build", "cd"}
            /\ proc'[p].g \in {0, proc[p].g}
        BY <2>7 DEF Apply, ProcRecord, Fresh
      <3>2. QED BY <2>1, <2>7, <3>1 DEF Apply, DestroyPCs
    <2>8. CASE StartDelete(p)
      <3>1. proc'[p].pc = "cd" /\ proc'[p].g = proc[p].g
        BY <2>8 DEF StartDelete, ProcRecord
      <3>2. QED BY <2>1, <2>8, <3>1 DEF StartDelete, DestroyPCs
    <2>9. CASE ChangeDirectory(p)
      <3>1. proc'[p].pc \in {"ended", "claim"} /\ proc'[p].g \in {0, path}
        BY <2>9 DEF ChangeDirectory, ProcRecord, Fresh
      <3>2. QED BY <2>1, <2>9, <3>1 DEF ChangeDirectory, DestroyPCs
    <2>10. CASE Claim(p)
      <3>1. CASE Ends(p) /\ UNCHANGED destroying
        BY <2>1, <2>10, <3>1 DEF Claim, Fresh, DestroyPCs
      <3>2. QED BY <2>10, <3>1, ClaimExcludes
    <2>11. CASE Cleanup(p)
      BY <2>1, <2>11 DEF Cleanup, ComputeCleanup, ProcRecord, DestroyPCs
    <2>12. CASE TerraformDestroy(p)
      BY <2>1, <2>12 DEF TerraformDestroy, ProcRecord, DestroyPCs
    <2>13. CASE CleanupAgain(p)
      BY <2>1, <2>13 DEF CleanupAgain, ComputeCleanup, ProcRecord, DestroyPCs
    <2>14. CASE FinishDelete(p)
      <3>1. CASE Goto(p, "remove") /\ UNCHANGED destroying
        BY <2>1, <2>14, <3>1 DEF FinishDelete, ProcRecord, DestroyPCs
      <3>2. CASE Ends(p)
        BY <2>14, <3>2, FailedDeletionExcludes
      <3>3. QED BY <2>14, <3>1, <3>2 DEF FinishDelete
    <2>15. CASE Remove(p)
      BY <2>3, <2>15 DEF Remove
    <2>16. CASE StartResize(p)
      <3>1. proc'[p].pc \in {"ended", "mark"} /\ proc'[p].g \in {0, path}
        BY <2>16 DEF StartResize, ProcRecord, Fresh
      <3>2. QED BY <2>1, <2>16, <3>1 DEF StartResize, DestroyPCs
    <2>17. CASE MarkResizing(p)
      <3>1. proc'[p].pc = "lock" /\ proc'[p].g = proc[p].g
        BY <2>17 DEF MarkResizing, ProcRecord
      <3>2. QED BY <2>1, <2>17, <3>1 DEF MarkResizing, DestroyPCs
    <2>18. CASE AcquireResizeLock(p)
      <3>1. /\ proc'[p].pc \in {"check", "unmark"} /\ proc'[p].g = proc[p].g
            /\ UNCHANGED <<path, gen, destroying>>
        BY <2>18 DEF AcquireResizeLock, ProcRecord
      <3>2. /\ lock' \in [Gens -> Procs \cup {None}]
            /\ \A q \in Procs \ {p} : \A g \in Gens : lock[g] = q => lock'[g] = q
        BY <2>18 DEF AcquireResizeLock, Gens
      <3>3. QED BY <3>1, <3>2, QuietStep DEF DestroyPCs
    <2>19. CASE p \in Resizers /\ EnsureNotBeingDestroyed(p)
      <3>1. CASE path \in inventory \ destroying
        BY <2>19, <3>1, WorkExcludes
      <3>2. CASE path \notin inventory \ destroying
        BY <2>2, <2>19, <3>2 DEF EnsureNotBeingDestroyed, ProcRecord, DestroyPCs
      <3>3. QED BY <3>1, <3>2
    <2>20. CASE ResizeWork(p)
      BY <2>2, <2>20 DEF ResizeWork, ProcRecord, DestroyPCs
    <2>21. CASE UnmarkResizing(p)
      <3>1. proc'[p].pc = "ended" /\ proc'[p].g = 0
        BY <2>21 DEF UnmarkResizing, Fresh
      <3>2. QED BY <2>1, <2>21, <3>1 DEF UnmarkResizing, DestroyPCs
    <2>22. CASE Kill(p)
      <3>1. proc'[p].pc = "ended" /\ proc'[p].g = 0
        BY <2>22 DEF Kill, Fresh
      <3>2. QED BY <2>2, <2>22, <3>1 DEF Kill, DestroyPCs
    <2>23. QED
      BY <2>4, <2>5, <2>6, <2>7, <2>8, <2>9, <2>10, <2>11, <2>12, <2>13, <2>14,
         <2>15, <2>16, <2>17, <2>18, <2>19, <2>20, <2>21, <2>22 DEF Step
  <1>2. QED BY <1>1, NextIsStep

\* A file belongs to a directory.
LEMMA StepInventory ==
    ASSUME 0 \notin inventory, [Next]_vars PROVE 0 \notin inventory'
  <1>0. CASE UNCHANGED vars
    BY <1>0 DEF vars, files
  <1>1. ASSUME NEW p \in Procs, Step(p) PROVE 0 \notin inventory'
    BY <1>1 DEF Step, CopyTemplate, Validate, StartBuild, Apply, StartDelete,
       ChangeDirectory, Claim, Cleanup, TerraformDestroy, CleanupAgain,
       FinishDelete, Remove, RemoveDirectory, StartResize, MarkResizing,
       AcquireResizeLock, EnsureNotBeingDestroyed, ResizeWork, UnmarkResizing,
       Kill, Home, files
  <1>2. QED BY <1>0, <1>1, NextIsStep

\* For any number of creations, deletions, resizes and kills, and however often
\* the name is used again: resize.py works on a cluster that delete_cluster.sh
\* is destroying only after the processes met in one of the gaps.
THEOREM DeletionExcludes == Spec => []ResizeExcludesDestroy
  <1> DEFINE I == Typed /\ ExclusionInv /\ 0 \notin inventory
  <1>1. Init => I
    <2>1. Init => ExclusionInv /\ 0 \notin inventory
      BY Bounds DEF Init, ExclusionInv, At, Fresh, DestroyPCs, Procs, Gens
    <2>2. QED BY <2>1, InitTyped
  <1>2. I /\ [Next]_vars => I'
    <2> SUFFICES ASSUME I, [Next]_vars PROVE I'
      OBVIOUS
    <2>1. CASE UNCHANGED vars
      BY <2>1, StepTyped, StepInventory DEF vars, files, ExclusionInv, At
    <2>2. CASE Next
      BY <2>2, StepTyped, StepInventory, StepExclusion
    <2>3. QED BY <2>1, <2>2
  <1>3. I => ResizeExcludesDestroy
    BY DEF ExclusionInv, ResizeExcludesDestroy, BeingDestroyed, BeingResized, Procs
  <1>4. QED BY <1>1, <1>2, <1>3, PTL DEF Spec

-----------------------------------------------------------------------------
(* NoOrphans *)

\* The inventory is in the directory that has the name.
FilesAtHome == inventory \subseteq {path} \ {0}

\* The results of a deletion belong to a deletion that runs.
StatusFresh ==
    \A p \in Procs : proc[p].pc \notin DestroyPCs => ~proc[p].gone /\ ~proc[p].clean

\* Every resource is in the directory that has the name, an instance that
\* Terraform does not know of is there only with an inventory, and one that is
\* in a Compute Cluster keeps Terraform from deleting the cluster.
KeptAtHome ==
    /\ managed \cup extra \subseteq {path} \ {0}
    /\ extra \subseteq inventory
    /\ extra \cap ComputeGens \subseteq managed

\* Creations and deletions are at work on the directory that has the name, and
\* so are the resizes, which need its inventory.
AtHome ==
    \A p \in Procs :
        /\ proc[p].pc \in CreatePCs \cup DestroyPCs => proc[p].g = path /\ path # 0
        /\ p \in Resizers /\ At(p, "work") => proc[p].r = path /\ path \in inventory

\* A creation that validates has made nothing, and the results that a deletion
\* keeps are those of the directory now.
StatusTrue ==
    \A p \in Procs :
        /\ At(p, "validate") => path \notin managed \cup inventory
        /\ proc[p].pc \in DestroyPCs /\ proc[p].gone => path \notin managed
        /\ proc[p].pc \in DestroyPCs /\ proc[p].clean => path \notin extra
        /\ At(p, "remove") => proc[p].gone /\ proc[p].clean

\* A creation is alone.
CreatesAlone ==
    \A p, q \in Procs :
        proc[p].pc \in CreatePCs /\ proc[q].pc \in CreatePCs \cup DestroyPCs => p = q

\* What makes NoOrphans inductive: as long as none of the gaps was met, a
\* deletion that removes the directory is alone with it, and what its results
\* say is true.
SoleOwner ==
    contested = {} => KeptAtHome /\ AtHome /\ StatusTrue /\ CreatesAlone

\* A deletion has the directory that it destroys for itself.
LEMMA DestroysAlone ==
    ASSUME ExclusionInv, SoleOwner, contested = {}, NEW d \in Procs,
           proc[d].pc \in DestroyPCs
    PROVE  /\ \A q \in Procs : proc[q].pc \in CreatePCs \cup DestroyPCs => q = d
           /\ \A r \in Resizers : ~At(r, "work")
  <1>1. proc[d].g = path /\ path # 0
    BY DEF SoleOwner, AtHome
  <1>2. \A q \in Procs : proc[q].pc \in DestroyPCs => q = d
    BY <1>1 DEF ExclusionInv, SoleOwner, AtHome
  <1>3. \A q \in Procs : proc[q].pc \in CreatePCs => q = d
    BY DEF SoleOwner, CreatesAlone
  <1>4. \A r \in Resizers : ~At(r, "work")
    BY <1>1 DEF ExclusionInv, SoleOwner, AtHome, Procs
  <1>5. QED BY <1>2, <1>3, <1>4

\* The inventory stays with the directory.
LEMMA StepFilesAtHome == ASSUME FilesAtHome, [Next]_vars PROVE FilesAtHome'
  <1> USE DEF FilesAtHome, files
  <1>1. CASE UNCHANGED vars
    BY <1>1 DEF vars
  <1>2. ASSUME NEW p \in Procs, Step(p) PROVE FilesAtHome'
    <2>1. CASE path = 0
      BY <2>1, <1>2 DEF Step, CopyTemplate, Validate, StartBuild, Apply, StartDelete,
         ChangeDirectory, Claim, Cleanup, TerraformDestroy, CleanupAgain,
         FinishDelete, Remove, RemoveDirectory, StartResize, MarkResizing,
         AcquireResizeLock, EnsureNotBeingDestroyed, ResizeWork, UnmarkResizing,
         Kill, Home
    <2>2. CASE path # 0
      BY <2>2, <1>2 DEF Step, CopyTemplate, Validate, StartBuild, Apply, StartDelete,
         ChangeDirectory, Claim, Cleanup, TerraformDestroy, CleanupAgain,
         FinishDelete, Remove, RemoveDirectory, StartResize, MarkResizing,
         AcquireResizeLock, EnsureNotBeingDestroyed, ResizeWork, UnmarkResizing,
         Kill, Home
    <2>3. QED BY <2>1, <2>2
  <1>3. QED BY <1>1, <1>2, NextIsStep

\* A process has no results before it destroys, and none afterwards.
LEMMA StepStatusFresh ==
    ASSUME Typed, StatusFresh, NEW p \in Procs, Step(p) PROVE StatusFresh'
  <1> USE DEF Typed, Goto, Ends, At, Fresh, ProcRecord, DestroyPCs
  <1>0. /\ \A q \in Procs \ {p} : proc'[q] = proc[q]
        /\ proc[p].pc \notin DestroyPCs => ~proc[p].gone /\ ~proc[p].clean
        /\ proc[p] \in ProcRecord
    BY StepFrame DEF StatusFresh
  <1> SUFFICES proc'[p].pc \notin DestroyPCs => ~proc'[p].gone /\ ~proc'[p].clean
    BY <1>0 DEF StatusFresh
  <1>1. CASE CopyTemplate(p) \/ Validate(p) \/ StartBuild(p)
    BY <1>0, <1>1 DEF CopyTemplate, Validate, StartBuild
  <1>2. CASE Apply(p)
    BY <1>0, <1>2 DEF Apply
  <1>3. CASE StartDelete(p) \/ ChangeDirectory(p) \/ Claim(p)
    BY <1>0, <1>3 DEF StartDelete, ChangeDirectory, Claim
  <1>4. CASE Cleanup(p) \/ TerraformDestroy(p)
    BY <1>0, <1>4 DEF Cleanup, ComputeCleanup, TerraformDestroy
  <1>5. CASE CleanupAgain(p) \/ FinishDelete(p) \/ Remove(p)
    BY <1>0, <1>5 DEF CleanupAgain, ComputeCleanup, FinishDelete, Remove
  <1>6. CASE StartResize(p) \/ MarkResizing(p) \/ AcquireResizeLock(p)
    BY <1>0, <1>6 DEF StartResize, MarkResizing, AcquireResizeLock
  <1>7. CASE EnsureNotBeingDestroyed(p) \/ ResizeWork(p) \/ UnmarkResizing(p)
               \/ Kill(p)
    BY <1>0, <1>7 DEF EnsureNotBeingDestroyed, ResizeWork, UnmarkResizing, Kill
  <1>8. QED BY <1>1, <1>2, <1>3, <1>4, <1>5, <1>6, <1>7 DEF Step

\* A step that makes no resource and no directory, and begins neither a
\* creation nor a deletion nor the work of a resize.
LEMMA QuietOwner ==
    ASSUME Typed, SoleOwner, NEW p \in Procs,
           contested \subseteq contested',
           \A q \in Procs \ {p} : proc'[q] = proc[q],
           path' = path, inventory' = inventory,
           managed' \subseteq managed, extra' \subseteq extra,
           managed \cap extra' \cap ComputeGens \subseteq managed',
           proc'[p].pc \notin {"validate", "work"},
           \/ proc'[p].pc \notin CreatePCs
           \/ proc[p].pc \in CreatePCs /\ proc'[p].g = proc[p].g,
           \/ proc'[p].pc \notin DestroyPCs
           \/ proc[p].pc \in DestroyPCs /\ proc'[p].g = proc[p].g,
           proc'[p].gone => proc[p].gone \/ path \notin managed',
           proc'[p].clean => proc[p].clean \/ path \notin extra',
           proc'[p].pc = "remove" => proc'[p].gone /\ proc'[p].clean
    PROVE  SoleOwner'
  <1> SUFFICES ASSUME contested' = {}
               PROVE  (KeptAtHome /\ AtHome /\ StatusTrue /\ CreatesAlone)'
    BY DEF SoleOwner
  <1>0. contested = {} /\ KeptAtHome /\ AtHome /\ StatusTrue /\ CreatesAlone
    BY DEF SoleOwner
  <1>1. KeptAtHome'
    BY <1>0 DEF KeptAtHome
  <1>2. AtHome'
    BY <1>0 DEF AtHome, At, CreatePCs, DestroyPCs, Procs
  <1>3. StatusTrue'
    <2>1. ASSUME NEW q \in Procs, At(q, "validate")'
          PROVE  path' \notin managed' \cup inventory'
      BY <1>0, <2>1 DEF StatusTrue, At
    <2>2. ASSUME NEW q \in Procs, (proc[q].pc \in DestroyPCs)', proc'[q].gone
          PROVE  path' \notin managed'
      BY <1>0, <2>2 DEF StatusTrue, DestroyPCs
    <2>3. ASSUME NEW q \in Procs, (proc[q].pc \in DestroyPCs)', proc'[q].clean
          PROVE  path' \notin extra'
      BY <1>0, <2>3 DEF StatusTrue, DestroyPCs
    <2>4. ASSUME NEW q \in Procs, At(q, "remove")'
          PROVE  proc'[q].gone /\ proc'[q].clean
      BY <1>0, <2>4 DEF StatusTrue, At
    <2>5. QED BY <2>1, <2>2, <2>3, <2>4 DEF StatusTrue, At
  <1>4. CreatesAlone'
    BY <1>0 DEF CreatesAlone, CreatePCs, DestroyPCs
  <1>5. QED BY <1>1, <1>2, <1>3, <1>4

\* A process that removes a directory without resources, and ends.
LEMMA RemovalOwner ==
    ASSUME Typed, FilesAtHome, SoleOwner, NEW p \in Procs,
           contested \subseteq contested',
           \A q \in Procs \ {p} : proc'[q] = proc[q],
           RemoveDirectory, Ends(p), UNCHANGED cloud,
           contested = {} =>
               /\ path \notin managed \cup extra
               /\ \A q \in Procs : proc[q].pc \in CreatePCs \cup DestroyPCs => q = p
               /\ \A r \in Resizers : ~At(r, "work")
    PROVE  SoleOwner'
  <1> SUFFICES ASSUME contested' = {}
               PROVE  (KeptAtHome /\ AtHome /\ StatusTrue /\ CreatesAlone)'
    BY DEF SoleOwner
  <1>0. contested = {} /\ KeptAtHome /\ AtHome /\ StatusTrue /\ CreatesAlone
    BY DEF SoleOwner
  <1>1. proc'[p].pc = "ended" /\ path' = 0 /\ managed' = {} /\ extra' = {}
    BY <1>0 DEF Ends, Fresh, Typed, RemoveDirectory, cloud, KeptAtHome
  <1>2. \A q \in Procs : proc'[q].pc \notin CreatePCs \cup DestroyPCs
    BY <1>0, <1>1 DEF CreatePCs, DestroyPCs
  <1>3. \A r \in Resizers : ~At(r, "work")'
    BY <1>0, <1>1 DEF At, Procs
  <1>4. KeptAtHome'
    BY <1>1 DEF KeptAtHome
  <1>5. \A q \in Procs : proc'[q].pc \notin {"validate", "remove"}
    BY <1>2 DEF CreatePCs, DestroyPCs
  <1>6. QED
    BY <1>2, <1>3, <1>4, <1>5 DEF AtHome, StatusTrue, CreatesAlone, At

\* A creation makes a directory, which nobody else knows and which is empty.
LEMMA CopyTemplateOwner ==
    ASSUME Typed, FilesAtHome, SoleOwner, NEW p \in Procs, CopyTemplate(p)
    PROVE  SoleOwner'
  <1> SUFFICES ASSUME contested' = {}
               PROVE  (KeptAtHome /\ AtHome /\ StatusTrue /\ CreatesAlone)'
    BY DEF SoleOwner
  <1>0. contested = {} /\ KeptAtHome /\ AtHome /\ StatusTrue /\ CreatesAlone
    BY DEF SoleOwner, CopyTemplate
  <1>1. /\ path = 0 /\ path' = gen + 1 /\ gen + 1 # 0
        /\ UNCHANGED <<managed, extra, inventory>>
        /\ proc'[p].pc = "validate" /\ proc'[p].g = path'
        /\ \A q \in Procs \ {p} : proc'[q] = proc[q]
    BY Bounds DEF CopyTemplate, Typed, ProcRecord, files, cloud
  <1>2. managed = {} /\ extra = {} /\ inventory = {}
    BY <1>0, <1>1 DEF KeptAtHome, FilesAtHome
  <1>3. /\ \A q \in Procs \ {p} : proc'[q].pc \notin CreatePCs \cup DestroyPCs
        /\ \A r \in Resizers : ~At(r, "work")'
    BY <1>0, <1>1, <1>2 DEF AtHome, At, Procs
  <1>4. KeptAtHome' /\ AtHome'
    BY <1>1, <1>2, <1>3 DEF KeptAtHome, AtHome, At
  <1>5. StatusTrue' /\ CreatesAlone'
    BY <1>1, <1>2, <1>3 DEF StatusTrue, CreatesAlone, At, DestroyPCs
  <1>6. QED BY <1>4, <1>5

\* terraform apply makes resources in the directory that the creation has for
\* itself.
LEMMA ApplyOwner ==
    ASSUME Typed, SoleOwner, NEW p \in Procs, Apply(p), Home(p),
           managed' = managed \cup {path},
           inventory' \in {inventory, inventory \cup {path}}
    PROVE  SoleOwner'
  <1> SUFFICES ASSUME contested' = {}
               PROVE  (KeptAtHome /\ AtHome /\ StatusTrue /\ CreatesAlone)'
    BY DEF SoleOwner
  <1>0. contested = {} /\ KeptAtHome /\ AtHome /\ StatusTrue /\ CreatesAlone
    BY DEF SoleOwner, Apply
  <1>1. /\ proc[p].pc = "apply" /\ path # 0 /\ UNCHANGED <<path, extra>>
        /\ proc'[p].pc \in {"ended", "build", "cd"}
        /\ proc'[p].pc = "build" => proc'[p].g = proc[p].g
        /\ \A q \in Procs \ {p} : proc'[q] = proc[q]
    BY DEF Apply, Home, At, Ends, Fresh, Typed, ProcRecord
  <1>2. \A q \in Procs : proc[q].pc \in CreatePCs \cup DestroyPCs => q = p
    BY <1>0, <1>1 DEF CreatesAlone, CreatePCs
  <1>3. \A q \in Procs : proc'[q].pc \in CreatePCs \cup DestroyPCs =>
            q = p /\ proc'[q].pc = "build"
    BY <1>1, <1>2 DEF CreatePCs, DestroyPCs
  <1>4. proc[p].g = path
    BY DEF Home
  <1>5. KeptAtHome'
    BY <1>0, <1>1 DEF KeptAtHome
  <1>6. AtHome'
    BY <1>0, <1>1, <1>3, <1>4 DEF AtHome, At, Procs
  <1>7. StatusTrue' /\ CreatesAlone'
    BY <1>3 DEF StatusTrue, CreatesAlone, At, CreatePCs, DestroyPCs
  <1>8. QED BY <1>5, <1>6, <1>7

\* A deletion that is accepted while no other process is at work.
LEMMA ClaimOwner ==
    ASSUME Typed, StatusFresh, SoleOwner, NEW p \in Procs, Claim(p),
           ~(Ends(p) /\ UNCHANGED destroying)
    PROVE  SoleOwner'
  <1> SUFFICES ASSUME contested' = {}
               PROVE  (KeptAtHome /\ AtHome /\ StatusTrue /\ CreatesAlone)'
    BY DEF SoleOwner
  <1>1. /\ proc[p].pc = "claim" /\ proc[p].g = path /\ path # 0
        /\ UNCHANGED <<path, managed, extra, inventory>>
        /\ path \notin BeingDestroyed \cup BeingCreated
        /\ contested = {}
    BY DEF Claim, Home, At, cloud
  <1>2. /\ proc'[p].pc = "cleanup" /\ proc'[p].g = proc[p].g
        /\ proc'[p].gone = proc[p].gone /\ proc'[p].clean = proc[p].clean
        /\ \A q \in Procs \ {p} : proc'[q] = proc[q]
    BY DEF Claim, Goto, Typed, ProcRecord
  <1>3. ~proc'[p].gone /\ ~proc'[p].clean
    BY <1>1, <1>2 DEF StatusFresh, DestroyPCs
  <1>4. KeptAtHome /\ AtHome /\ StatusTrue /\ CreatesAlone
    BY <1>1 DEF SoleOwner
  <1>5. \A q \in Procs : proc[q].pc \notin CreatePCs \cup DestroyPCs
    BY <1>1, <1>4 DEF AtHome, BeingCreated, BeingDestroyed
  <1>6. KeptAtHome' /\ AtHome'
    BY <1>1, <1>2, <1>4 DEF KeptAtHome, AtHome, At, Procs
  <1>7. StatusTrue' /\ CreatesAlone'
    BY <1>1, <1>2, <1>3, <1>5 DEF StatusTrue, CreatesAlone, At, CreatePCs, DestroyPCs
  <1>8. QED BY <1>6, <1>7

\* A resize that reads the inventory under the lock of the directory.
LEMMA CheckOwner ==
    ASSUME Typed, FilesAtHome, SoleOwner, NEW p \in Resizers,
           EnsureNotBeingDestroyed(p), path \in inventory \ destroying
    PROVE  SoleOwner'
  <1> SUFFICES ASSUME contested' = {}
               PROVE  (KeptAtHome /\ AtHome /\ StatusTrue /\ CreatesAlone)'
    BY DEF SoleOwner
  <1>1. /\ contested = {} /\ p \in Procs
        /\ UNCHANGED <<path, managed, extra, inventory>>
    BY DEF EnsureNotBeingDestroyed, files, cloud, Procs
  <1>2. /\ proc'[p].pc = "work" /\ proc'[p].r = path
        /\ \A q \in Procs \ {p} : proc'[q] = proc[q]
    BY <1>1 DEF EnsureNotBeingDestroyed, Typed, ProcRecord
  <1>3. KeptAtHome /\ AtHome /\ StatusTrue /\ CreatesAlone
    BY <1>1 DEF SoleOwner
  <1>4. KeptAtHome'
    BY <1>1, <1>3 DEF KeptAtHome
  <1>5. AtHome'
    BY <1>1, <1>2, <1>3 DEF AtHome, At, CreatePCs, DestroyPCs, Procs
  <1>6. StatusTrue'
    BY <1>1, <1>2, <1>3 DEF StatusTrue, At, DestroyPCs
  <1>7. CreatesAlone'
    BY <1>1, <1>2, <1>3 DEF CreatesAlone, CreatePCs, DestroyPCs
  <1>8. QED BY <1>4, <1>5, <1>6, <1>7

\* A resize at work leaves instances in the directory that has the name, which
\* nobody destroys.
LEMMA WorkOwner ==
    ASSUME Typed, ExclusionInv, FilesAtHome, SoleOwner, NEW p \in Resizers,
           ResizeWork(p)
    PROVE  SoleOwner'
  <1> SUFFICES ASSUME contested' = {}
               PROVE  (KeptAtHome /\ AtHome /\ StatusTrue /\ CreatesAlone)'
    BY DEF SoleOwner
  <1>1. /\ contested = {} /\ p \in Procs /\ At(p, "work")
        /\ UNCHANGED <<path, managed, inventory>>
        /\ extra' \subseteq extra \cup {proc[p].r}
        /\ extra' \subseteq extra \cup managed
    BY DEF ResizeWork, Found, files, Procs
  <1>2. /\ proc'[p].pc = "unmark"
        /\ \A q \in Procs \ {p} : proc'[q] = proc[q]
    BY <1>1 DEF ResizeWork, Goto, Typed, ProcRecord
  <1>3. KeptAtHome /\ AtHome /\ StatusTrue /\ CreatesAlone
    BY <1>1 DEF SoleOwner
  <1>4. proc[p].r = path /\ path \in inventory
    BY <1>1, <1>3 DEF AtHome
  <1>5. \A q \in Procs : proc[q].pc \notin DestroyPCs
    BY <1>1, DestroysAlone
  <1>6. \A q \in Procs : proc'[q].pc \notin DestroyPCs
    BY <1>2, <1>5 DEF DestroyPCs
  <1>7. KeptAtHome'
    BY <1>1, <1>3, <1>4 DEF KeptAtHome, FilesAtHome
  <1>8. AtHome'
    BY <1>1, <1>2, <1>3 DEF AtHome, At, CreatePCs, DestroyPCs, Procs
  <1>9. StatusTrue'
    BY <1>1, <1>2, <1>3, <1>6 DEF StatusTrue, At, DestroyPCs
  <1>10. CreatesAlone'
    BY <1>1, <1>2, <1>3 DEF CreatesAlone, CreatePCs, DestroyPCs
  <1>11. QED BY <1>7, <1>8, <1>9, <1>10

\* Every step preserves SoleOwner.
LEMMA StepOwner ==
    ASSUME Typed, ExclusionInv, FilesAtHome, StatusFresh, SoleOwner,
           NEW p \in Procs, Step(p)
    PROVE  SoleOwner'
  <1>0. /\ contested \subseteq contested'
        /\ \A q \in Procs \ {p} : proc'[q] = proc[q]
        /\ proc[p] \in ProcRecord
        /\ proc[p].pc \notin DestroyPCs => ~proc[p].gone /\ ~proc[p].clean
    BY StepFrame DEF Typed, StatusFresh
  <1> USE <1>0
  \* A process that ends leaves no results.
  <1>1. Ends(p) => /\ proc'[p].pc = "ended"
                   /\ ~proc'[p].gone /\ ~proc'[p].clean
    BY DEF Ends, Fresh, Typed
  <1>2. \A pc \in {"build", "apply", "destroy", "last", "finish", "remove",
                   "lock", "check", "unmark"} :
            Goto(p, pc) => /\ proc'[p].pc = pc /\ proc'[p].g = proc[p].g
                           /\ proc'[p].gone = proc[p].gone
                           /\ proc'[p].clean = proc[p].clean
    BY DEF Goto, Typed, ProcRecord
  <1> USE DEF At, files, cloud
  <1>3. CASE CopyTemplate(p)
    BY <1>3, CopyTemplateOwner
  <1>4. CASE Validate(p)
    <2>1. CASE Goto(p, "build") /\ UNCHANGED <<path, files>>
      BY <1>2, <1>4, <2>1, QuietOwner DEF Validate, CreatePCs, DestroyPCs
    <2>2. CASE RemoveDirectory /\ Ends(p)
      <3>1. ASSUME contested = {}
            PROVE  /\ path \notin managed \cup extra
                   /\ \A q \in Procs : proc[q].pc \in CreatePCs \cup DestroyPCs => q = p
                   /\ \A r \in Resizers : ~At(r, "work")
        BY <1>4, <3>1 DEF Validate, SoleOwner, KeptAtHome, AtHome, StatusTrue,
           CreatesAlone, CreatePCs, Procs
      <3>2. QED BY <1>4, <2>2, <3>1, RemovalOwner DEF Validate
    <2>3. QED BY <1>4, <2>1, <2>2 DEF Validate
  <1>5. CASE StartBuild(p)
    BY <1>2, <1>5, QuietOwner DEF StartBuild, CreatePCs, DestroyPCs
  <1>6. CASE Apply(p)
    <2>1. CASE UNCHANGED <<managed, inventory>>
      <3>1. /\ proc[p].pc = "apply" /\ proc'[p].pc \in {"ended", "build", "cd"}
            /\ proc'[p].pc = "build" => proc'[p].g = proc[p].g
            /\ ~proc'[p].gone /\ ~proc'[p].clean
            /\ UNCHANGED <<path, extra>>
        BY <1>6 DEF Apply, Ends, Fresh, Typed, ProcRecord, DestroyPCs
      <3>2. QED BY <2>1, <3>1, QuietOwner DEF CreatePCs, DestroyPCs
    <2>2. CASE /\ Home(p)
               /\ managed' = managed \cup {proc[p].g}
               /\ inventory' \in {inventory, inventory \cup {proc[p].g}}
      BY <1>6, <2>2, ApplyOwner DEF Home
    <2>3. QED BY <1>6, <2>1, <2>2 DEF Apply
  <1>7. CASE StartDelete(p)
    <2>1. proc'[p].pc = "cd" /\ ~proc'[p].gone /\ ~proc'[p].clean
      BY <1>7 DEF StartDelete, Typed, ProcRecord, DestroyPCs
    <2>2. QED BY <1>7, <2>1, QuietOwner DEF StartDelete, CreatePCs, DestroyPCs
  <1>8. CASE ChangeDirectory(p)
    <2>1. proc'[p].pc \in {"ended", "claim"} /\ ~proc'[p].gone /\ ~proc'[p].clean
      BY <1>1, <1>8 DEF ChangeDirectory, Typed, ProcRecord, DestroyPCs
    <2>2. QED BY <1>8, <2>1, QuietOwner DEF ChangeDirectory, CreatePCs, DestroyPCs
  <1>9. CASE Claim(p)
    <2>1. CASE Ends(p) /\ UNCHANGED destroying
      BY <1>1, <1>9, <2>1, QuietOwner DEF Claim, CreatePCs, DestroyPCs
    <2>2. QED BY <1>9, <2>1, ClaimOwner
  <1>10. CASE Cleanup(p)
    <2>1. /\ proc[p].pc = "cleanup" /\ proc'[p].pc = "destroy"
          /\ proc'[p].g = proc[p].g /\ proc'[p].gone = proc[p].gone
          /\ extra' \subseteq extra /\ UNCHANGED <<path, inventory, managed>>
      BY <1>10 DEF Cleanup, ComputeCleanup, Typed, ProcRecord
    <2>2. ASSUME contested = {}, proc'[p].clean PROVE path \notin extra'
      <3>1. KeptAtHome /\ proc[p].g = path /\ path # 0
        BY <2>1, <2>2 DEF SoleOwner, AtHome, DestroyPCs
      <3>2. HasInventory(p) \/ path \notin inventory
        BY <3>1 DEF HasInventory, Home
      <3>3. CASE path \notin inventory
        BY <2>1, <3>1, <3>3 DEF KeptAtHome
      <3>4. CASE HasInventory(p)
        BY <1>10, <2>2, <3>1, <3>4
        DEF Cleanup, ComputeCleanup, KeptAtHome, Typed, ProcRecord
      <3>5. QED BY <3>2, <3>3, <3>4
    <2>3. QED BY <2>1, <2>2, QuietOwner DEF CreatePCs, DestroyPCs, SoleOwner
  <1>11. CASE TerraformDestroy(p)
    <2>1. /\ proc[p].pc = "destroy" /\ proc'[p].pc \in {"again", "last"}
          /\ proc'[p].g = proc[p].g /\ proc'[p].clean = proc[p].clean
          /\ managed' \subseteq managed /\ UNCHANGED <<path, inventory, extra>>
          /\ proc'[p].gone => proc[p].gone \/ path \notin managed'
          /\ managed \cap extra' \cap ComputeGens \subseteq managed'
      BY <1>11 DEF TerraformDestroy, Deletable, Goto, Home, Typed, ProcRecord
    <2>2. QED BY <2>1, QuietOwner DEF CreatePCs, DestroyPCs
  <1>12. CASE CleanupAgain(p)
    <2>1. /\ proc[p].pc \in {"again", "last"} /\ proc'[p].pc \in {"destroy", "finish"}
          /\ proc'[p].g = proc[p].g /\ proc'[p].gone = proc[p].gone
          /\ extra' \subseteq extra /\ UNCHANGED <<path, inventory, managed>>
      BY <1>12 DEF CleanupAgain, ComputeCleanup, Goto, Typed, ProcRecord
    <2>2. ASSUME contested = {}
          PROVE  proc'[p].clean => proc[p].clean \/ path \notin extra'
      <3>1. path \in extra \cap ComputeGens => path \in managed
        BY <2>2 DEF SoleOwner, KeptAtHome
      <3>2. QED
        BY <1>12, <3>1 DEF CleanupAgain, ComputeCleanup, Goto, Typed, ProcRecord
    <2>3. QED BY <2>1, <2>2, QuietOwner DEF CreatePCs, DestroyPCs, SoleOwner
  <1>13. CASE FinishDelete(p)
    <2>1. CASE proc[p].gone /\ proc[p].clean /\ Goto(p, "remove")
      BY <1>2, <1>13, <2>1, QuietOwner DEF FinishDelete, CreatePCs, DestroyPCs
    <2>2. CASE Ends(p)
      BY <1>1, <1>13, <2>2, QuietOwner DEF FinishDelete, CreatePCs, DestroyPCs
    <2>3. QED BY <1>13, <2>1, <2>2 DEF FinishDelete
  <1>14. CASE Remove(p)
    <2>1. ASSUME contested = {}
          PROVE  /\ path \notin managed \cup extra
                 /\ \A q \in Procs : proc[q].pc \in CreatePCs \cup DestroyPCs => q = p
                 /\ \A r \in Resizers : ~At(r, "work")
      <3>1. proc[p].pc \in DestroyPCs
        BY <1>14 DEF Remove, DestroyPCs
      <3>2. /\ \A q \in Procs : proc[q].pc \in CreatePCs \cup DestroyPCs => q = p
            /\ \A r \in Resizers : ~At(r, "work")
        BY <2>1, <3>1, DestroysAlone
      <3>3. path \notin managed \cup extra
        BY <1>14, <2>1, <3>1 DEF Remove, SoleOwner, StatusTrue
      <3>4. QED BY <3>2, <3>3
    <2>2. QED BY <1>14, <2>1, RemovalOwner DEF Remove
  <1>15. CASE StartResize(p)
    <2>1. proc'[p].pc \in {"ended", "mark"} /\ ~proc'[p].gone /\ ~proc'[p].clean
      BY <1>1, <1>15 DEF StartResize, Typed, ProcRecord, DestroyPCs
    <2>2. QED BY <1>15, <2>1, QuietOwner DEF StartResize, CreatePCs, DestroyPCs
  <1>16. CASE MarkResizing(p)
    BY <1>2, <1>16, QuietOwner DEF MarkResizing, CreatePCs, DestroyPCs
  <1>17. CASE AcquireResizeLock(p)
    BY <1>2, <1>17, QuietOwner DEF AcquireResizeLock, CreatePCs, DestroyPCs
  <1>18. CASE p \in Resizers /\ EnsureNotBeingDestroyed(p)
    <2>1. CASE path \in inventory \ destroying
      BY <1>18, <2>1, CheckOwner
    <2>2. CASE path \notin inventory \ destroying
      BY <1>2, <1>18, <2>2, QuietOwner
      DEF EnsureNotBeingDestroyed, CreatePCs, DestroyPCs
    <2>3. QED BY <2>1, <2>2
  <1>19. CASE p \in Resizers /\ ResizeWork(p)
    BY <1>19, WorkOwner
  <1>20. CASE UnmarkResizing(p)
    BY <1>1, <1>20, QuietOwner DEF UnmarkResizing, CreatePCs, DestroyPCs
  <1>21. CASE Kill(p)
    BY <1>1, <1>21, QuietOwner DEF Kill, CreatePCs, DestroyPCs
  <1>22. QED
    BY <1>3, <1>4, <1>5, <1>6, <1>7, <1>8, <1>9, <1>10, <1>11, <1>12, <1>13,
       <1>14, <1>15, <1>16, <1>17, <1>18, <1>19, <1>20, <1>21 DEF Step

\* The invariant of the two theorems that follow.
LifeInv ==
    /\ Typed /\ ExclusionInv /\ 0 \notin inventory
    /\ FilesAtHome /\ StatusFresh /\ SoleOwner

\* Nothing exists, or one directory with the resources of its cluster.
LEMMA InitLife == Init => LifeInv
  <1> SUFFICES ASSUME Init PROVE LifeInv
    OBVIOUS
  <1>1. \A p \in Procs : /\ proc[p].pc = "idle"
                         /\ ~proc[p].gone /\ ~proc[p].clean
    BY DEF Init, Fresh
  <1>2. Typed /\ ExclusionInv /\ 0 \notin inventory
    BY InitTyped, Bounds DEF Init, ExclusionInv, At, Fresh, DestroyPCs, Procs, Gens
  <1>3. FilesAtHome /\ StatusFresh
    BY <1>1 DEF Init, FilesAtHome, StatusFresh
  <1>4. KeptAtHome /\ AtHome
    BY <1>1 DEF Init, KeptAtHome, AtHome, At, CreatePCs, DestroyPCs, Procs
  <1>5. StatusTrue /\ CreatesAlone
    BY <1>1 DEF StatusTrue, CreatesAlone, At, CreatePCs, DestroyPCs
  <1>6. QED BY <1>2, <1>3, <1>4, <1>5 DEF LifeInv, SoleOwner

\* Every step preserves LifeInv.
LEMMA StepLife == ASSUME LifeInv, [Next]_vars PROVE LifeInv'
  <1> USE DEF LifeInv
  <1>1. Typed' /\ 0 \notin inventory' /\ FilesAtHome'
    BY StepTyped, StepInventory, StepFilesAtHome
  <1>2. CASE UNCHANGED vars
    <2> USE <1>2 DEF vars, files, cloud
    <2>1. ExclusionInv'
      BY DEF ExclusionInv, At
    <2>2. StatusFresh'
      BY DEF StatusFresh
    <2>3. SoleOwner'
      BY DEF SoleOwner, KeptAtHome, AtHome, StatusTrue, CreatesAlone, At
    <2>4. QED BY <1>1, <2>1, <2>2, <2>3
  <1>3. CASE Next
    <2>1. PICK p \in Procs : Step(p)
      BY <1>3, NextIsStep
    <2>2. ExclusionInv'
      BY <1>3, StepExclusion
    <2>3. StatusFresh' /\ SoleOwner'
      BY <2>1, StepStatusFresh, StepOwner
    <2>4. QED BY <1>1, <2>2, <2>3
  <1>4. QED BY <1>2, <1>3

\* For any number of processes, kills and failures, and however often the name
\* is used again, for pools and Compute Clusters: no directory is removed while
\* there are resources of its cluster that Terraform, the Compute Cluster or the
\* journal knows of, unless the processes met in one of the gaps.
THEOREM NoOrphansHolds == Spec => []NoOrphans
  <1>1. LifeInv => NoOrphans
    BY DEF LifeInv, SoleOwner, KeptAtHome, NoOrphans
  <1>2. QED BY InitLife, StepLife, <1>1, PTL DEF Spec

-----------------------------------------------------------------------------
(* TypeOK *)

\* The loops of create_cluster.sh and delete_cluster.sh stay within their
\* counts, and begin at zero.
Counted ==
    \A p \in Procs :
        /\ proc[p].pc \in CreatePCs => proc[p].n < MaxADs
        /\ proc[p].pc \in DestroyPCs => proc[p].n < MaxTries
        /\ proc[p].pc \notin CreatePCs \cup DestroyPCs => proc[p].n = 0

\* Markers, resources and histories name directories that were made.
GensTyped ==
    /\ building \subseteq Gens /\ destroying \subseteq Gens
    /\ resizing \subseteq Gens /\ inventory \subseteq Gens
    /\ managed \subseteq Gens /\ extra \subseteq Gens /\ stray \subseteq Gens
    /\ abandoned \subseteq Gens /\ contested \subseteq Gens

\* Every step keeps the counts of the loops.
LEMMA StepCounted ==
    ASSUME Typed, Counted, NEW p \in Procs, Step(p) PROVE Counted'
  <1> USE Bounds DEF Typed, Goto, Ends, At, ProcRecord
  <1>0. /\ \A q \in Procs \ {p} : proc'[q] = proc[q]
        /\ proc[p] \in ProcRecord
        /\ proc[p].pc \in CreatePCs => proc[p].n < MaxADs
        /\ proc[p].pc \in DestroyPCs => proc[p].n < MaxTries
        /\ proc[p].pc \notin CreatePCs \cup DestroyPCs => proc[p].n = 0
        /\ 0 < MaxADs /\ 0 < MaxTries
    BY StepFrame, ClusterLifecycleAssumption DEF Counted
  <1> SUFFICES /\ proc'[p].pc \in CreatePCs => proc'[p].n < MaxADs
               /\ proc'[p].pc \in DestroyPCs => proc'[p].n < MaxTries
               /\ proc'[p].pc \notin CreatePCs \cup DestroyPCs => proc'[p].n = 0
    BY <1>0 DEF Counted
  <1>e. Ends(p) => proc'[p].pc = "ended" /\ proc'[p].n = 0
    BY <1>0 DEF Fresh
  <1>g. \A pc \in {"build", "apply", "destroy", "again", "last", "finish",
                   "remove", "cleanup", "lock", "check", "unmark"} :
            Goto(p, pc) => proc'[p].pc = pc /\ proc'[p].n = proc[p].n
    BY <1>0
  <1> USE DEF CreatePCs, DestroyPCs
  <1>1. CASE CopyTemplate(p)
    BY <1>0, <1>1 DEF CopyTemplate
  <1>2. CASE Validate(p)
    BY <1>0, <1>e, <1>g, <1>2 DEF Validate
  <1>3. CASE StartBuild(p)
    BY <1>0, <1>3 DEF StartBuild
  <1>4. CASE Apply(p)
    BY <1>0, <1>e, <1>4 DEF Apply, Fresh
  <1>5. CASE StartDelete(p)
    BY <1>0, <1>5 DEF StartDelete
  <1>6. CASE ChangeDirectory(p)
    BY <1>0, <1>e, <1>6 DEF ChangeDirectory
  <1>7. CASE Claim(p)
    BY <1>0, <1>e, <1>g, <1>7 DEF Claim
  <1>8. CASE Cleanup(p)
    BY <1>0, <1>8 DEF Cleanup, ComputeCleanup
  <1>9. CASE TerraformDestroy(p)
    BY <1>0, <1>9 DEF TerraformDestroy
  <1>10. CASE CleanupAgain(p)
    BY <1>0, <1>10 DEF CleanupAgain, ComputeCleanup
  <1>11. CASE FinishDelete(p)
    BY <1>0, <1>e, <1>g, <1>11 DEF FinishDelete
  <1>12. CASE Remove(p)
    BY <1>e, <1>12 DEF Remove
  <1>13. CASE StartResize(p)
    BY <1>0, <1>e, <1>13 DEF StartResize
  <1>14. CASE MarkResizing(p) \/ AcquireResizeLock(p)
    BY <1>0, <1>g, <1>14 DEF MarkResizing, AcquireResizeLock
  <1>15. CASE EnsureNotBeingDestroyed(p) \/ ResizeWork(p)
    BY <1>0, <1>g, <1>15 DEF EnsureNotBeingDestroyed, ResizeWork
  <1>16. CASE UnmarkResizing(p) \/ Kill(p)
    BY <1>e, <1>16 DEF UnmarkResizing, Kill
  <1>17. QED
    BY <1>1, <1>2, <1>3, <1>4, <1>5, <1>6, <1>7, <1>8, <1>9, <1>10, <1>11,
       <1>12, <1>13, <1>14, <1>15, <1>16 DEF Step

\* Every step marks, makes and remembers directories that were made.
LEMMA StepGensTyped ==
    ASSUME Typed, ExclusionInv, 0 \notin inventory, GensTyped,
           NEW p \in Procs, Step(p)
    PROVE  GensTyped'
  <1> USE DEF GensTyped, files, cloud, Gens
  <1>1. /\ path = 0 \/ path \in Gens
        /\ proc[p].pc \in DestroyPCs => proc[p].g \in Gens
        /\ p \in Resizers /\ At(p, "work") => proc[p].r \in Gens
    BY Bounds DEF Typed, ProcRecord, ExclusionInv
  <1>2. CASE CopyTemplate(p) \/ Validate(p) \/ StartBuild(p)
    BY <1>1, <1>2 DEF CopyTemplate, Validate, RemoveDirectory, StartBuild, Home
  <1>3. CASE Apply(p)
    BY <1>1, <1>3 DEF Apply, Home
  <1>4. CASE StartDelete(p) \/ ChangeDirectory(p)
    BY <1>4 DEF StartDelete, ChangeDirectory
  <1>5. CASE Claim(p)
    BY <1>1, <1>5 DEF Claim, Home
  <1>6. CASE Cleanup(p) \/ TerraformDestroy(p) \/ CleanupAgain(p)
    BY <1>6 DEF Cleanup, ComputeCleanup, TerraformDestroy, CleanupAgain
  <1>7. CASE FinishDelete(p) \/ Remove(p)
    BY <1>7 DEF FinishDelete, Remove, RemoveDirectory
  <1>8. CASE StartResize(p) \/ MarkResizing(p) \/ AcquireResizeLock(p)
    BY <1>1, <1>8 DEF StartResize, MarkResizing, AcquireResizeLock, Home
  <1>9. CASE EnsureNotBeingDestroyed(p)
    BY <1>1, <1>9 DEF EnsureNotBeingDestroyed
  <1>10. CASE p \in Resizers /\ ResizeWork(p)
    BY <1>1, <1>10 DEF ResizeWork
  <1>11. CASE UnmarkResizing(p) \/ Kill(p)
    BY <1>1, <1>11 DEF UnmarkResizing, Kill
  <1>12. QED
    BY <1>2, <1>3, <1>4, <1>5, <1>6, <1>7, <1>8, <1>9, <1>10, <1>11 DEF Step

\* Only Kill counts the killed processes.
LEMMA StepKills ==
    ASSUME kills \in 0..MaxKills, NEW p \in Procs, Step(p)
    PROVE  kills' \in 0..MaxKills
  <1>1. CASE Kill(p)
    BY <1>1, ClusterLifecycleAssumption DEF Kill
  <1>2. CASE ~Kill(p)
    BY <1>2 DEF Step, CopyTemplate, Validate, StartBuild, Apply, StartDelete,
       ChangeDirectory, Claim, Cleanup, TerraformDestroy, CleanupAgain,
       FinishDelete, Remove, StartResize, MarkResizing, AcquireResizeLock,
       EnsureNotBeingDestroyed, ResizeWork, UnmarkResizing
  <1>3. QED BY <1>1, <1>2

\* Markers and resources belong to directories that were made, and every loop
\* stays within its count, for any counts.
THEOREM TypeCorrect == Spec => []TypeOK
  <1> DEFINE I == LifeInv /\ Counted /\ GensTyped /\ kills \in 0..MaxKills
  <1>1. Init => I
    <2> SUFFICES ASSUME Init PROVE Counted /\ GensTyped /\ kills \in 0..MaxKills
      BY InitLife
    <2>1. Counted
      BY DEF Init, Counted, Fresh, CreatePCs, DestroyPCs
    <2>2. GensTyped /\ kills \in 0..MaxKills
      BY Bounds, ClusterLifecycleAssumption DEF Init, GensTyped, Gens
    <2>3. QED BY <2>1, <2>2
  <1>2. I /\ [Next]_vars => I'
    <2> SUFFICES ASSUME I, [Next]_vars PROVE I'
      OBVIOUS
    <2>1. LifeInv'
      BY StepLife
    <2>2. CASE UNCHANGED vars
      BY <2>1, <2>2 DEF vars, files, cloud, Counted, GensTyped
    <2>3. CASE Next
      <3>1. PICK p \in Procs : Step(p)
        BY <2>3, NextIsStep
      <3>2. Counted' /\ GensTyped' /\ kills' \in 0..MaxKills
        BY <3>1, StepCounted, StepGensTyped, StepKills DEF LifeInv
      <3>3. QED BY <2>1, <3>2
    <2>4. QED BY <2>2, <2>3
  <1>3. I => TypeOK
    <2> SUFFICES ASSUME I PROVE TypeOK
      OBVIOUS
    <2>1. ASSUME NEW p \in Procs PROVE proc[p] \in ProcState
      <3>1. proc[p] \in ProcRecord /\ proc[p].n \in Nat
        BY DEF LifeInv, Typed, ProcRecord
      <3>2. proc[p].n <= MaxADs + MaxTries
        BY <3>1, Bounds DEF Counted
      <3>3. proc[p].n \in 0..(MaxADs + MaxTries)
        BY <3>1, <3>2, Bounds
      <3>4. QED BY <3>1, <3>3 DEF ProcState, ProcRecord
    <2>2. proc \in [Procs -> ProcState]
      BY <2>1 DEF LifeInv, Typed
    <2>3. QED
      BY <2>2 DEF TypeOK, LifeInv, Typed, ExclusionInv, GensTyped
  <1>4. QED BY <1>1, <1>2, <1>3, PTL DEF Spec

=============================================================================

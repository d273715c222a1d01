--------------------------- MODULE NotifySpoolProofs ---------------------------
(***************************************************************************)
(* No message of the notification spool is lost silently, none is          *)
(* published twice without a reason, and none is tried more often than     *)
(* doubling retry delays fit into its life, for every number of events,    *)
(* workers, topics and failures, and whatever the limits are: the spool    *)
(* implements AtLeastOnce, and PublishPacing keeps its pace.               *)
(***************************************************************************)
EXTENDS NotifySpool, PublishPacing, FiniteSetTheorems, TLAPS

USE NotifySpoolAssumption

\* A worker has a message in hand.
Handling == {"publish", "unlink", "retry"}

\* What makes the two properties inductive: a worker that runs has the lock, and
\* what it handles is in the spool; MailProg only goes on with a topic, and what
\* is in the spool came from it; and a file in the spool stands for a message
\* that OCI has not accepted, or whose acceptance is excused, or that is about
\* to be removed.
Chosen         == \A m \in Msgs : mail[m].pc \in {"loaded", "fits"} =>
                      mail[m].topic \in Topics
LockHeld       == \A w \in Workers : wk[w].pc # "idle" => lock = w
HandledIsThere == \A w \in Workers : wk[w].pc \in Handling =>
                      wk[w].cur \in Msgs /\ spool[wk[w].cur] # None
FromMailProg   == \A m \in Msgs :
                      /\ spool[m] # None => mail[m].pc = "queued"
                      /\ mail[m].pc # "queued" => accepted[m] = 0
OwedOrExcused  == \A m \in Msgs :
                      spool[m] # None /\ ~Delivered(m) => accepted[m] <= excused[m]
DeliveredOnce  == \A w \in Workers :
                      wk[w].pc = "unlink" => accepted[wk[w].cur] > 0

SpoolSafe ==
    /\ LockHeld /\ HandledIsThere /\ FromMailProg /\ OwedOrExcused /\ DeliveredOnce
    /\ NoSilentLoss /\ DuplicatesExcused

SpoolInv == TypeOK /\ Chosen /\ SpoolSafe

-----------------------------------------------------------------------------
(* Types *)

\* The empty local state of a worker.
LEMMA RestingType == Resting \in WorkerState
  BY DEF Resting, WorkerState

\* mark_retry waits between nothing and an hour.
LEMMA RetryDelayType ==
    ASSUME NEW n \in Nat \ {0}
    PROVE  RetryDelay(n) \in 0..MaxDelay
  <1> DEFINE d == IF n - 1 < MaxDoublings THEN n - 1 ELSE MaxDoublings
  <1>1. d \in 0..MaxDoublings
    OBVIOUS
  <1>2. 2^d \in Nat
    BY <1>1, PowersAssumption
  <1> HIDE DEF d
  <1>3. BaseDelay * 2^d \in Nat
    BY <1>2
  <1>4. RetryDelay(n) = IF BaseDelay * 2^d < MaxDelay THEN BaseDelay * 2^d ELSE MaxDelay
    BY DEF RetryDelay, d
  <1> QED
    BY <1>3, <1>4

\* What mark_retry writes is a message file again.
LEMMA RetriedType ==
    ASSUME TypeOK, NEW m \in Msgs, spool[m] # None
    PROVE  [spool[m] EXCEPT !.attempts = spool[m].attempts + 1,
                            !.next = now + RetryDelay(spool[m].attempts + 1)]
             \in Contents
  <1>1. spool[m] \in Contents /\ now \in 0..MaxTime
    BY DEF TypeOK
  <1>2. spool[m].attempts + 1 \in Nat \ {0}
    BY <1>1 DEF Contents
  <1>3. RetryDelay(spool[m].attempts + 1) \in 0..MaxDelay
    BY <1>2, RetryDelayType
  <1>4. now + RetryDelay(spool[m].attempts + 1) \in 0..(MaxTime + MaxDelay)
    BY <1>1, <1>3
  <1> QED
    BY <1>1, <1>2, <1>4 DEF Contents

\* The clock and the registry.
LEMMA EnvironmentTyped ==
    ASSUME TypeOK, Tick \/ \E t \in Topics \cup {NoTopic} : Reroute(t)
    PROVE  TypeOK'
  BY DEF TypeOK, Tick, Reroute, history

\* MailProg.
LEMMA MailProgTyped ==
    ASSUME TypeOK, Chosen, NEW m \in Msgs, MailProg(m)
    PROVE  TypeOK' /\ Chosen'
  <1> USE DEF TypeOK, history
  <1>1. CASE LoadRegistry(m)
    <2>1. mail' \in [Msgs -> MailState]
      BY <1>1 DEF LoadRegistry, Drop, MailEnds, MailState
    <2>2. Chosen'
      BY <1>1 DEF LoadRegistry, Drop, MailEnds, MailState, Chosen
    <2> QED
      BY <1>1, <2>1, <2>2 DEF LoadRegistry
  <1>2. CASE QueueHasCapacity(m)
    <2>1. mail' \in [Msgs -> MailState]
      BY <1>2 DEF QueueHasCapacity, Drop, MailEnds, MailGoto, MailState
    <2>2. Chosen'
      BY <1>2 DEF QueueHasCapacity, Drop, MailEnds, MailGoto, MailState, Chosen
    <2> QED
      BY <1>2, <2>1, <2>2 DEF QueueHasCapacity
  <1>3. CASE WriteMessage(m)
    <2>1. mail' \in [Msgs -> MailState]
      BY <1>3 DEF WriteMessage, Drop, MailEnds, MailState
    <2>3. Chosen'
      BY <1>3 DEF WriteMessage, Drop, MailEnds, MailState, Chosen
    <2>2. spool' \in [Msgs -> Contents \cup {None}]
      <3>1. ASSUME NEW valid \in BOOLEAN
            PROVE  [topic |-> mail[m].topic, valid |-> valid,
                    expires |-> now + TTL, next |-> now, attempts |-> 0] \in Contents
        <4>1. mail[m].topic \in Topics
          BY <1>3 DEF WriteMessage, Chosen
        <4>2. now + TTL \in 0..(LastEvent + TTL) /\ now \in 0..(MaxTime + MaxDelay)
          BY <1>3 DEF WriteMessage
        <4> QED
          BY <4>1, <4>2 DEF Contents
      <3>2. CASE UNCHANGED spool
        BY <3>2
      <3>3. CASE \E valid \in BOOLEAN :
                   spool' = [spool EXCEPT ![m] =
                               [topic |-> mail[m].topic, valid |-> valid,
                                expires |-> now + TTL, next |-> now, attempts |-> 0]]
        BY <3>1, <3>3
      <3> QED
        BY <1>3, <3>2, <3>3 DEF WriteMessage
    <2> QED
      BY <1>3, <2>1, <2>2, <2>3 DEF WriteMessage
  <1> QED
    BY <1>1, <1>2, <1>3 DEF MailProg

\* The steps of a worker keep its local state one.
LEMMA WorkerStateType ==
    ASSUME wk \in [Workers -> WorkerState], NEW w \in Workers, NEW m \in Msgs
    PROVE  /\ [wk EXCEPT ![w].todo = @ \ {m}] \in [Workers -> WorkerState]
           /\ [wk EXCEPT ![w].todo = @ \ {m}, ![w].pc = "retry", ![w].cur = m]
                \in [Workers -> WorkerState]
           /\ wk[w].left > 0 =>
                [wk EXCEPT ![w].pc = "publish", ![w].cur = m,
                           ![w].todo = @ \ {m}, ![w].left = @ - 1]
                  \in [Workers -> WorkerState]
           /\ [wk EXCEPT ![w].pc = "scan", ![w].cur = None] \in [Workers -> WorkerState]
           /\ \A c \in {"unlink", "retry"} :
                [wk EXCEPT ![w].pc = c] \in [Workers -> WorkerState]
           /\ [wk EXCEPT ![w] = Resting] \in [Workers -> WorkerState]
  <1>1. [wk[w] EXCEPT !.todo = @ \ {m}] \in WorkerState
    BY DEF WorkerState
  <1>2. [wk[w] EXCEPT !.todo = @ \ {m}, !.pc = "retry", !.cur = m] \in WorkerState
    BY DEF WorkerState
  <1>3. wk[w].left > 0 =>
          [wk[w] EXCEPT !.pc = "publish", !.cur = m, !.todo = @ \ {m}, !.left = @ - 1]
            \in WorkerState
    <2>1. wk[w].left \in 0..MaxPerRun /\ MaxPerRun \in Nat
      BY DEF WorkerState
    <2>2. wk[w].left > 0 => wk[w].left - 1 \in 0..MaxPerRun
      BY <2>1
    <2> QED
      BY <2>2 DEF WorkerState
  <1>4. [wk[w] EXCEPT !.pc = "scan", !.cur = None] \in WorkerState
    BY DEF WorkerState
  <1>5. \A c \in {"unlink", "retry"} : [wk[w] EXCEPT !.pc = c] \in WorkerState
    BY DEF WorkerState
  <1> QED
    BY <1>1, <1>2, <1>3, <1>4, <1>5, RestingType

\* What examining a message does: a worker that scans drops it from its list, and
\* goes on, handles a refused file operation, or begins an attempt; a message
\* leaves the spool only for failed/ or because its topic is another.
LEMMA ExamineEffect ==
    ASSUME TypeOK, NEW w \in Workers, NEW m \in Msgs, Examine(w, m)
    PROVE  /\ wk[w].pc = "scan" /\ spool[m] # None
           /\ wk' \in [Workers -> WorkerState]
           /\ \A v \in Workers \ {w} : wk'[v] = wk[v]
           /\ wk'[w].pc \in {"scan", "retry", "publish"}
           /\ wk'[w].pc # "scan" => wk'[w].cur = m /\ spool' = spool
           /\ spool' = spool \/ /\ spool' = [spool EXCEPT ![m] = None]
                                /\ m \in failed' \/ m \in discarded'
           /\ failed \subseteq failed' /\ failed' \subseteq Msgs
           /\ discarded \subseteq discarded' /\ discarded' \subseteq Msgs
           /\ tries' \in [Msgs -> Nat] /\ faults' \in 0..MaxFaults
           /\ UNCHANGED <<now, topic, mail, lock, accepted, excused>>
  <1> USE DEF Pending, history
  <1>a. wk \in [Workers -> WorkerState] /\ faults \in 0..MaxFaults
        /\ failed \subseteq Msgs /\ discarded \subseteq Msgs /\ tries \in [Msgs -> Nat]
    BY DEF TypeOK
  <1>b. wk[w] \in WorkerState /\ wk[w].left \in 0..MaxPerRun
    BY <1>a DEF WorkerState
  <1>t. /\ [wk EXCEPT ![w].todo = @ \ {m}] \in [Workers -> WorkerState]
        /\ [wk EXCEPT ![w].todo = @ \ {m}, ![w].pc = "retry", ![w].cur = m]
             \in [Workers -> WorkerState]
        /\ wk[w].left > 0 =>
             [wk EXCEPT ![w].pc = "publish", ![w].cur = m,
                        ![w].todo = @ \ {m}, ![w].left = @ - 1]
               \in [Workers -> WorkerState]
    BY <1>a, WorkerStateType
  <1>f. Fault => faults' \in 0..MaxFaults
    BY <1>a DEF Fault
  <1>1. CASE Skip(w, m)
    BY <1>1, <1>a, <1>b, <1>t, <1>f DEF Skip, Passed, WorkerState
  <1>2. CASE Quarantine(w, m)
    BY <1>2, <1>a, <1>b, <1>t, <1>f DEF Quarantine, Passed, ToFailed, WorkerState
  <1>3. CASE Expire(w, m)
    BY <1>3, <1>a, <1>b, <1>t, <1>f DEF Expire, Passed, ToFailed, Refused, WorkerState
  <1>4. CASE Discard(w, m)
    BY <1>4, <1>a, <1>b, <1>t, <1>f DEF Discard, Passed, Refused, WorkerState
  <1>5. CASE BeginAttempt(w, m)
    BY <1>5, <1>a, <1>b, <1>t, <1>f DEF BeginAttempt, Attempt, Refused, WorkerState
  <1> QED
    BY <1>1, <1>2, <1>3, <1>4, <1>5 DEF Examine

-----------------------------------------------------------------------------
(* Steps *)

\* The lock lets one worker run: while one does, the others are idle and no
\* message but its own has been delivered and not yet removed.
LEMMA RunsAlone ==
    ASSUME LockHeld, NEW w \in Workers, wk[w].pc # "idle"
    PROVE  /\ lock = w
           /\ \A v \in Workers \ {w} : wk[v].pc = "idle"
           /\ wk[w].pc # "unlink" => \A m \in Msgs : ~Delivered(m)
  BY DEF LockHeld, Delivered

\* The clock and the registry touch nothing that the properties speak of.
LEMMA EnvironmentKeeps ==
    ASSUME SpoolInv, Tick \/ \E t \in Topics \cup {NoTopic} : Reroute(t)
    PROVE  SpoolInv'
  <1>1. TypeOK'
    BY EnvironmentTyped DEF SpoolInv
  <1>2. UNCHANGED <<mail, spool, failed, lock, wk, history>>
    BY DEF Tick, Reroute
  <1>3. SpoolSafe' /\ Chosen'
    BY <1>2 DEF SpoolInv, SpoolSafe, Chosen, LockHeld, HandledIsThere, FromMailProg,
       OwedOrExcused, DeliveredOnce, NoSilentLoss, DuplicatesExcused, Delivered, history
  <1> QED
    BY <1>1, <1>3 DEF SpoolInv

\* A step of MailProg creates the file of its message or touches no file.
LEMMA MailProgEffect ==
    ASSUME SpoolInv, NEW m \in Msgs, MailProg(m)
    PROVE  /\ UNCHANGED <<failed, lock, wk, accepted, excused, discarded>>
           /\ mail[m].pc # "queued"
           /\ \A x \in Msgs \ {m} : mail'[x] = mail[x] /\ spool'[x] = spool[x]
           /\ \/ spool'[m] = spool[m] /\ mail'[m].pc # "queued"
              \/ spool'[m] # None /\ mail'[m].pc = "queued"
  <1> USE DEF SpoolInv, history
  <1>1. TypeOK'
    BY MailProgTyped
  <1>2. mail \in [Msgs -> MailState] /\ spool \in [Msgs -> Contents \cup {None}]
    BY DEF TypeOK
  <1>3. CASE LoadRegistry(m)
    <2>1. UNCHANGED <<spool, failed, lock, wk, accepted, excused, discarded>>
          /\ mail[m].pc # "queued"
      BY <1>3 DEF LoadRegistry
    <2>2. \/ mail' = [mail EXCEPT ![m] = [pc |-> "dropped", topic |-> NoTopic]]
          \/ mail' = [mail EXCEPT ![m] = [pc |-> "loaded", topic |-> topic]]
      BY <1>3 DEF LoadRegistry, Drop, MailEnds
    <2>3. mail'[m].pc # "queued" /\ \A x \in Msgs \ {m} : mail'[x] = mail[x]
      BY <2>2, <1>2
    <2> QED
      BY <2>1, <2>3
  <1>4. CASE QueueHasCapacity(m)
    <2>1. UNCHANGED <<spool, failed, lock, wk, accepted, excused, discarded>>
          /\ mail[m].pc # "queued"
      BY <1>4 DEF QueueHasCapacity
    <2>2. \/ mail' = [mail EXCEPT ![m] = [pc |-> "dropped", topic |-> NoTopic]]
          \/ mail' = [mail EXCEPT ![m].pc = "fits"]
      BY <1>4 DEF QueueHasCapacity, Drop, MailEnds, MailGoto
    <2>3. mail'[m].pc # "queued" /\ \A x \in Msgs \ {m} : mail'[x] = mail[x]
      BY <2>2, <1>2 DEF MailState
    <2> QED
      BY <2>1, <2>3
  <1>5. CASE WriteMessage(m)
    <2>1. spool' \in [Msgs -> Contents \cup {None}]
      BY <1>1 DEF TypeOK
    <2>2. \A valid \in BOOLEAN :
            [topic |-> mail[m].topic, valid |-> valid, expires |-> now + TTL,
             next |-> now, attempts |-> 0] # None
      <3>1. mail[m].topic \in Topics
        BY <1>5 DEF WriteMessage, Chosen
      <3>2. now + TTL \in 0..(LastEvent + TTL) /\ now \in 0..(MaxTime + MaxDelay)
        BY <1>5 DEF WriteMessage, TypeOK
      <3> QED
        BY <3>1, <3>2, NoFileAssumption DEF Contents
    <2> QED
      BY <1>5, <1>2, <2>2 DEF WriteMessage, Drop, MailEnds
  <1> QED
    BY <1>3, <1>4, <1>5 DEF MailProg

\* MailProg puts a message into the spool that OCI has never seen.
LEMMA MailProgKeeps ==
    ASSUME SpoolInv, NEW m \in Msgs, MailProg(m)
    PROVE  SpoolInv'
  <1> USE DEF SpoolInv, SpoolSafe, history
  <1>1. TypeOK' /\ Chosen'
    BY MailProgTyped
  <1>2. mail \in [Msgs -> MailState] /\ spool \in [Msgs -> Contents \cup {None}]
        /\ accepted \in [Msgs -> Nat] /\ excused \in [Msgs -> Nat]
    BY DEF TypeOK
  <1>3. /\ UNCHANGED <<failed, lock, wk, accepted, excused, discarded>>
        /\ mail[m].pc # "queued"
        /\ \A x \in Msgs \ {m} : mail'[x] = mail[x] /\ spool'[x] = spool[x]
        /\ \/ spool'[m] = spool[m] /\ mail'[m].pc # "queued"
           \/ spool'[m] # None /\ mail'[m].pc = "queued"
    BY MailProgEffect
  <1>4. accepted[m] = 0
    BY <1>3 DEF FromMailProg
  <1>5. spool[m] = None
    BY <1>3 DEF FromMailProg
  <1>6. LockHeld' /\ HandledIsThere'
    BY <1>3, <1>5 DEF LockHeld, HandledIsThere, Handling
  <1>7. FromMailProg' /\ NoSilentLoss'
    BY <1>3, <1>4, <1>5 DEF FromMailProg, NoSilentLoss
  <1>8. OwedOrExcused'
    BY <1>2, <1>3, <1>4 DEF OwedOrExcused, Delivered
  <1>9. DeliveredOnce' /\ DuplicatesExcused'
    BY <1>3 DEF DeliveredOnce, DuplicatesExcused
  <1> QED
    BY <1>1, <1>6, <1>7, <1>8, <1>9

\* A run begins with the lock and nothing in hand, and lists the queue.
LEMMA StartKeeps ==
    ASSUME SpoolInv, NEW w \in Workers, StartRun(w) \/ ListQueue(w)
    PROVE  SpoolInv'
  <1> USE DEF SpoolInv, SpoolSafe, history
  <1>1. wk \in [Workers -> WorkerState]
    BY DEF TypeOK
  <1>2. /\ wk' \in [Workers -> WorkerState]
        /\ wk[w].pc \in {"idle", "list"} /\ wk'[w].pc \in {"list", "scan"}
        /\ lock' = w
        /\ \A v \in Workers \ {w} : wk[v].pc = "idle" /\ wk'[v] = wk[v]
        /\ UNCHANGED <<now, topic, mail, spool, failed, faults, history>>
    <2>1. CASE StartRun(w)
      <3>1. [pc |-> "list", active |-> topic, todo |-> {}, cur |-> None,
             left |-> MaxPerRun] \in WorkerState
        BY DEF WorkerState, TypeOK
      <3> QED
        BY <1>1, <2>1, <3>1 DEF StartRun, LockHeld
    <2>2. CASE ListQueue(w)
      <3>1. [wk[w] EXCEPT !.pc = "scan", !.todo = Queued] \in WorkerState
        BY <1>1 DEF WorkerState, Queued
      <3>2. wk'[w].pc = "scan"
        BY <1>1, <2>2 DEF ListQueue, WorkerState
      <3> QED
        BY <1>1, <2>2, <3>1, <3>2 DEF ListQueue, LockHeld
    <2> QED
      BY <2>1, <2>2
  <1>3. TypeOK' /\ Chosen'
    BY <1>2 DEF TypeOK, Chosen
  <1>4. LockHeld' /\ HandledIsThere' /\ DeliveredOnce'
    BY <1>2 DEF LockHeld, HandledIsThere, Handling, DeliveredOnce
  <1>5. OwedOrExcused'
    BY <1>2 DEF OwedOrExcused, Delivered
  <1>6. FromMailProg' /\ NoSilentLoss' /\ DuplicatesExcused'
    BY <1>2 DEF FromMailProg, NoSilentLoss, DuplicatesExcused
  <1> QED
    BY <1>3, <1>4, <1>5, <1>6

\* A message that is examined leaves the spool only for failed/ or because its
\* user is routed elsewhere.
LEMMA ExamineKeeps ==
    ASSUME SpoolInv, NEW w \in Workers, NEW m \in Msgs, Examine(w, m)
    PROVE  SpoolInv'
  <1> USE DEF SpoolInv, SpoolSafe
  <1>1. /\ wk[w].pc = "scan" /\ spool[m] # None
        /\ wk' \in [Workers -> WorkerState]
        /\ \A v \in Workers \ {w} : wk'[v] = wk[v]
        /\ wk'[w].pc \in {"scan", "retry", "publish"}
        /\ wk'[w].pc # "scan" => wk'[w].cur = m /\ spool' = spool
        /\ spool' = spool \/ /\ spool' = [spool EXCEPT ![m] = None]
                             /\ m \in failed' \/ m \in discarded'
        /\ failed \subseteq failed' /\ failed' \subseteq Msgs
        /\ discarded \subseteq discarded' /\ discarded' \subseteq Msgs
        /\ tries' \in [Msgs -> Nat] /\ faults' \in 0..MaxFaults
        /\ UNCHANGED <<now, topic, mail, lock, accepted, excused>>
    BY ExamineEffect
  <1>2. /\ lock = w /\ \A v \in Workers \ {w} : wk[v].pc = "idle"
        /\ \A x \in Msgs : ~Delivered(x)
    BY <1>1, RunsAlone
  <1>3. spool \in [Msgs -> Contents \cup {None}]
    BY DEF TypeOK
  <1>4. spool' \in [Msgs -> Contents \cup {None}]
        /\ \A x \in Msgs : spool'[x] # None => spool[x] # None
    BY <1>1, <1>3
  <1>5. TypeOK' /\ Chosen'
    BY <1>1, <1>4 DEF TypeOK, Chosen
  <1>6. LockHeld' /\ HandledIsThere' /\ DeliveredOnce'
    BY <1>1, <1>2 DEF LockHeld, HandledIsThere, Handling, DeliveredOnce
  <1>7. OwedOrExcused'
    BY <1>1, <1>2, <1>4 DEF OwedOrExcused
  <1>8. FromMailProg' /\ DuplicatesExcused'
    BY <1>1, <1>4 DEF FromMailProg, DuplicatesExcused
  <1>9. NoSilentLoss'
    BY <1>1, <1>3 DEF NoSilentLoss
  <1> QED
    BY <1>5, <1>6, <1>7, <1>8, <1>9

\* A publish that OCI accepts is acknowledged, so that the file is removed next,
\* or its acknowledgement is lost, which excuses the next one.
LEMMA PublishKeeps ==
    ASSUME SpoolInv, NEW w \in Workers, Publish(w)
    PROVE  SpoolInv'
  <1> USE DEF SpoolInv, SpoolSafe, history
  <1> DEFINE m == wk[w].cur
  <1>1. /\ wk \in [Workers -> WorkerState]
        /\ accepted \in [Msgs -> Nat] /\ excused \in [Msgs -> Nat]
    BY DEF TypeOK
  <1>2. /\ wk[w].pc = "publish"
        /\ UNCHANGED <<now, topic, mail, spool, failed, lock, faults, tries, discarded>>
    BY DEF Publish
  <1>3. m \in Msgs /\ spool[m] # None /\ mail[m].pc = "queued"
    BY <1>2 DEF HandledIsThere, Handling, FromMailProg
  <1>4. /\ lock = w /\ \A v \in Workers \ {w} : wk[v].pc = "idle"
        /\ \A x \in Msgs : ~Delivered(x)
    BY <1>2, RunsAlone
  <1>5. /\ [wk EXCEPT ![w].pc = "unlink"] \in [Workers -> WorkerState]
        /\ [wk EXCEPT ![w].pc = "retry"] \in [Workers -> WorkerState]
    BY <1>1, <1>3, WorkerStateType
  <1>6. /\ wk' \in [Workers -> WorkerState]
        /\ wk'[w].cur = m /\ wk'[w].pc \in {"unlink", "retry"}
        /\ \A v \in Workers \ {w} : wk'[v] = wk[v]
    BY <1>1, <1>5 DEF Publish, WorkerGoto, WorkerState
  <1>7. /\ accepted' \in [Msgs -> Nat] /\ excused' \in [Msgs -> Nat]
        /\ \A x \in Msgs \ {m} : accepted'[x] = accepted[x] /\ excused'[x] = excused[x]
    BY <1>1, <1>3 DEF Publish, Accept, Excuse
  <1>8. \/ accepted'[m] = accepted[m] + 1 /\ excused'[m] = excused[m]
             /\ wk'[w].pc = "unlink"
        \/ accepted'[m] = accepted[m] /\ excused'[m] = excused[m]
             /\ wk'[w].pc = "retry"
        \/ accepted'[m] = accepted[m] + 1 /\ excused'[m] = excused[m] + 1
             /\ wk'[w].pc = "retry"
    BY <1>1, <1>3 DEF Publish, Accept, Excuse, WorkerGoto, WorkerState
  <1> HIDE DEF m
  <1>9. accepted[m] <= excused[m]
    BY <1>3, <1>4 DEF OwedOrExcused
  <1>10. TypeOK' /\ Chosen'
    BY <1>2, <1>6, <1>7 DEF TypeOK, Chosen
  <1>11. LockHeld' /\ HandledIsThere'
    BY <1>2, <1>3, <1>4, <1>6 DEF LockHeld, HandledIsThere, Handling
  <1>12. DeliveredOnce'
    BY <1>1, <1>3, <1>4, <1>6, <1>8 DEF DeliveredOnce
  <1>13. FromMailProg'
    BY <1>2, <1>3, <1>7 DEF FromMailProg
  <1>14. OwedOrExcused'
    <2> SUFFICES ASSUME NEW x \in Msgs, spool'[x] # None, ~Delivered(x)'
                 PROVE  accepted'[x] <= excused'[x]
      BY DEF OwedOrExcused
    <2>1. CASE x = m
      <3>1. wk'[w].pc # "unlink"
        BY <2>1, <1>6 DEF Delivered
      <3> QED
        BY <2>1, <3>1, <1>1, <1>3, <1>8, <1>9
    <2>2. CASE x # m
      BY <2>2, <1>2, <1>4, <1>7 DEF OwedOrExcused
    <2> QED
      BY <2>1, <2>2
  <1>15. NoSilentLoss'
    BY <1>1, <1>2, <1>3, <1>7, <1>8 DEF NoSilentLoss
  <1>16. DuplicatesExcused'
    BY <1>1, <1>3, <1>7, <1>8, <1>9 DEF DuplicatesExcused
  <1> QED
    BY <1>10, <1>11, <1>12, <1>13, <1>14, <1>15, <1>16

\* A handled message is let go of: what is still in the spool then has no
\* acceptance that is not excused, and what has left it has been accepted or is
\* in failed/.
LEMMA LetGo ==
    ASSUME SpoolInv, NEW w \in Workers, NEW m \in Msgs,
           wk[w].pc \in Handling, m = wk[w].cur,
           wk' \in [Workers -> WorkerState], wk'[w].pc \in {"scan", "idle"},
           \A v \in Workers \ {w} : wk'[v] = wk[v],
           lock' = IF wk'[w].pc = "idle" THEN None ELSE lock,
           spool' \in [Msgs -> Contents \cup {None}],
           excused' \in [Msgs -> Nat], accepted' \in [Msgs -> Nat],
           \A x \in Msgs \ {m} : /\ spool'[x] = spool[x]
                                 /\ accepted'[x] = accepted[x] /\ excused'[x] = excused[x],
           failed \subseteq failed', failed' \subseteq Msgs, faults' \in 0..MaxFaults,
           UNCHANGED <<now, topic, mail, tries, discarded>>,
           accepted'[m] <= 1 + excused'[m],
           spool'[m] # None => accepted'[m] <= excused'[m],
           spool'[m] = None => accepted'[m] > 0 \/ m \in failed'
    PROVE  SpoolInv'
  <1> USE DEF SpoolInv, SpoolSafe
  <1>1. spool[m] # None /\ mail[m].pc = "queued"
    BY DEF HandledIsThere, FromMailProg
  <1>2. lock = w /\ \A v \in Workers \ {w} : wk[v].pc = "idle"
    BY RunsAlone DEF Handling
  <1>3. \A x \in Msgs \ {m} : ~Delivered(x)
    BY <1>2 DEF Delivered
  <1>4. TypeOK' /\ Chosen'
    <2>1. lock' \in Workers \cup {None}
      BY <1>2
    <2> QED
      BY <2>1 DEF TypeOK, Chosen
  <1>5. LockHeld' /\ HandledIsThere' /\ DeliveredOnce'
    BY <1>2 DEF LockHeld, HandledIsThere, Handling, DeliveredOnce
  <1>6. FromMailProg'
    BY <1>1 DEF FromMailProg
  <1>7. OwedOrExcused'
    BY <1>3 DEF OwedOrExcused
  <1>8. NoSilentLoss' /\ DuplicatesExcused'
    BY DEF NoSilentLoss, DuplicatesExcused
  <1> QED
    BY <1>4, <1>5, <1>6, <1>7, <1>8

\* A delivered message is removed, archived, or its second delivery excused.
LEMMA RemoveKeeps ==
    ASSUME SpoolInv, NEW w \in Workers, RemoveDelivered(w)
    PROVE  SpoolInv'
  <1> DEFINE m == wk[w].cur
  <1>1. /\ wk \in [Workers -> WorkerState] /\ spool \in [Msgs -> Contents \cup {None}]
        /\ accepted \in [Msgs -> Nat] /\ excused \in [Msgs -> Nat]
        /\ failed \subseteq Msgs /\ faults \in 0..MaxFaults
    BY DEF TypeOK, SpoolInv
  <1>2. /\ wk[w].pc = "unlink"
        /\ UNCHANGED <<now, topic, mail, lock, accepted, tries, discarded>>
    BY DEF RemoveDelivered
  <1>3. m \in Msgs /\ accepted[m] > 0 /\ accepted[m] <= 1 + excused[m]
    BY <1>2 DEF HandledIsThere, Handling, DeliveredOnce, DuplicatesExcused,
       SpoolInv, SpoolSafe
  <1>4. wk' = [wk EXCEPT ![w].pc = "scan", ![w].cur = None]
    BY DEF RemoveDelivered, Scanning
  <1>5. wk' \in [Workers -> WorkerState] /\ wk'[w].pc = "scan"
        /\ \A v \in Workers \ {w} : wk'[v] = wk[v]
    <2>1. wk' \in [Workers -> WorkerState]
      BY <1>1, <1>3, <1>4, WorkerStateType
    <2> QED
      BY <2>1, <1>1, <1>4 DEF WorkerState
  <1>6. /\ \/ spool' = [spool EXCEPT ![m] = None] /\ UNCHANGED excused
           \/ spool' = spool /\ excused' = [excused EXCEPT ![m] = @ + 1]
        /\ failed \subseteq failed' /\ failed' \subseteq Msgs
        /\ faults' \in 0..MaxFaults
    BY <1>1, <1>3 DEF RemoveDelivered, Fault, Excuse
  <1>7. spool' \in [Msgs -> Contents \cup {None}] /\ excused' \in [Msgs -> Nat]
        /\ \A x \in Msgs \ {m} : spool'[x] = spool[x] /\ excused'[x] = excused[x]
        /\ accepted'[m] <= 1 + excused'[m]
        /\ (spool'[m] # None => accepted'[m] <= excused'[m])
    <2>1. CASE spool' = [spool EXCEPT ![m] = None] /\ UNCHANGED excused
      BY <2>1, <1>1, <1>2, <1>3
    <2>2. CASE spool' = spool /\ excused' = [excused EXCEPT ![m] = @ + 1]
      BY <2>2, <1>1, <1>2, <1>3
    <2> QED
      BY <2>1, <2>2, <1>6
  <1> HIDE DEF m
  <1> QED
    BY <1>1, <1>2, <1>3, <1>5, <1>6, <1>7, LetGo DEF Handling, m

\* A failed delivery is retained for its next attempt, or goes to failed/.
LEMMA RetryKeeps ==
    ASSUME SpoolInv, NEW w \in Workers, MarkRetry(w)
    PROVE  SpoolInv'
  <1> DEFINE m == wk[w].cur
             n == spool[m].attempts + 1
  <1>1. /\ wk \in [Workers -> WorkerState] /\ spool \in [Msgs -> Contents \cup {None}]
        /\ accepted \in [Msgs -> Nat] /\ excused \in [Msgs -> Nat]
        /\ failed \subseteq Msgs /\ faults \in 0..MaxFaults
    BY DEF TypeOK, SpoolInv
  <1>2. /\ wk[w].pc = "retry"
        /\ UNCHANGED <<now, topic, mail, lock, accepted, excused, tries, discarded>>
    BY DEF MarkRetry, history
  <1>3. m \in Msgs /\ spool[m] # None
    BY <1>2 DEF HandledIsThere, Handling, SpoolInv, SpoolSafe
  <1>4. accepted[m] <= excused[m]
    BY <1>2, <1>3, RunsAlone DEF OwedOrExcused, SpoolInv, SpoolSafe
  <1>5. wk' = [wk EXCEPT ![w].pc = "scan", ![w].cur = None]
    BY DEF MarkRetry, Scanning
  <1>6. wk' \in [Workers -> WorkerState] /\ wk'[w].pc = "scan"
        /\ \A v \in Workers \ {w} : wk'[v] = wk[v]
    <2>1. wk' \in [Workers -> WorkerState]
      BY <1>1, <1>3, <1>5, WorkerStateType
    <2> QED
      BY <2>1, <1>1, <1>5 DEF WorkerState
  <1>7. [spool[m] EXCEPT !.attempts = n, !.next = now + RetryDelay(n)] \in Contents
    BY <1>3, RetriedType DEF SpoolInv
  <1>8. /\ \/ spool' = [spool EXCEPT ![m] = None] /\ m \in failed'
           \/ spool' = [spool EXCEPT ![m].attempts = n, ![m].next = now + RetryDelay(n)]
           \/ spool' = spool
        /\ failed \subseteq failed' /\ failed' \subseteq Msgs
        /\ faults' \in 0..MaxFaults
    <2> HIDE DEF n
    <2>1. CASE /\ now >= spool[m].expires
               /\ spool' = [spool EXCEPT ![m] = None]
               /\ failed' = failed \cup {m}
               /\ UNCHANGED faults
      BY <2>1, <1>1, <1>3
    <2>2. CASE /\ spool' = [spool EXCEPT ![m].attempts = n,
                                         ![m].next = now + RetryDelay(n)]
               /\ UNCHANGED <<failed, faults>>
      BY <2>2, <1>1
    <2>3. CASE Fault /\ UNCHANGED <<spool, failed>>
      BY <2>3, <1>1 DEF Fault
    <2> QED
      BY <2>1, <2>2, <2>3 DEF MarkRetry, n
  <1>9. /\ spool' \in [Msgs -> Contents \cup {None}]
        /\ \A x \in Msgs \ {m} : spool'[x] = spool[x]
        /\ spool'[m] = None => m \in failed'
    <2> HIDE DEF n
    <2>1. CASE spool' = [spool EXCEPT ![m] = None] /\ m \in failed'
      BY <2>1, <1>1, <1>3
    <2>2. CASE spool' = [spool EXCEPT ![m].attempts = n, ![m].next = now + RetryDelay(n)]
      <3> DEFINE r == [spool[m] EXCEPT !.attempts = n, !.next = now + RetryDelay(n)]
      <3>1. spool' = [spool EXCEPT ![m] = r]
        BY <2>2
      <3>2. r \in Contents
        BY <1>7
      <3> HIDE DEF r
      <3> QED
        BY <3>1, <3>2, <1>1, <1>3, NoFileAssumption
    <2>3. CASE spool' = spool
      BY <2>3, <1>1, <1>3
    <2> QED
      BY <2>1, <2>2, <2>3, <1>8
  <1> HIDE DEF m
  <1>10. accepted'[m] <= excused'[m] /\ accepted'[m] <= 1 + excused'[m]
    BY <1>1, <1>2, <1>3, <1>4
  <1> QED
    BY <1>1, <1>2, <1>3, <1>6, <1>8, <1>9, <1>10, LetGo DEF Handling, m

\* A run that ends, or is killed, with nothing in hand.
LEMMA LeavesEmptyHanded ==
    ASSUME SpoolInv, NEW w \in Workers, wk[w].pc \in {"list", "scan"},
           wk' = [wk EXCEPT ![w] = Resting], lock' = None, faults' \in 0..MaxFaults,
           UNCHANGED <<now, topic, mail, spool, failed, history>>
    PROVE  SpoolInv'
  <1> USE DEF SpoolInv, SpoolSafe, history
  <1>1. wk \in [Workers -> WorkerState]
    BY DEF TypeOK
  <1>2. /\ wk' \in [Workers -> WorkerState] /\ wk'[w].pc = "idle"
        /\ \A v \in Workers \ {w} : wk'[v] = wk[v]
    BY <1>1, RestingType DEF Resting
  <1>3. \A v \in Workers \ {w} : wk[v].pc = "idle"
    BY RunsAlone
  <1>4. TypeOK' /\ Chosen'
    BY <1>2 DEF TypeOK, Chosen
  <1>5. LockHeld' /\ HandledIsThere' /\ DeliveredOnce'
    BY <1>2, <1>3 DEF LockHeld, HandledIsThere, Handling, DeliveredOnce
  <1>6. OwedOrExcused'
    BY <1>2, <1>3 DEF OwedOrExcused, Delivered
  <1>7. FromMailProg' /\ NoSilentLoss' /\ DuplicatesExcused'
    BY DEF FromMailProg, NoSilentLoss, DuplicatesExcused
  <1> QED
    BY <1>4, <1>5, <1>6, <1>7

\* A killed worker forgets what it has done with its message, which stays.
LEMMA KillKeeps ==
    ASSUME SpoolInv, NEW w \in Workers, Kill(w)
    PROVE  SpoolInv'
  <1> DEFINE m == wk[w].cur
  <1>1. /\ wk \in [Workers -> WorkerState] /\ spool \in [Msgs -> Contents \cup {None}]
        /\ accepted \in [Msgs -> Nat] /\ excused \in [Msgs -> Nat]
        /\ failed \subseteq Msgs /\ faults \in 0..MaxFaults
    BY DEF TypeOK, SpoolInv
  <1>2. /\ wk[w].pc # "idle" /\ lock' = None /\ wk' = [wk EXCEPT ![w] = Resting]
        /\ faults' \in 0..MaxFaults
        /\ UNCHANGED <<now, topic, mail, spool, failed, tries, discarded>>
    BY <1>1 DEF Kill, Fault
  <1>3. CASE wk[w].pc \in {"list", "scan"}
    <2>1. UNCHANGED <<accepted, excused>>
      BY <1>3 DEF Kill
    <2> QED
      BY <1>2, <1>3, <2>1, LeavesEmptyHanded DEF history
  <1>4. CASE wk[w].pc \in Handling
    <2>1. m \in Msgs /\ spool[m] # None /\ accepted[m] <= 1 + excused[m]
          /\ (wk[w].pc # "unlink" => accepted[m] <= excused[m])
      BY <1>2, <1>4, RunsAlone
      DEF HandledIsThere, OwedOrExcused, DuplicatesExcused, SpoolInv, SpoolSafe
    <2>2. wk' \in [Workers -> WorkerState] /\ wk'[w].pc = "idle"
          /\ \A v \in Workers \ {w} : wk'[v] = wk[v]
      BY <1>1, <1>2, RestingType DEF Resting
    <2>3. \/ /\ wk[w].pc # "unlink"
             /\ accepted' = [accepted EXCEPT ![m] = @ + 1]
             /\ excused' = [excused EXCEPT ![m] = @ + 1]
          \/ wk[w].pc # "unlink" /\ UNCHANGED <<accepted, excused>>
          \/ excused' = [excused EXCEPT ![m] = @ + 1] /\ UNCHANGED accepted
      BY <1>4 DEF Kill, Handling, Accept, Excuse
    <2> HIDE DEF m
    <2>4. /\ excused' \in [Msgs -> Nat] /\ accepted' \in [Msgs -> Nat]
          /\ \A x \in Msgs \ {m} : accepted'[x] = accepted[x] /\ excused'[x] = excused[x]
          /\ accepted'[m] <= excused'[m] /\ accepted'[m] <= 1 + excused'[m]
      BY <2>1, <2>3, <1>1
    <2> QED
      BY <1>1, <1>2, <1>4, <2>1, <2>2, <2>4, LetGo DEF m
  <1> QED
    BY <1>1, <1>2, <1>3, <1>4 DEF WorkerState, Handling

-----------------------------------------------------------------------------
(* Theorems *)

\* An empty spool satisfies the invariant.
LEMMA SpoolInit == Init => SpoolInv
  <1> SUFFICES ASSUME Init PROVE SpoolInv
    OBVIOUS
  <1> USE DEF Init, Resting
  <1>1. TypeOK
    BY RestingType DEF TypeOK, MailState
  <1>2. Chosen /\ LockHeld /\ HandledIsThere /\ DeliveredOnce
    BY DEF Chosen, LockHeld, HandledIsThere, Handling, DeliveredOnce
  <1>3. FromMailProg /\ OwedOrExcused /\ NoSilentLoss /\ DuplicatesExcused
    BY DEF FromMailProg, OwedOrExcused, NoSilentLoss, DuplicatesExcused
  <1> QED
    BY <1>1, <1>2, <1>3 DEF SpoolInv, SpoolSafe

\* Every step of MailProg, the worker and their environment keeps it.
LEMMA SpoolStep == SpoolInv /\ [Next]_vars => SpoolInv'
  <1> SUFFICES ASSUME SpoolInv, [Next]_vars PROVE SpoolInv'
    OBVIOUS
  <1>1. CASE Tick \/ \E t \in Topics \cup {NoTopic} : Reroute(t)
    BY <1>1, EnvironmentKeeps
  <1>2. ASSUME NEW m \in Msgs, MailProg(m) PROVE SpoolInv'
    BY <1>2, MailProgKeeps
  <1>3. ASSUME NEW w \in Workers, StartRun(w) PROVE SpoolInv'
    BY <1>3, StartKeeps
  <1>4. ASSUME NEW w \in Workers, WorkerStep(w) PROVE SpoolInv'
    <2>1. ASSUME NEW m \in Msgs, Examine(w, m) PROVE SpoolInv'
      BY <2>1, ExamineKeeps
    <2>2. CASE Publish(w)
      BY <2>2, PublishKeeps
    <2>3. CASE RemoveDelivered(w)
      BY <2>3, RemoveKeeps
    <2>4. CASE MarkRetry(w)
      BY <2>4, RetryKeeps
    <2>5. CASE EndRun(w)
      <3>1. faults' \in 0..MaxFaults
        BY <2>5 DEF EndRun, SpoolInv, TypeOK
      <3> QED
        BY <2>5, <3>1, LeavesEmptyHanded DEF EndRun
    <2> QED
      BY <1>4, <2>1, <2>2, <2>3, <2>4, <2>5, StartKeeps DEF WorkerStep
  <1>5. ASSUME NEW w \in Workers, Kill(w) PROVE SpoolInv'
    BY <1>5, KillKeeps
  <1>6. CASE UNCHANGED vars
    BY <1>6 DEF vars, history, SpoolInv, SpoolSafe, TypeOK, Chosen, LockHeld,
       HandledIsThere, FromMailProg, OwedOrExcused, DeliveredOnce, NoSilentLoss,
       DuplicatesExcused, Delivered
  <1> QED
    BY <1>1, <1>2, <1>3, <1>4, <1>5, <1>6 DEF Next, Rest

\* Hence it always holds.
LEMMA SpoolInvHolds == Spec => []SpoolInv
  BY SpoolInit, SpoolStep, PTL DEF Spec

\* Every file in the spool is one that MailProg or mark_retry wrote, and no run
\* ever has more than MAX_PUBLISH_ATTEMPTS_PER_RUN attempts left.
THEOREM TypeCorrect == Spec => []TypeOK
  BY SpoolInvHolds, PTL DEF SpoolInv

\* No queued message is lost without a trace, however MailProg, the worker, the
\* operators and the failures interleave.
THEOREM NoSilentLossHolds == Spec => []NoSilentLoss
  BY SpoolInvHolds, PTL DEF SpoolInv, SpoolSafe

\* OCI accepts a message once, and once more for every acknowledgement that is
\* lost or forgotten.
THEOREM DuplicatesExcusedHolds == Spec => []DuplicatesExcused
  BY SpoolInvHolds, PTL DEF SpoolInv, SpoolSafe

-----------------------------------------------------------------------------
(* The spool is an at-least-once queue *)

\* What DeliverySpec needs on top of SpoolInv: a message that is not queued yet,
\* or still is, has neither been archived nor discarded.
LeftOnce ==
    \A m \in Msgs : (mail[m].pc # "queued" \/ spool[m] # None) =>
        m \notin failed /\ m \notin discarded

\* The steps of AtLeastOnce in terms of the variables of NotifySpool.

\* A step that changes nobody's status is a stutter of the promise.
LEMMA DeliveryStutters ==
    ASSUME \A m \in Msgs : UNCHANGED Status(m), UNCHANGED <<accepted, excused>>
    PROVE  Delivery!Next
  <1>1. Worthless' \subseteq Msgs
    BY DEF Worthless, Queued
  <1> QED
    BY <1>1 DEF Delivery!Next

\* A message is put into the queue.
LEMMA DeliverySends ==
    ASSUME NEW m \in Msgs, \A x \in Msgs \ {m} : UNCHANGED Status(x),
           Status(m) = "unsent", Status(m)' = "queued", UNCHANGED <<accepted, excused>>
    PROVE  Delivery!Next
  <1>1. Worthless' \subseteq Msgs
    BY DEF Worthless, Queued
  <1>2. Delivery!Send(m)
    BY DEF Delivery!Send, Delivery!Becomes
  <1> QED
    BY <1>1, <1>2 DEF Delivery!Next

\* OCI accepts a message, and the worker learns that or does not.
LEMMA DeliveryHandsOver ==
    ASSUME NEW m \in Msgs, \A x \in Msgs \ {m} : UNCHANGED Status(x),
           Status(m) = "queued", \A x \in Msgs : Status(x) # "confirmed", Accept(m),
           \/ Status(m)' = "confirmed" /\ UNCHANGED excused
           \/ Status(m)' = "queued" /\ Excuse(m)
    PROVE  Delivery!Next
  <1>1. Worthless' \subseteq Msgs
    BY DEF Worthless, Queued
  <1>2. Delivery!HandOver(m)
    BY DEF Delivery!HandOver, Delivery!Becomes, Delivery!Once, Accept, Excuse
  <1> QED
    BY <1>1, <1>2 DEF Delivery!Next

\* A worker does not live to remove what it has delivered, or cannot.
LEMMA DeliveryForgets ==
    ASSUME NEW m \in Msgs, \A x \in Msgs \ {m} : UNCHANGED Status(x),
           Status(m) = "confirmed", Status(m)' = "queued", Excuse(m), UNCHANGED accepted
    PROVE  Delivery!Next
  <1>1. Worthless' \subseteq Msgs
    BY DEF Worthless, Queued
  <1>2. Delivery!Forget(m)
    BY DEF Delivery!Forget, Delivery!Becomes, Delivery!Once, Excuse
  <1> QED
    BY <1>1, <1>2 DEF Delivery!Next

\* A file leaves the spool.
LEMMA DeliveryLeaves ==
    ASSUME NEW m \in Msgs, \A x \in Msgs \ {m} : UNCHANGED Status(x),
           UNCHANGED <<accepted, excused>>,
           \/ Status(m) = "confirmed" /\ Status(m)' \in {"delivered", "archived"}
           \/ /\ Status(m) = "queued" /\ Status(m)' \in {"archived", "discarded"}
              /\ m \in Worthless
    PROVE  Delivery!Next
  <1>1. Worthless' \subseteq Msgs
    BY DEF Worthless, Queued
  <1>2. Delivery!Leave(m)
    BY DEF Delivery!Leave, Delivery!Becomes
  <1> QED
    BY <1>1, <1>2 DEF Delivery!Next

\* The status of a message that is there, and of one that has left.
LEMMA StatusIs ==
    ASSUME NEW m \in Msgs
    PROVE  /\ mail[m].pc # "queued" => Status(m) = "unsent"
           /\ (mail[m].pc = "queued" /\ spool[m] # None) =>
                Status(m) = IF Delivered(m) THEN "confirmed" ELSE "queued"
           /\ (mail[m].pc = "queued" /\ spool[m] = None) =>
                Status(m) = IF m \in discarded THEN "discarded"
                            ELSE IF m \in failed THEN "archived" ELSE "delivered"
           /\ mail'[m].pc # "queued" => Status(m)' = "unsent"
           /\ (mail'[m].pc = "queued" /\ spool'[m] # None) =>
                Status(m)' = IF Delivered(m)' THEN "confirmed" ELSE "queued"
           /\ (mail'[m].pc = "queued" /\ spool'[m] = None) =>
                Status(m)' = IF m \in discarded' THEN "discarded"
                             ELSE IF m \in failed' THEN "archived" ELSE "delivered"
  BY DEF Status

\* A message of which nothing that matters changes has the status it had.
LEMMA StatusSame ==
    ASSUME NEW m \in Msgs, mail'[m].pc = mail[m].pc,
           spool'[m] = None <=> spool[m] = None,
           m \in failed' <=> m \in failed, m \in discarded' <=> m \in discarded,
           Delivered(m)' <=> Delivered(m)
    PROVE  UNCHANGED Status(m)
  BY StatusIs

\* Only the worker that runs can be about to remove a file.
LEMMA OneDelivers ==
    ASSUME NEW w \in Workers,
           \A v \in Workers \ {w} : wk[v].pc = "idle" /\ wk'[v] = wk[v]
    PROVE  \A m \in Msgs : /\ Delivered(m) <=> wk[w].pc = "unlink" /\ wk[w].cur = m
                           /\ Delivered(m)' <=> wk'[w].pc = "unlink" /\ wk'[w].cur = m
  BY DEF Delivered

\* The clock and the registry.
LEMMA EnvironmentDelivers ==
    ASSUME SpoolInv, LeftOnce, Tick \/ \E t \in Topics \cup {NoTopic} : Reroute(t)
    PROVE  LeftOnce' /\ Delivery!Next
  <1>1. UNCHANGED <<mail, spool, failed, wk, accepted, excused, discarded>>
    BY DEF Tick, Reroute, history
  <1>2. \A m \in Msgs : UNCHANGED Status(m)
    BY <1>1, StatusSame DEF Delivered
  <1> QED
    BY <1>1, <1>2, DeliveryStutters DEF LeftOnce

\* MailProg sends a message once.
LEMMA MailProgDelivers ==
    ASSUME SpoolInv, LeftOnce, NEW m \in Msgs, MailProg(m)
    PROVE  LeftOnce' /\ Delivery!Next
  <1>1. /\ UNCHANGED <<failed, lock, wk, accepted, excused, discarded>>
        /\ mail[m].pc # "queued"
        /\ \A x \in Msgs \ {m} : mail'[x] = mail[x] /\ spool'[x] = spool[x]
        /\ \/ spool'[m] = spool[m] /\ mail'[m].pc # "queued"
           \/ spool'[m] # None /\ mail'[m].pc = "queued"
    BY MailProgEffect
  <1>2. LeftOnce'
    BY <1>1 DEF LeftOnce
  <1>3. \A x \in Msgs : Delivered(x)' <=> Delivered(x)
    BY <1>1 DEF Delivered
  <1>4. \A x \in Msgs \ {m} : UNCHANGED Status(x)
    BY <1>1, <1>3, StatusSame
  <1>5. Status(m) = "unsent"
    BY <1>1, StatusIs
  <1>6. CASE mail'[m].pc # "queued"
    <2>1. Status(m)' = "unsent"
      BY <1>6, StatusIs
    <2>2. \A x \in Msgs : UNCHANGED Status(x)
      BY <1>4, <1>5, <2>1
    <2> QED
      BY <1>1, <1>2, <2>2, DeliveryStutters
  <1>7. CASE spool'[m] # None /\ mail'[m].pc = "queued"
    <2>1. ~Delivered(m)
      BY <1>1 DEF Delivered, SpoolInv, SpoolSafe, HandledIsThere, Handling, FromMailProg
    <2>2. Status(m)' = "queued"
      BY <1>3, <1>7, <2>1, StatusIs
    <2> QED
      BY <1>1, <1>2, <1>4, <1>5, <2>2, DeliverySends
  <1> QED
    BY <1>1, <1>6, <1>7

\* A worker that begins, or ends a run with nothing in hand, changes nothing for
\* any message.
LEMMA NothingInHandDelivers ==
    ASSUME SpoolInv, LeftOnce, NEW w \in Workers,
           \A v \in Workers \ {w} : wk[v].pc = "idle" /\ wk'[v] = wk[v],
           {wk[w].pc, wk'[w].pc} \subseteq {"idle", "list", "scan"},
           UNCHANGED <<mail, spool, failed, accepted, excused, discarded>>
    PROVE  LeftOnce' /\ Delivery!Next
  <1>1. \A x \in Msgs : Delivered(x)' <=> Delivered(x)
    BY OneDelivers
  <1>2. \A x \in Msgs : UNCHANGED Status(x)
    BY <1>1, StatusSame
  <1> QED
    BY <1>2, DeliveryStutters DEF LeftOnce

\* A file that is not published leaves the spool because it is worthless, and
\* once.
LEMMA ExamineLeaves ==
    ASSUME NEW w \in Workers, NEW m \in Msgs, Examine(w, m)
    PROVE  \/ UNCHANGED <<spool, failed, discarded>>
           \/ /\ spool' = [spool EXCEPT ![m] = None]
              /\ m \in Worthless
              /\ \/ failed' = failed \cup {m} /\ UNCHANGED discarded
                 \/ discarded' = discarded \cup {m} /\ UNCHANGED failed
  <1> USE DEF Pending, history
  <1>1. CASE Skip(w, m)
    BY <1>1 DEF Skip
  <1>2. CASE Quarantine(w, m)
    BY <1>2 DEF Quarantine, ToFailed, Worthless, Queued
  <1>3. CASE Expire(w, m)
    BY <1>3 DEF Expire, ToFailed, Refused, Worthless, Queued
  <1>4. CASE Discard(w, m)
    BY <1>4 DEF Discard, Refused, Worthless, Queued, Astray
  <1>5. CASE BeginAttempt(w, m)
    BY <1>5 DEF BeginAttempt, Attempt, Refused
  <1> QED
    BY <1>1, <1>2, <1>3, <1>4, <1>5 DEF Examine

\* Examining a message is a stutter, or the message leaves.
LEMMA ExamineDelivers ==
    ASSUME SpoolInv, LeftOnce, NEW w \in Workers, NEW m \in Msgs, Examine(w, m)
    PROVE  LeftOnce' /\ Delivery!Next
  <1>1. /\ wk[w].pc = "scan" /\ spool[m] # None
        /\ \A v \in Workers \ {w} : wk'[v] = wk[v]
        /\ wk'[w].pc \in {"scan", "retry", "publish"}
        /\ UNCHANGED <<mail, accepted, excused>>
    BY ExamineEffect DEF SpoolInv
  <1>2. /\ spool \in [Msgs -> Contents \cup {None}] /\ mail[m].pc = "queued"
        /\ \A v \in Workers \ {w} : wk[v].pc = "idle"
    BY <1>1, RunsAlone DEF SpoolInv, SpoolSafe, TypeOK, FromMailProg
  <1>3. \A x \in Msgs : ~Delivered(x) /\ ~Delivered(x)'
    BY <1>1, <1>2, OneDelivers
  <1>4. CASE UNCHANGED <<spool, failed, discarded>>
    <2>1. \A x \in Msgs : UNCHANGED Status(x)
      BY <1>1, <1>3, <1>4, StatusSame
    <2> QED
      BY <1>1, <1>4, <2>1, DeliveryStutters DEF LeftOnce
  <1>5. CASE /\ spool' = [spool EXCEPT ![m] = None]
             /\ m \in Worthless
             /\ \/ failed' = failed \cup {m} /\ UNCHANGED discarded
                \/ discarded' = discarded \cup {m} /\ UNCHANGED failed
    <2>1. /\ spool'[m] = None
          /\ \A x \in Msgs \ {m} : /\ spool'[x] = spool[x]
                                   /\ x \in failed' <=> x \in failed
                                   /\ x \in discarded' <=> x \in discarded
      BY <1>2, <1>5
    <2>2. LeftOnce'
      BY <1>1, <1>2, <2>1 DEF LeftOnce
    <2>3. \A x \in Msgs \ {m} : UNCHANGED Status(x)
      BY <1>1, <1>3, <2>1, StatusSame
    <2>4. Status(m) = "queued" /\ Status(m)' \in {"archived", "discarded"}
      BY <1>1, <1>2, <1>3, <1>5, <2>1, StatusIs
    <2> QED
      BY <1>1, <1>5, <2>2, <2>3, <2>4, DeliveryLeaves
  <1> QED
    BY <1>4, <1>5, ExamineLeaves

\* A worker deals with the message that it has in hand: no other status changes,
\* and the new one follows from its file, from failed/ and from what comes next.
LEMMA InHandDelivers ==
    ASSUME SpoolInv, LeftOnce, NEW w \in Workers, NEW m \in Msgs,
           wk[w].pc \in Handling, m = wk[w].cur,
           \A v \in Workers \ {w} : wk'[v] = wk[v],
           wk'[w].pc # "idle" => wk'[w].cur \in {m, None},
           UNCHANGED <<mail, discarded>>,
           spool' \in [Msgs -> Contents \cup {None}],
           \A x \in Msgs \ {m} : spool'[x] = spool[x],
           \/ UNCHANGED failed
           \/ failed' = failed \cup {m} /\ spool'[m] = None
    PROVE  /\ LeftOnce'
           /\ \A x \in Msgs \ {m} : UNCHANGED Status(x)
           /\ \A x \in Msgs : Status(x) = "confirmed" => wk[w].pc = "unlink" /\ x = m
           /\ Status(m) = IF wk[w].pc = "unlink" THEN "confirmed" ELSE "queued"
           /\ spool'[m] # None =>
                Status(m)' = IF wk'[w].pc = "unlink" /\ wk'[w].cur = m
                             THEN "confirmed" ELSE "queued"
           /\ spool'[m] = None =>
                Status(m)' = IF m \in failed' THEN "archived" ELSE "delivered"
  <1>1. /\ spool[m] # None /\ mail[m].pc = "queued" /\ m # None
        /\ \A v \in Workers \ {w} : wk[v].pc = "idle"
    BY RunsAlone
    DEF Handling, SpoolInv, SpoolSafe, HandledIsThere, FromMailProg
  <1>2. m \notin failed /\ m \notin discarded
    BY <1>1 DEF LeftOnce
  <1>3. LeftOnce'
    BY <1>1 DEF LeftOnce
  <1>4. \A x \in Msgs : /\ Delivered(x) <=> wk[w].pc = "unlink" /\ x = m
                        /\ Delivered(x)' <=> wk'[w].pc = "unlink" /\ x = wk'[w].cur
    BY <1>1, OneDelivers
  <1>5. \A x \in Msgs \ {m} : ~Delivered(x) /\ ~Delivered(x)'
    BY <1>4
  <1>6. \A x \in Msgs \ {m} : UNCHANGED Status(x)
    BY <1>5, StatusSame
  <1>7. \A x \in Msgs : Status(x) = "confirmed" => Delivered(x)
    BY DEF Status
  <1>8. Status(m) = IF wk[w].pc = "unlink" THEN "confirmed" ELSE "queued"
    BY <1>1, <1>4, StatusIs
  <1>9. spool'[m] # None =>
          Status(m)' = IF wk'[w].pc = "unlink" /\ wk'[w].cur = m
                       THEN "confirmed" ELSE "queued"
    BY <1>1, <1>4, StatusIs
  <1>10. spool'[m] = None =>
           Status(m)' = IF m \in failed' THEN "archived" ELSE "delivered"
    BY <1>1, <1>2, StatusIs
  <1> QED
    BY <1>3, <1>4, <1>6, <1>7, <1>8, <1>9, <1>10

\* Publishing hands the message over, or changes nothing.
LEMMA PublishDelivers ==
    ASSUME SpoolInv, LeftOnce, NEW w \in Workers, Publish(w)
    PROVE  LeftOnce' /\ Delivery!Next
  <1>1. /\ wk \in [Workers -> WorkerState] /\ spool \in [Msgs -> Contents \cup {None}]
    BY DEF SpoolInv, TypeOK
  <1>2. wk[w].pc = "publish" /\ UNCHANGED <<mail, spool, failed, discarded>>
    BY DEF Publish
  <1>3. PICK m \in Msgs : m = wk[w].cur /\ spool[m] # None
    BY <1>2 DEF SpoolInv, SpoolSafe, HandledIsThere, Handling
  <1>4. /\ \A v \in Workers \ {w} : wk'[v] = wk[v]
        /\ wk'[w].cur = m
        /\ \/ wk'[w].pc = "unlink" /\ Accept(m) /\ UNCHANGED excused
           \/ wk'[w].pc = "retry" /\ UNCHANGED <<accepted, excused>>
           \/ wk'[w].pc = "retry" /\ Accept(m) /\ Excuse(m)
    BY <1>1, <1>3 DEF Publish, WorkerGoto, WorkerState
  <1>5. /\ LeftOnce'
        /\ \A x \in Msgs \ {m} : UNCHANGED Status(x)
        /\ \A x \in Msgs : Status(x) # "confirmed"
        /\ Status(m) = "queued"
        /\ Status(m)' = IF wk'[w].pc = "unlink" THEN "confirmed" ELSE "queued"
    BY <1>1, <1>2, <1>3, <1>4, InHandDelivers DEF Handling
  <1>6. CASE wk'[w].pc = "unlink" /\ Accept(m) /\ UNCHANGED excused
    BY <1>3, <1>5, <1>6, DeliveryHandsOver
  <1>7. CASE wk'[w].pc = "retry" /\ UNCHANGED <<accepted, excused>>
    <2>1. \A x \in Msgs : UNCHANGED Status(x)
      BY <1>5, <1>7
    <2> QED
      BY <1>5, <1>7, <2>1, DeliveryStutters
  <1>8. CASE wk'[w].pc = "retry" /\ Accept(m) /\ Excuse(m)
    BY <1>3, <1>5, <1>8, DeliveryHandsOver
  <1> QED
    BY <1>4, <1>6, <1>7, <1>8

\* A delivered file leaves the spool, or its delivery is forgotten.
LEMMA RemoveDelivers ==
    ASSUME SpoolInv, LeftOnce, NEW w \in Workers, RemoveDelivered(w)
    PROVE  LeftOnce' /\ Delivery!Next
  <1>1. /\ wk \in [Workers -> WorkerState] /\ spool \in [Msgs -> Contents \cup {None}]
    BY DEF SpoolInv, TypeOK
  <1>2. wk[w].pc = "unlink" /\ UNCHANGED <<mail, accepted, discarded>>
    BY DEF RemoveDelivered
  <1>3. PICK m \in Msgs : m = wk[w].cur /\ spool[m] # None
    BY <1>2 DEF SpoolInv, SpoolSafe, HandledIsThere, Handling
  <1>4. wk'[w].pc = "scan" /\ wk'[w].cur = None
        /\ \A v \in Workers \ {w} : wk'[v] = wk[v]
    BY <1>1 DEF RemoveDelivered, Scanning, WorkerState
  <1>5. \/ /\ spool' = [spool EXCEPT ![m] = None]
           /\ failed' = failed \/ failed' = failed \cup {m}
           /\ UNCHANGED excused
        \/ Excuse(m) /\ UNCHANGED <<spool, failed>>
    BY <1>3 DEF RemoveDelivered
  <1>6. /\ spool' \in [Msgs -> Contents \cup {None}]
        /\ \A x \in Msgs \ {m} : spool'[x] = spool[x]
        /\ UNCHANGED failed \/ (failed' = failed \cup {m} /\ spool'[m] = None)
    <2>1. CASE /\ spool' = [spool EXCEPT ![m] = None]
               /\ failed' = failed \/ failed' = failed \cup {m}
      BY <1>1, <2>1
    <2>2. CASE UNCHANGED <<spool, failed>>
      BY <1>1, <2>2
    <2> QED
      BY <1>5, <2>1, <2>2
  <1>7. /\ LeftOnce'
        /\ \A x \in Msgs \ {m} : UNCHANGED Status(x)
        /\ Status(m) = "confirmed"
        /\ spool'[m] # None => Status(m)' = "queued"
        /\ spool'[m] = None => Status(m)' \in {"delivered", "archived"}
    BY <1>1, <1>2, <1>3, <1>4, <1>6, InHandDelivers DEF Handling
  <1>8. CASE spool' = [spool EXCEPT ![m] = None] /\ UNCHANGED excused
    <2>1. spool'[m] = None
      BY <1>1, <1>3, <1>8
    <2> QED
      BY <1>2, <1>3, <1>7, <1>8, <2>1, DeliveryLeaves
  <1>9. CASE Excuse(m) /\ UNCHANGED <<spool, failed>>
    BY <1>2, <1>3, <1>7, <1>9, DeliveryForgets
  <1> QED
    BY <1>5, <1>8, <1>9

\* A failed delivery changes nothing, until the message has expired.
LEMMA RetryDelivers ==
    ASSUME SpoolInv, LeftOnce, NEW w \in Workers, MarkRetry(w)
    PROVE  LeftOnce' /\ Delivery!Next
  <1>1. /\ wk \in [Workers -> WorkerState] /\ spool \in [Msgs -> Contents \cup {None}]
    BY DEF SpoolInv, TypeOK
  <1>2. wk[w].pc = "retry" /\ UNCHANGED <<mail, accepted, excused, discarded>>
    BY DEF MarkRetry, history
  <1>3. PICK m \in Msgs : m = wk[w].cur /\ spool[m] # None
    BY <1>2 DEF SpoolInv, SpoolSafe, HandledIsThere, Handling
  <1> DEFINE r == [spool[m] EXCEPT !.attempts = spool[m].attempts + 1,
                                   !.next = now + RetryDelay(spool[m].attempts + 1)]
  <1>4. wk'[w].pc = "scan" /\ wk'[w].cur = None
        /\ \A v \in Workers \ {w} : wk'[v] = wk[v]
    BY <1>1 DEF MarkRetry, Scanning, WorkerState
  <1>5. r \in Contents
    BY <1>3, RetriedType DEF SpoolInv
  <1>6. \/ /\ now >= spool[m].expires
           /\ spool' = [spool EXCEPT ![m] = None] /\ failed' = failed \cup {m}
        \/ spool' = [spool EXCEPT ![m] = r] /\ UNCHANGED failed
        \/ UNCHANGED <<spool, failed>>
    BY <1>1, <1>3 DEF MarkRetry
  <1> HIDE DEF r
  <1>7. /\ spool' \in [Msgs -> Contents \cup {None}]
        /\ \A x \in Msgs \ {m} : spool'[x] = spool[x]
        /\ \/ UNCHANGED failed /\ spool'[m] # None
           \/ failed' = failed \cup {m} /\ spool'[m] = None /\ now >= spool[m].expires
    BY <1>1, <1>3, <1>5, <1>6, NoFileAssumption
  <1>8. /\ LeftOnce'
        /\ \A x \in Msgs \ {m} : UNCHANGED Status(x)
        /\ Status(m) = "queued"
        /\ spool'[m] # None => Status(m)' = "queued"
        /\ spool'[m] = None => Status(m)' = IF m \in failed' THEN "archived" ELSE "delivered"
    BY <1>1, <1>2, <1>3, <1>4, <1>7, InHandDelivers DEF Handling
  <1>9. CASE spool'[m] # None
    <2>1. \A x \in Msgs : UNCHANGED Status(x)
      BY <1>8, <1>9
    <2> QED
      BY <1>2, <1>8, <2>1, DeliveryStutters
  <1>10. CASE /\ failed' = failed \cup {m} /\ spool'[m] = None
              /\ now >= spool[m].expires
    <2>1. m \in Worthless
      BY <1>3, <1>10 DEF Worthless, Queued
    <2>2. Status(m)' = "archived"
      BY <1>8, <1>10
    <2> QED
      BY <1>2, <1>3, <1>8, <2>1, <2>2, DeliveryLeaves
  <1> QED
    BY <1>7, <1>9, <1>10

\* A kill forgets a delivery, or leaves it open whether there was one.
LEMMA KillDelivers ==
    ASSUME SpoolInv, LeftOnce, NEW w \in Workers, Kill(w)
    PROVE  LeftOnce' /\ Delivery!Next
  <1>1. /\ wk \in [Workers -> WorkerState] /\ spool \in [Msgs -> Contents \cup {None}]
    BY DEF SpoolInv, TypeOK
  <1>2. /\ wk[w].pc # "idle" /\ wk' = [wk EXCEPT ![w] = Resting]
        /\ UNCHANGED <<mail, spool, failed, discarded>>
    BY DEF Kill
  <1>3. wk'[w].pc = "idle" /\ \A v \in Workers \ {w} : wk'[v] = wk[v]
    BY <1>1, <1>2 DEF Resting
  <1>4. CASE wk[w].pc \in {"list", "scan"}
    <2>1. UNCHANGED <<accepted, excused>>
      BY <1>4 DEF Kill
    <2>2. \A v \in Workers \ {w} : wk[v].pc = "idle"
      BY <1>2, RunsAlone DEF SpoolInv, SpoolSafe
    <2> QED
      BY <1>2, <1>3, <1>4, <2>1, <2>2, NothingInHandDelivers
  <1>5. CASE wk[w].pc \in Handling
    <2>1. PICK m \in Msgs : m = wk[w].cur /\ spool[m] # None
      BY <1>5 DEF SpoolInv, SpoolSafe, HandledIsThere
    <2>2. \/ UNCHANGED <<accepted, excused>> /\ wk[w].pc # "unlink"
          \/ Accept(m) /\ Excuse(m) /\ wk[w].pc # "unlink"
          \/ UNCHANGED accepted /\ Excuse(m) /\ wk[w].pc = "unlink"
      BY <1>5, <2>1 DEF Kill, Handling
    <2>3. /\ LeftOnce'
          /\ \A x \in Msgs \ {m} : UNCHANGED Status(x)
          /\ \A x \in Msgs : Status(x) = "confirmed" => wk[w].pc = "unlink"
          /\ Status(m) = IF wk[w].pc = "unlink" THEN "confirmed" ELSE "queued"
          /\ Status(m)' = "queued"
      BY <1>1, <1>2, <1>3, <1>5, <2>1, InHandDelivers
    <2>4. CASE UNCHANGED <<accepted, excused>> /\ wk[w].pc # "unlink"
      <3>1. \A x \in Msgs : UNCHANGED Status(x)
        BY <2>3, <2>4
      <3> QED
        BY <2>3, <2>4, <3>1, DeliveryStutters
    <2>5. CASE Accept(m) /\ Excuse(m) /\ wk[w].pc # "unlink"
      BY <2>1, <2>3, <2>5, DeliveryHandsOver
    <2>6. CASE UNCHANGED accepted /\ Excuse(m) /\ wk[w].pc = "unlink"
      BY <2>1, <2>3, <2>6, DeliveryForgets
    <2> QED
      BY <2>2, <2>4, <2>5, <2>6
  <1> QED
    BY <1>1, <1>2, <1>4, <1>5 DEF WorkerState, Handling

\* A run begins and ends with nothing in hand.
LEMMA RunDelivers ==
    ASSUME SpoolInv, LeftOnce, NEW w \in Workers, StartRun(w) \/ ListQueue(w) \/ EndRun(w)
    PROVE  LeftOnce' /\ Delivery!Next
  <1>1. wk \in [Workers -> WorkerState]
    BY DEF SpoolInv, TypeOK
  <1>2. /\ {wk[w].pc, wk'[w].pc} \subseteq {"idle", "list", "scan"}
        /\ \A v \in Workers \ {w} : wk[v].pc = "idle" /\ wk'[v] = wk[v]
    BY <1>1 DEF StartRun, ListQueue, EndRun, Resting, WorkerState, SpoolInv, SpoolSafe,
       LockHeld
  <1>3. UNCHANGED <<mail, spool, failed, accepted, excused, discarded>>
    BY DEF StartRun, ListQueue, EndRun, history
  <1> QED
    BY <1>2, <1>3, NothingInHandDelivers

\* Every step of the spool is one of AtLeastOnce, or changes nothing there.
LEMMA StepDelivers ==
    ASSUME SpoolInv, LeftOnce, [Next]_vars
    PROVE  LeftOnce' /\ [Delivery!Next]_(Delivery!vars)
  <1>1. CASE Tick \/ \E t \in Topics \cup {NoTopic} : Reroute(t)
    BY <1>1, EnvironmentDelivers
  <1>2. ASSUME NEW m \in Msgs, MailProg(m) PROVE LeftOnce' /\ Delivery!Next
    BY <1>2, MailProgDelivers
  <1>3. ASSUME NEW w \in Workers, StartRun(w) PROVE LeftOnce' /\ Delivery!Next
    BY <1>3, RunDelivers
  <1>4. ASSUME NEW w \in Workers, WorkerStep(w) PROVE LeftOnce' /\ Delivery!Next
    <2>1. ASSUME NEW m \in Msgs, Examine(w, m) PROVE LeftOnce' /\ Delivery!Next
      BY <2>1, ExamineDelivers
    <2> QED
      BY <1>4, <2>1, PublishDelivers, RemoveDelivers, RetryDelivers, RunDelivers
      DEF WorkerStep
  <1>5. ASSUME NEW w \in Workers, Kill(w) PROVE LeftOnce' /\ Delivery!Next
    BY <1>5, KillDelivers
  <1>6. CASE UNCHANGED vars
    <2>1. UNCHANGED <<mail, spool, failed, wk, accepted, excused, discarded>>
      BY <1>6 DEF vars, history
    <2>2. \A m \in Msgs : UNCHANGED Status(m)
      BY <2>1, StatusSame DEF Delivered
    <2> QED
      BY <2>1, <2>2, DeliveryStutters DEF LeftOnce
  <1> QED
    BY <1>1, <1>2, <1>3, <1>4, <1>5, <1>6 DEF Next, Rest

\* MailProg, the worker and the spool implement AtLeastOnce, whatever runs, kills,
\* refused file operations and answers of OCI they meet: a message is published
\* again only if an acceptance was missed, and its file leaves the spool once,
\* because the worker knows of its acceptance, or because it is malformed, expired
\* or for a user routed elsewhere.
THEOREM SpoolRefinesDelivery == Spec => DeliverySpec
  <1>1. Init => LeftOnce /\ Delivery!Init
    <2> SUFFICES ASSUME Init PROVE LeftOnce /\ Delivery!Init
      OBVIOUS
    <2>1. \A m \in Msgs : Status(m) = "unsent"
      BY DEF Init, Status
    <2>2. Worthless \subseteq Msgs
      BY DEF Worthless, Queued
    <2> QED
      BY <2>1, <2>2 DEF Init, LeftOnce, Delivery!Init
  <1>2. SpoolInv /\ LeftOnce /\ [Next]_vars =>
          LeftOnce' /\ [Delivery!Next]_(Delivery!vars)
    BY StepDelivers
  <1> QED
    BY <1>1, <1>2, SpoolInvHolds, PTL DEF Spec, DeliverySpec, Delivery!Spec

-----------------------------------------------------------------------------
(* How often a message is tried *)

\* The time from the creation of a message to its attempt after a failures is
\* at least this: the sum of the delays, or all of its life.
Lag(a) == IF a < TTL /\ Elapsed(a) < TTL THEN Elapsed(a) ELSE TTL

\* What makes AttemptsBounded inductive: a file's next attempt is as late as its
\* failures make it, a message in hand was due, and what OCI was asked is
\* counted in the file, in the hand of a worker or by a fault.
Aged ==
    \A m \in Msgs : spool[m] # None =>
        spool[m].next + TTL >= spool[m].expires + Lag(spool[m].attempts)
DueInHand ==
    \A w \in Workers : wk[w].pc \in Handling => now >= spool[wk[w].cur].next
InHand(m) == \E w \in Workers : wk[w].pc \in Handling /\ wk[w].cur = m
Hand(m)   == IF InHand(m) THEN 1 ELSE 0
TriesCounted ==
    \A m \in Msgs : spool[m] # None =>
        tries[m] <= spool[m].attempts + faults + Hand(m)
Untried == \A m \in Msgs : mail[m].pc # "queued" => tries[m] = 0

TriesInv == Aged /\ DueInHand /\ TriesCounted /\ Untried /\ AttemptsBounded

\* The sum of the delays is a natural number and grows.
LEMMA ElapsedGrows ==
    ASSUME NEW a \in 0..(TTL - 1)
    PROVE  /\ 2^a \in Nat \ {0} /\ Elapsed(a) \in Nat
           /\ \A j \in 0..a : Elapsed(j) \in Nat /\ Elapsed(j) <= Elapsed(a)
  <1>1. \A j \in 0..a : 2^j \in Nat \ {0} /\ 2^j <= 2^a
    BY PowersAssumption
  <1>2. \A x, y \in Nat : x <= y => BaseDelay * x \in Nat /\ BaseDelay * x <= BaseDelay * y
    OBVIOUS
  <1>3. ASSUME NEW j \in 0..a PROVE Elapsed(j) \in Nat /\ Elapsed(j) <= Elapsed(a)
    <2>1. 2^j - 1 \in Nat /\ 2^a - 1 \in Nat /\ 2^j - 1 <= 2^a - 1
      BY <1>1
    <2> QED
      BY <1>2, <2>1 DEF Elapsed
  <1>4. a \in 0..a
    OBVIOUS
  <1> QED
    BY <1>1, <1>3, <1>4

\* A lag is a part of the life of a message, and nothing before the first failure.
LEMMA LagType == (\A a \in Nat : Lag(a) \in 0..TTL) /\ Lag(0) = 0
  <1>1. ASSUME NEW a \in Nat PROVE Lag(a) \in 0..TTL
    BY ElapsedGrows DEF Lag
  <1>2. Elapsed(0) = 0
    BY PowersAssumption DEF Elapsed
  <1> QED
    BY <1>1, <1>2 DEF Lag

\* The delay after a failed attempt leads to the next lag.
LEMMA DelayCovers ==
    ASSUME NEW a \in Nat, Lag(a) < TTL
    PROVE  Lag(a) + RetryDelay(a + 1) >= Lag(a + 1)
  <1>1. a \in 0..(TTL - 1) /\ Elapsed(a) < TTL /\ Lag(a) = Elapsed(a)
    BY DEF Lag
  <1>2. Elapsed(a) \in Nat /\ 2^a \in Nat \ {0} /\ 2^(a + 1) = 2 * 2^a /\ a < 2^a
    BY <1>1, ElapsedGrows, PowersAssumption
  <1>3. RetryDelay(a + 1) =
          LET d == BaseDelay * 2^(IF a < MaxDoublings THEN a ELSE MaxDoublings)
          IN  IF d < MaxDelay THEN d ELSE MaxDelay
    BY DEF RetryDelay
  <1>4. 2^MaxDoublings \in Nat /\ BaseDelay * 2^MaxDoublings \in Nat
    BY PowersAssumption
  <1>5. Lag(a + 1) <= TTL /\ Lag(a + 1) \in Nat
    BY LagType
  <1>6. CASE a <= MaxDoublings /\ BaseDelay * 2^a <= MaxDelay
    <2>1. RetryDelay(a + 1) = BaseDelay * 2^a
      <3>1. BaseDelay * 2^a \in Nat
        BY <1>2
      <3>2. a = (IF a < MaxDoublings THEN a ELSE MaxDoublings)
        BY <1>6
      <3> QED
        BY <1>3, <1>6, <3>1, <3>2
    <2>2. BaseDelay * (2^a - 1) + BaseDelay * 2^a = BaseDelay * (2 * 2^a - 1)
      BY <1>2
    <2>3. Elapsed(a) + RetryDelay(a + 1) = Elapsed(a + 1)
      BY <1>2, <2>1, <2>2 DEF Elapsed
    <2>4. CASE a + 1 < TTL
      BY <1>1, <2>3, <2>4, <1>5, ElapsedGrows DEF Lag
    <2>5. CASE a + 1 = TTL
      <3>1. BaseDelay * (2 * 2^a - 1) >= 2 * 2^a - 1
        BY <1>2
      <3>2. Elapsed(a + 1) >= TTL
        BY <1>2, <2>5, <3>1 DEF Elapsed
      <3>3. Elapsed(a + 1) \in Nat
        BY <1>2 DEF Elapsed
      <3> QED
        BY <1>1, <1>5, <2>3, <3>2, <3>3
    <2> QED
      BY <1>1, <2>4, <2>5
  <1>7. CASE ~(a <= MaxDoublings /\ BaseDelay * 2^a <= MaxDelay)
    <2>1. Elapsed(a) + LongestDelay >= TTL
      BY <1>1, <1>7, DelaysAssumption
    <2>2. RetryDelay(a + 1) \in Nat /\ RetryDelay(a + 1) >= LongestDelay
                                    /\ LongestDelay \in Nat
      <3>1. CASE a > MaxDoublings
        BY <1>3, <1>4, <3>1 DEF LongestDelay
      <3>2. CASE a <= MaxDoublings
        <4>1. BaseDelay * 2^a \in Nat /\ BaseDelay * 2^a > MaxDelay
          BY <1>2, <1>7, <3>2
        <4>2. RetryDelay(a + 1) = MaxDelay
          <5>1. a = (IF a < MaxDoublings THEN a ELSE MaxDoublings)
            BY <3>2
          <5> QED
            BY <1>3, <4>1, <5>1
        <4> QED
          BY <1>4, <4>2 DEF LongestDelay
      <3> QED
        BY <3>1, <3>2
    <2> QED
      BY <1>1, <1>2, <1>5, <2>1, <2>2
  <1> QED
    BY <1>6, <1>7

\* A message that is tried after a failures is tried within the bound.
LEMMA TriesFit ==
    ASSUME NEW a \in Nat, Lag(a) < TTL
    PROVE  MaxTries \in Nat /\ a + 1 <= MaxTries
  <1> DEFINE S == {k \in 0..(TTL - 1) : Elapsed(k) < TTL}
  <1>1. a \in 0..(TTL - 1) /\ Elapsed(a) < TTL
    BY DEF Lag
  <1>2. 0..a \subseteq S
    <2> SUFFICES ASSUME NEW k \in 0..a PROVE Elapsed(k) < TTL /\ k \in 0..(TTL - 1)
      OBVIOUS
    <2>1. Elapsed(k) \in Nat /\ Elapsed(k) <= Elapsed(a) /\ Elapsed(a) \in Nat
      BY <1>1, ElapsedGrows
    <2> QED
      BY <1>1, <2>1
  <1>3. IsFiniteSet(0..(TTL - 1)) /\ S \subseteq 0..(TTL - 1)
    <2>1. 0 \in Int /\ TTL - 1 \in Int
      OBVIOUS
    <2> QED
      BY <2>1, FS_Interval
  <1>4. IsFiniteSet(S)
    BY <1>3, FS_Subset
  <1>5. Cardinality(0..a) <= Cardinality(S) /\ Cardinality(0..a) = a + 1
    <2>1. Cardinality(0..a) <= Cardinality(S)
      BY <1>2, <1>4, FS_Subset
    <2>2. 0 \in Int /\ a \in Int /\ ~(0 > a) /\ a - 0 + 1 = a + 1
      OBVIOUS
    <2>3. Cardinality(0..a) = IF 0 > a THEN 0 ELSE a - 0 + 1
      BY <2>2, FS_Interval
    <2> QED
      BY <2>1, <2>2, <2>3
  <1>6. Cardinality(S) \in Nat
    BY <1>4, FS_CardinalityType
  <1> QED
    BY <1>5, <1>6 DEF MaxTries

\* The bound is a natural number.
LEMMA BoundType == MaxTries \in Nat
  BY LagType, TriesFit

\* The clock and the registry: time only lets messages fall due.
LEMMA EnvironmentCounts ==
    ASSUME SpoolInv, TriesInv, Tick \/ \E t \in Topics \cup {NoTopic} : Reroute(t)
    PROVE  TriesInv'
  <1>1. now \in Nat /\ now' \in Nat /\ now <= now'
    BY DEF SpoolInv, TypeOK, Tick, Reroute
  <1>2. UNCHANGED <<mail, spool, wk, faults, tries>>
    BY DEF Tick, Reroute, history
  <1>3. spool \in [Msgs -> Contents \cup {None}]
    BY DEF SpoolInv, TypeOK
  <1>4. DueInHand'
    <2> SUFFICES ASSUME NEW w \in Workers, wk[w].pc \in Handling
                 PROVE  now' >= spool[wk[w].cur].next
      BY <1>2 DEF DueInHand
    <2>1. wk[w].cur \in Msgs /\ spool[wk[w].cur] \in Contents
      BY <1>3 DEF SpoolInv, SpoolSafe, HandledIsThere
    <2>2. spool[wk[w].cur].next \in Nat /\ now >= spool[wk[w].cur].next
      BY <2>1 DEF Contents, DueInHand, TriesInv
    <2> QED
      BY <1>1, <2>2
  <1>5. Aged' /\ TriesCounted' /\ Untried' /\ AttemptsBounded'
    BY <1>2 DEF TriesInv, Aged, TriesCounted, Untried, AttemptsBounded, InHand, Hand
  <1> QED
    BY <1>4, <1>5 DEF TriesInv

\* MailProg writes a message that is due and that nobody has tried.
LEMMA MailProgCounts ==
    ASSUME SpoolInv, TriesInv, NEW m \in Msgs, MailProg(m)
    PROVE  TriesInv'
  <1> USE DEF history
  <1>1. /\ mail \in [Msgs -> MailState] /\ spool \in [Msgs -> Contents \cup {None}]
        /\ tries \in [Msgs -> Nat] /\ now \in Nat /\ faults \in Nat
    BY DEF SpoolInv, TypeOK
  <1>2. UNCHANGED <<now, wk, faults, tries>> /\ mail[m].pc # "queued"
    BY DEF MailProg, LoadRegistry, QueueHasCapacity, WriteMessage
  <1>3. spool[m] = None /\ tries[m] = 0
    BY <1>2 DEF SpoolInv, SpoolSafe, FromMailProg, TriesInv, Untried
  <1>4. \A x \in Msgs \ {m} : spool'[x] = spool[x] /\ mail'[x] = mail[x]
    BY <1>1 DEF MailProg, LoadRegistry, QueueHasCapacity, WriteMessage, Drop,
       MailEnds, MailGoto
  <1>5. \/ spool' = spool
        \/ /\ spool'[m].next = now /\ spool'[m].expires = now + TTL
           /\ spool'[m].attempts = 0
    BY <1>1 DEF MailProg, LoadRegistry, QueueHasCapacity, WriteMessage
  <1>6. Aged'
    <2> SUFFICES ASSUME NEW x \in Msgs, spool'[x] # None
                 PROVE  spool'[x].next + TTL >= spool'[x].expires + Lag(spool'[x].attempts)
      BY DEF Aged
    <2>1. CASE x = m
      BY <2>1, <1>1, <1>3, <1>5, LagType
    <2>2. CASE x # m
      BY <2>2, <1>4 DEF Aged, TriesInv
    <2> QED
      BY <2>1, <2>2
  <1>7. \A w \in Workers : wk[w].pc \in Handling => wk[w].cur \in Msgs \ {m}
    BY <1>3 DEF SpoolInv, SpoolSafe, HandledIsThere
  <1>8. DueInHand'
    BY <1>2, <1>4, <1>7 DEF DueInHand, TriesInv
  <1>9. \A x \in Msgs : Hand(x)' = Hand(x) /\ Hand(x) \in Nat
    BY <1>2 DEF Hand, InHand
  <1>10. TriesCounted'
    <2> SUFFICES ASSUME NEW x \in Msgs, spool'[x] # None
                 PROVE  tries'[x] <= spool'[x].attempts + faults' + Hand(x)'
      BY DEF TriesCounted
    <2>1. CASE x = m
      BY <2>1, <1>1, <1>2, <1>3, <1>5, <1>9
    <2>2. CASE x # m
      BY <2>2, <1>2, <1>4, <1>9 DEF TriesCounted, TriesInv
    <2> QED
      BY <2>1, <2>2
  <1>11. Untried'
    BY <1>2, <1>3, <1>4 DEF Untried, TriesInv
  <1>12. AttemptsBounded'
    BY <1>2 DEF AttemptsBounded, TriesInv
  <1> QED
    BY <1>6, <1>8, <1>10, <1>11, <1>12 DEF TriesInv

\* The steps of a run that handles nothing, before or after: a file that leaves
\* the spool is no longer counted, and a fault only loosens the bound.
LEMMA NothingInHandCounts ==
    ASSUME SpoolInv, TriesInv, NEW w \in Workers, wk[w].pc \notin Handling,
           wk'[w].pc \notin Handling, \A v \in Workers \ {w} : wk'[v] = wk[v],
           UNCHANGED <<now, mail, tries>>, faults' \in Nat, faults <= faults',
           \A x \in Msgs : spool'[x] \in {spool[x], None}, spool' = spool \/ wk[w].pc = "scan"
    PROVE  TriesInv'
  <1>1. /\ spool \in [Msgs -> Contents \cup {None}]
        /\ tries \in [Msgs -> Nat] /\ faults \in Nat
    BY DEF SpoolInv, TypeOK
  <1>2. \A v \in Workers : /\ wk'[v].pc \in Handling <=> wk[v].pc \in Handling
                           /\ wk[v].pc \in Handling => wk'[v] = wk[v]
    OBVIOUS
  <1>3. \A x \in Msgs : Hand(x)' = Hand(x) /\ Hand(x) \in Nat
    BY <1>2 DEF Hand, InHand
  <1>4. Aged' /\ Untried'
    BY DEF TriesInv, Aged, Untried
  <1>5. DueInHand'
    <2>1. CASE spool' = spool
      BY <2>1, <1>2 DEF DueInHand, TriesInv
    <2>2. CASE wk[w].pc = "scan"
      <3>1. \A v \in Workers : wk[v].pc \notin Handling
        BY <2>2, RunsAlone DEF Handling, SpoolInv, SpoolSafe
      <3> QED
        BY <3>1, <1>2 DEF DueInHand
    <2> QED
      BY <2>1, <2>2
  <1>6. TriesCounted'
    <2> SUFFICES ASSUME NEW x \in Msgs, spool'[x] # None
                 PROVE  tries'[x] <= spool'[x].attempts + faults' + Hand(x)'
      BY DEF TriesCounted
    <2>1. spool'[x] = spool[x] /\ spool[x] \in Contents
      BY <1>1
    <2>2. spool[x].attempts \in Nat /\ tries[x] \in Nat
      BY <1>1, <2>1 DEF Contents
    <2>3. tries[x] <= spool[x].attempts + faults + Hand(x)
      BY <2>1 DEF TriesCounted, TriesInv
    <2> QED
      BY <1>1, <1>3, <2>1, <2>2, <2>3
  <1>7. AttemptsBounded'
    BY <1>1, BoundType DEF AttemptsBounded, TriesInv
  <1> QED
    BY <1>4, <1>5, <1>6, <1>7 DEF TriesInv

\* A message taken in hand was due, and if OCI is asked, it is asked within the
\* bound.
LEMMA ExamineCounts ==
    ASSUME SpoolInv, TriesInv, NEW w \in Workers, NEW m \in Msgs, Examine(w, m)
    PROVE  TriesInv'
  <1>1. /\ wk[w].pc = "scan" /\ spool[m] # None
        /\ \A v \in Workers \ {w} : wk'[v] = wk[v]
        /\ wk'[w].pc \in {"scan", "retry", "publish"}
        /\ wk'[w].pc # "scan" => wk'[w].cur = m /\ spool' = spool
        /\ spool' = spool \/ spool' = [spool EXCEPT ![m] = None]
        /\ tries' \in [Msgs -> Nat] /\ faults' \in Nat
        /\ UNCHANGED <<now, mail>>
    BY ExamineEffect DEF SpoolInv
  <1>2. /\ spool \in [Msgs -> Contents \cup {None}] /\ wk \in [Workers -> WorkerState]
        /\ tries \in [Msgs -> Nat] /\ faults \in Nat /\ now \in Nat
    BY DEF SpoolInv, TypeOK
  <1>3. \A v \in Workers \ {w} : wk[v].pc = "idle"
    BY <1>1, RunsAlone DEF SpoolInv, SpoolSafe
  <1>4. /\ wk'[w].pc = "scan" => tries' = tries /\ faults <= faults'
        /\ wk'[w].pc = "retry" => tries' = tries /\ faults' = faults + 1
        /\ wk'[w].pc = "publish" => /\ tries' = [tries EXCEPT ![m] = @ + 1]
                                    /\ faults' = faults /\ now < spool[m].expires
        /\ wk'[w].pc # "scan" => now >= spool[m].next
    <2> USE DEF Pending, history
    <2>a. faults <= faults /\ (Fault => faults' = faults + 1 /\ faults <= faults')
      BY <1>2 DEF Fault
    <2>1. CASE Skip(w, m)
      BY <2>1, <2>a, <1>1, <1>2 DEF Skip, Passed, WorkerState
    <2>2. CASE Quarantine(w, m)
      BY <2>2, <2>a, <1>1, <1>2 DEF Quarantine, Passed, WorkerState
    <2>3. CASE Expire(w, m)
      BY <2>3, <2>a, <1>1, <1>2 DEF Expire, Due, Passed, Refused, WorkerState
    <2>4. CASE Discard(w, m)
      BY <2>4, <2>a, <1>1, <1>2 DEF Discard, Due, Passed, Refused, WorkerState
    <2>5. CASE BeginAttempt(w, m)
      BY <2>5, <2>a, <1>1, <1>2 DEF BeginAttempt, Routed, Due, Attempt, Refused, WorkerState
    <2> QED
      BY <2>1, <2>2, <2>3, <2>4, <2>5 DEF Examine
  <1>5. CASE wk'[w].pc = "scan"
    <2>1. \A x \in Msgs : spool'[x] \in {spool[x], None}
      BY <1>1, <1>2
    <2> QED
      BY <1>1, <1>4, <1>5, <2>1, NothingInHandCounts DEF Handling
  <1>6. CASE wk'[w].pc # "scan"
    <2>1. /\ spool' = spool /\ wk'[w].cur = m /\ wk'[w].pc \in Handling
          /\ now >= spool[m].next
      BY <1>1, <1>4, <1>6 DEF Handling
    <2>2. \A x \in Msgs : Hand(x) = 0 /\ Hand(x)' = IF x = m THEN 1 ELSE 0
      BY <1>1, <1>3, <2>1 DEF Hand, InHand, Handling
    <2>3. /\ spool[m] \in Contents /\ spool[m].attempts \in Nat /\ tries[m] \in Nat
          /\ spool[m].next \in Nat /\ spool[m].expires \in Nat
      BY <1>1, <1>2 DEF Contents
    <2>4. Aged' /\ Untried'
      BY <1>1, <1>2, <1>4, <2>1 DEF TriesInv, Aged, Untried, SpoolInv, SpoolSafe,
         FromMailProg
    <2>5. DueInHand'
      BY <1>1, <1>3, <2>1 DEF DueInHand, Handling
    <2>6. tries[m] <= spool[m].attempts + faults
      BY <1>1, <1>2, <2>2, <2>3 DEF TriesCounted, TriesInv
    <2>7. \A x \in Msgs \ {m} : tries'[x] = tries[x]
      BY <1>1, <1>2, <1>4, <1>6
    <2>8. TriesCounted'
      <3> SUFFICES ASSUME NEW x \in Msgs, spool[x] # None
                   PROVE  tries'[x] <= spool[x].attempts + faults' + Hand(x)'
        BY <2>1 DEF TriesCounted
      <3>1. CASE x = m
        BY <3>1, <1>1, <1>2, <1>4, <1>6, <2>2, <2>3, <2>6
      <3>2. CASE x # m
        <4>1. spool[x].attempts \in Nat /\ tries[x] \in Nat
          BY <1>2 DEF Contents
        <4>2. tries[x] <= spool[x].attempts + faults
          BY <1>2, <2>2, <4>1 DEF TriesCounted, TriesInv
        <4> QED
          BY <3>2, <4>1, <4>2, <1>1, <1>2, <1>4, <1>6, <2>2, <2>7
      <3> QED
        BY <3>1, <3>2
    <2>9. AttemptsBounded'
      <3> SUFFICES ASSUME NEW x \in Msgs PROVE tries'[x] <= MaxTries + faults'
        BY DEF AttemptsBounded
      <3>1. MaxTries \in Nat /\ tries[x] \in Nat /\ tries[x] <= MaxTries + faults
        BY <1>2, BoundType DEF AttemptsBounded, TriesInv
      <3>2. CASE x # m \/ wk'[w].pc = "retry"
        BY <3>1, <3>2, <1>1, <1>2, <1>4, <1>6, <2>7
      <3>3. CASE x = m /\ wk'[w].pc = "publish"
        <4> DEFINE a == spool[m].attempts
        <4>1. a \in Nat /\ Lag(a) \in Nat
          BY <2>3, LagType
        <4>2. spool[m].next + TTL >= spool[m].expires + Lag(a)
          BY <1>1 DEF Aged, TriesInv
        <4> HIDE DEF a
        <4>3. Lag(a) < TTL
          BY <1>2, <1>4, <2>1, <2>3, <3>3, <4>1, <4>2
        <4>4. a + 1 <= MaxTries
          BY <4>1, <4>3, TriesFit
        <4>5. tries[m] <= a + faults
          BY <2>6 DEF a
        <4> QED
          BY <3>1, <3>3, <4>1, <4>4, <4>5, <1>2, <1>4
      <3> QED
        BY <3>2, <3>3, <1>1, <1>6
    <2> QED
      BY <2>4, <2>5, <2>8, <2>9 DEF TriesInv
  <1> QED
    BY <1>5, <1>6

\* The answer of OCI leaves the message in hand.
LEMMA PublishCounts ==
    ASSUME SpoolInv, TriesInv, NEW w \in Workers, Publish(w)
    PROVE  TriesInv'
  <1>1. UNCHANGED <<now, mail, spool, faults, tries>>
    BY DEF Publish
  <1>2. wk \in [Workers -> WorkerState]
    BY DEF SpoolInv, TypeOK
  <1>3. \A v \in Workers : /\ wk'[v].pc \in Handling <=> wk[v].pc \in Handling
                           /\ wk[v].pc \in Handling => wk'[v].cur = wk[v].cur
    BY <1>2 DEF Publish, WorkerGoto, WorkerState, Handling
  <1>4. \A x \in Msgs : Hand(x)' = Hand(x)
    BY <1>3 DEF Hand, InHand
  <1> QED
    BY <1>1, <1>3, <1>4 DEF TriesInv, Aged, DueInHand, TriesCounted, Untried,
       AttemptsBounded

\* A message let go of has left the spool, has one more failure in its file and
\* waits for longer, or its file misses the failure because of a fault.
LEMMA LetGoCounts ==
    ASSUME SpoolInv, TriesInv, NEW w \in Workers, NEW m \in Msgs,
           wk[w].pc \in Handling, m = wk[w].cur, wk'[w].pc \in {"scan", "idle"},
           \A v \in Workers \ {w} : wk'[v] = wk[v],
           UNCHANGED <<now, mail, tries>>, faults' \in Nat, faults <= faults',
           \A x \in Msgs \ {m} : spool'[x] = spool[x],
           \/ spool'[m] = None
           \/ spool'[m] = spool[m] /\ faults' = faults + 1
           \/ /\ spool'[m] \in Contents /\ now < spool[m].expires
              /\ spool'[m].attempts = spool[m].attempts + 1
              /\ spool'[m].expires = spool[m].expires
              /\ spool'[m].next = now + RetryDelay(spool[m].attempts + 1)
    PROVE  TriesInv'
  <1>1. /\ spool \in [Msgs -> Contents \cup {None}]
        /\ tries \in [Msgs -> Nat] /\ faults \in Nat /\ now \in Nat
    BY DEF SpoolInv, TypeOK
  <1>2. \A v \in Workers \ {w} : wk[v].pc = "idle"
    BY RunsAlone DEF Handling, SpoolInv, SpoolSafe
  <1>3. spool[m] # None
    BY DEF SpoolInv, SpoolSafe, HandledIsThere
  <1>4. DueInHand'
    BY <1>2 DEF DueInHand, Handling
  <1>5. \A x \in Msgs : Hand(x) = (IF x = m THEN 1 ELSE 0) /\ Hand(x)' = 0
    BY <1>2 DEF Hand, InHand, Handling
  <1>6. /\ spool[m].attempts \in Nat /\ spool[m].next \in Nat /\ spool[m].expires \in Nat
        /\ spool[m].next <= now
        /\ spool[m].next + TTL >= spool[m].expires + Lag(spool[m].attempts)
    BY <1>1, <1>3 DEF Contents, DueInHand, Aged, TriesInv
  <1>7. Aged'
    <2> SUFFICES ASSUME NEW x \in Msgs, spool'[x] # None
                 PROVE  spool'[x].next + TTL >= spool'[x].expires + Lag(spool'[x].attempts)
      BY DEF Aged
    <2>1. CASE spool'[x] = spool[x]
      BY <2>1 DEF Aged, TriesInv
    <2>2. CASE x = m /\ spool'[x] # spool[x]
      <3> DEFINE a == spool[m].attempts
      <3>1. /\ a \in Nat /\ Lag(a) \in Nat /\ Lag(a + 1) \in Nat
            /\ RetryDelay(a + 1) \in Nat
        BY <1>6, LagType, RetryDelayType
      <3> HIDE DEF a
      <3>2. Lag(a) < TTL
        BY <1>1, <1>6, <2>2, <3>1 DEF a
      <3>3. Lag(a) + RetryDelay(a + 1) >= Lag(a + 1)
        BY <3>1, <3>2, DelayCovers
      <3>4. /\ spool'[m].attempts = a + 1 /\ spool'[m].expires = spool[m].expires
            /\ spool'[m].next = now + RetryDelay(a + 1)
        BY <2>2 DEF a
      <3>5. spool[m].next + TTL >= spool[m].expires + Lag(a)
        BY <1>6 DEF a
      <3> QED
        BY <1>1, <1>6, <2>2, <3>1, <3>3, <3>4, <3>5
    <2> QED
      BY <2>1, <2>2
  <1>8. TriesCounted'
    <2> SUFFICES ASSUME NEW x \in Msgs, spool'[x] # None
                 PROVE  tries[x] <= spool'[x].attempts + faults' + 0
      BY <1>5 DEF TriesCounted
    <2>1. spool[x] # None /\ tries[x] \in Nat
      BY <1>1, <1>3
    <2>2. spool[x].attempts \in Nat
      BY <1>1, <2>1 DEF Contents
    <2>3. tries[x] <= spool[x].attempts + faults + IF x = m THEN 1 ELSE 0
      BY <1>5, <2>1 DEF TriesCounted, TriesInv
    <2> QED
      BY <1>1, <2>1, <2>2, <2>3
  <1>9. Untried'
    BY DEF Untried, TriesInv
  <1>10. AttemptsBounded'
    BY <1>1, BoundType DEF AttemptsBounded, TriesInv
  <1> QED
    BY <1>4, <1>7, <1>8, <1>9, <1>10 DEF TriesInv

\* A delivered message leaves the spool, or stays because of a fault.
LEMMA RemoveCounts ==
    ASSUME SpoolInv, TriesInv, NEW w \in Workers, RemoveDelivered(w)
    PROVE  TriesInv'
  <1> DEFINE m == wk[w].cur
  <1>1. /\ wk \in [Workers -> WorkerState] /\ faults \in Nat
        /\ spool \in [Msgs -> Contents \cup {None}]
    BY DEF SpoolInv, TypeOK
  <1>2. wk[w].pc \in Handling /\ m \in Msgs
    BY DEF RemoveDelivered, Handling, SpoolInv, SpoolSafe, HandledIsThere
  <1>3. /\ wk'[w].pc = "scan" /\ \A v \in Workers \ {w} : wk'[v] = wk[v]
    BY <1>1 DEF RemoveDelivered, Scanning, WorkerState
  <1>4. /\ UNCHANGED <<now, mail, tries>>
        /\ \/ spool' = [spool EXCEPT ![m] = None] /\ faults' = faults
           \/ spool' = [spool EXCEPT ![m] = None] /\ faults' = faults + 1
           \/ spool' = spool /\ faults' = faults + 1
    BY DEF RemoveDelivered, Fault
  <1> HIDE DEF m
  <1>5. /\ faults' \in Nat /\ faults <= faults'
        /\ \A x \in Msgs \ {m} : spool'[x] = spool[x]
        /\ \/ spool'[m] = None
           \/ spool'[m] = spool[m] /\ faults' = faults + 1
    BY <1>1, <1>2, <1>4
  <1> QED
    BY <1>2, <1>3, <1>4, <1>5, LetGoCounts DEF m

\* A failed message leaves the spool when it has expired, has its failure written
\* into its file, or stays as it is because of a fault.
LEMMA RetryCounts ==
    ASSUME SpoolInv, TriesInv, NEW w \in Workers, MarkRetry(w)
    PROVE  TriesInv'
  <1> DEFINE m == wk[w].cur
             n == spool[m].attempts + 1
             r == [spool[m] EXCEPT !.attempts = n, !.next = now + RetryDelay(n)]
  <1>1. /\ wk \in [Workers -> WorkerState] /\ faults \in Nat
        /\ spool \in [Msgs -> Contents \cup {None}]
    BY DEF SpoolInv, TypeOK
  <1>2. wk[w].pc \in Handling /\ m \in Msgs /\ spool[m] # None
    BY DEF MarkRetry, Handling, SpoolInv, SpoolSafe, HandledIsThere
  <1>3. /\ wk'[w].pc = "scan" /\ \A v \in Workers \ {w} : wk'[v] = wk[v]
    BY <1>1 DEF MarkRetry, Scanning, WorkerState
  <1>4. /\ UNCHANGED <<now, mail, tries>>
        /\ \/ spool' = [spool EXCEPT ![m] = None] /\ faults' = faults
           \/ /\ spool' = [spool EXCEPT ![m] = r] /\ faults' = faults
              /\ now < spool[m].expires
           \/ spool' = spool /\ faults' = faults + 1
    BY DEF MarkRetry, Fault, history
  <1>5. r \in Contents
    BY <1>2, RetriedType DEF SpoolInv
  <1>6. /\ r.attempts = spool[m].attempts + 1 /\ r.expires = spool[m].expires
        /\ r.next = now + RetryDelay(spool[m].attempts + 1)
    BY <1>1, <1>2 DEF Contents
  <1> HIDE DEF m, r, n
  <1>7. /\ faults' \in Nat /\ faults <= faults'
        /\ \A x \in Msgs \ {m} : spool'[x] = spool[x]
        /\ \/ spool'[m] = None
           \/ spool'[m] = spool[m] /\ faults' = faults + 1
           \/ spool'[m] = r /\ now < spool[m].expires
    BY <1>1, <1>2, <1>4
  <1> QED
    BY <1>2, <1>3, <1>4, <1>5, <1>6, <1>7, LetGoCounts DEF m

\* A killed worker leaves the file of its message as it was: a fault.
LEMMA KillCounts ==
    ASSUME SpoolInv, TriesInv, NEW w \in Workers, Kill(w)
    PROVE  TriesInv'
  <1>1. wk \in [Workers -> WorkerState] /\ faults \in Nat
    BY DEF SpoolInv, TypeOK
  <1>2. /\ wk'[w].pc = "idle" /\ \A v \in Workers \ {w} : wk'[v] = wk[v]
        /\ UNCHANGED <<now, mail, spool, tries>> /\ faults' = faults + 1
    BY <1>1 DEF Kill, Fault, Resting
  <1>3. faults' \in Nat /\ faults <= faults'
    BY <1>1, <1>2
  <1>4. CASE wk[w].pc \in Handling
    <2>1. wk[w].cur \in Msgs
      BY <1>4 DEF SpoolInv, SpoolSafe, HandledIsThere
    <2> QED
      BY <1>2, <1>3, <1>4, <2>1, LetGoCounts
  <1>5. CASE wk[w].pc \notin Handling
    BY <1>2, <1>3, <1>5, NothingInHandCounts DEF Handling
  <1> QED
    BY <1>4, <1>5

\* A run begins and ends with nothing in hand.
LEMMA RunCounts ==
    ASSUME SpoolInv, TriesInv, NEW w \in Workers, StartRun(w) \/ ListQueue(w) \/ EndRun(w)
    PROVE  TriesInv'
  <1>1. wk \in [Workers -> WorkerState] /\ faults \in Nat
    BY DEF SpoolInv, TypeOK
  <1>2. /\ wk[w].pc \notin Handling /\ wk'[w].pc \notin Handling
        /\ \A v \in Workers \ {w} : wk'[v] = wk[v]
        /\ UNCHANGED <<now, mail, spool, tries, faults>>
    BY <1>1 DEF StartRun, ListQueue, EndRun, Handling, Resting, WorkerState, history
  <1>3. faults <= faults
    BY <1>1
  <1> QED
    BY <1>1, <1>2, <1>3, NothingInHandCounts

\* Nothing has been tried in the beginning.
LEMMA TriesInit == Init => TriesInv
  <1> SUFFICES ASSUME Init PROVE TriesInv
    OBVIOUS
  <1>1. MaxTries \in Nat
    BY BoundType
  <1>2. Aged /\ DueInHand /\ TriesCounted /\ Untried
    BY DEF Init, Resting, Aged, DueInHand, Handling, TriesCounted, Untried
  <1>3. AttemptsBounded
    BY <1>1 DEF Init, AttemptsBounded
  <1> QED
    BY <1>2, <1>3 DEF TriesInv

\* Every step counts the attempts.
LEMMA TriesStep == SpoolInv /\ TriesInv /\ [Next]_vars => TriesInv'
  <1> SUFFICES ASSUME SpoolInv, TriesInv, [Next]_vars PROVE TriesInv'
    OBVIOUS
  <1>1. CASE Tick \/ \E t \in Topics \cup {NoTopic} : Reroute(t)
    BY <1>1, EnvironmentCounts
  <1>2. ASSUME NEW m \in Msgs, MailProg(m) PROVE TriesInv'
    BY <1>2, MailProgCounts
  <1>3. ASSUME NEW w \in Workers, StartRun(w) PROVE TriesInv'
    BY <1>3, RunCounts
  <1>4. ASSUME NEW w \in Workers, WorkerStep(w) PROVE TriesInv'
    <2>1. ASSUME NEW m \in Msgs, Examine(w, m) PROVE TriesInv'
      BY <2>1, ExamineCounts
    <2> QED
      BY <1>4, <2>1, PublishCounts, RemoveCounts, RetryCounts, RunCounts DEF WorkerStep
  <1>5. ASSUME NEW w \in Workers, Kill(w) PROVE TriesInv'
    BY <1>5, KillCounts
  <1>6. CASE UNCHANGED vars
    BY <1>6 DEF vars, history, TriesInv, Aged, DueInHand, TriesCounted, Hand, InHand,
       Untried, AttemptsBounded
  <1> QED
    BY <1>1, <1>2, <1>3, <1>4, <1>5, <1>6 DEF Next, Rest

\* OCI is asked to publish a message only as often as doubling delays fit into its
\* life, and once more for every failure that could not be written back.
THEOREM AttemptsBoundedHolds == Spec => []AttemptsBounded
  <1>1. Init => TriesInv
    BY TriesInit
  <1>2. SpoolInv /\ TriesInv /\ [Next]_vars => TriesInv'
    BY TriesStep
  <1>3. TriesInv => AttemptsBounded
    BY DEF TriesInv
  <1> QED
    BY <1>1, <1>2, <1>3, SpoolInvHolds, PTL DEF Spec

-----------------------------------------------------------------------------
(***************************************************************************)
(* The pace of publish attempts, specified in PublishPacing, holds for      *)
(* every interval, every limit and every bound.  The argument is PaceInv:   *)
(* the recorded time, corrected by the setback of the clock, is not older   *)
(* than the last attempt.                                                   *)
(***************************************************************************)

\* TypeOK without the bounds of the exploration.
PacingTyped ==
    /\ seconds \in Nat
    /\ back \in Nat
    /\ stamp \in Int \cup {NoTime}
    /\ wake \in Nat
    /\ read \in Int
    /\ begun \in Nat
    /\ last \in Nat \cup {NoTime}

\* What makes AttemptsPaced inductive: the recorded time is not older than the
\* last attempt, an empty file means that the interval is over, and a sleep
\* ends when it is.
PaceInv ==
    /\ begun <= seconds
    /\ pc = "write" => stamp = NoTime /\ read + back >= begun
    /\ last # NoTime =>
        /\ last <= seconds
        /\ stamp # NoTime => stamp + back >= last
        /\ stamp = NoTime => seconds - last >= Interval
        /\ pc = "sleep" => wake - last >= Interval
    /\ AttemptsPaced

\* The delay of wait_for_publish_slot: between nothing and Interval, and long
\* enough for the clock to be Interval past the recorded time.
LEMMA DelayBounds ==
    ASSUME PacingTyped, stamp # NoTime
    PROVE  /\ Delay \in 0..Interval
           /\ Delay < Interval => Clock + Delay - stamp >= Interval
  BY PublishPacingAssumption DEF PacingTyped, Delay, Clock, AtLeast, AtMost

\* Initially there is no attempt to be spaced from.
LEMMA InitPace == PacingInit => PacingTyped /\ PaceInv
  BY PublishPacingAssumption
  DEF PacingInit, PacingTyped, PaceInv, AttemptsPaced

\* The values keep their types.
LEMMA StepPacingTyped ==
    ASSUME PacingTyped, [PacingNext]_pacingVars
    PROVE  PacingTyped'
  <1> USE PublishPacingAssumption DEF PacingTyped
  <1>1. CASE SecondPasses BY <1>1 DEF SecondPasses
  <1>2. CASE SetClockBack BY <1>2 DEF SetClockBack
  <1>3. CASE BeginRun BY <1>3 DEF BeginRun
  <1>4. CASE WaitForPublishSlot
    <2>1. stamp # NoTime => Delay \in 0..Interval
      BY DelayBounds
    <2>2. QED BY <1>4, <2>1 DEF WaitForPublishSlot
  <1>5. CASE Wake BY <1>5 DEF Wake
  <1>6. CASE TruncateStamp BY <1>6 DEF TruncateStamp, Clock
  <1>7. CASE WriteStamp BY <1>7 DEF WriteStamp
  <1>8. CASE EndPublish BY <1>8 DEF EndPublish
  <1>9. CASE FinishRun BY <1>9 DEF FinishRun
  <1>10. CASE KillRun BY <1>10 DEF KillRun
  <1>11. CASE UNCHANGED pacingVars BY <1>11 DEF pacingVars
  <1>12. QED
    BY <1>1, <1>2, <1>3, <1>4, <1>5, <1>6, <1>7, <1>8, <1>9, <1>10, <1>11
    DEF PacingNext

\* Every step preserves PaceInv.
LEMMA StepPace ==
    ASSUME PacingTyped, PaceInv, [PacingNext]_pacingVars
    PROVE  PaceInv'
  <1> USE PublishPacingAssumption
      DEF PacingTyped, PaceInv, AttemptsPaced
  <1>1. CASE SecondPasses BY <1>1 DEF SecondPasses
  <1>2. CASE SetClockBack BY <1>2 DEF SetClockBack
  <1>3. CASE BeginRun BY <1>3 DEF BeginRun
  <1>4. CASE WaitForPublishSlot
    <2>1. CASE stamp = NoTime
      BY <1>4, <2>1 DEF WaitForPublishSlot
    <2>2. CASE stamp # NoTime
      <3>1. /\ Delay \in 0..Interval
            /\ Delay < Interval => Clock + Delay - stamp >= Interval
        BY <2>2, DelayBounds
      <3>2. last # NoTime => wake' - last >= Interval
        BY <1>4, <2>2, <3>1 DEF WaitForPublishSlot, Clock
      <3>3. wake' <= seconds' + Interval
        BY <1>4, <2>2, <3>1 DEF WaitForPublishSlot
      <3>4. QED BY <1>4, <2>2, <3>2, <3>3 DEF WaitForPublishSlot
    <2>3. QED BY <2>1, <2>2
  <1>5. CASE Wake BY <1>5 DEF Wake
  <1>6. CASE TruncateStamp BY <1>6 DEF TruncateStamp, Clock
  <1>7. CASE WriteStamp BY <1>7 DEF WriteStamp
  <1>8. CASE EndPublish BY <1>8 DEF EndPublish
  <1>9. CASE FinishRun BY <1>9 DEF FinishRun
  <1>10. CASE KillRun BY <1>10 DEF KillRun
  <1>11. CASE UNCHANGED pacingVars BY <1>11 DEF pacingVars
  <1>12. QED
    BY <1>1, <1>2, <1>3, <1>4, <1>5, <1>6, <1>7, <1>8, <1>9, <1>10, <1>11
    DEF PacingNext

\* wait_for_publish_slot and record_publish_attempt keep two publish attempts
\* Interval apart, whatever is killed and however the clock is set back, and never
\* sleep for longer, although the recorded time may lie in the future.
THEOREM PaceKept == PacingSpec => []AttemptsPaced
  <1>1. PacingTyped /\ PaceInv /\ [PacingNext]_pacingVars
          => (PacingTyped /\ PaceInv)'
    BY StepPacingTyped, StepPace
  <1>2. PaceInv => AttemptsPaced
    BY DEF PaceInv
  <1>3. QED
    BY InitPace, <1>1, <1>2, PTL DEF PacingSpec

\* With the bounds: an attempt is begun only when the run has one left, which
\* keeps the count of those that are left from running below zero.
PacingCounted ==
    /\ PacingTypeOK
    /\ pc \in {"sleep", "record", "write"} => left > 0

\* The worker waits, records and publishes within its count of attempts.
LEMMA StepPacingCounted ==
    ASSUME PacingTyped, PacingCounted, [PacingNext]_pacingVars
    PROVE  PacingCounted'
  <1> USE PublishPacingAssumption DEF PacingCounted, PacingTypeOK
  <1>1. CASE SecondPasses BY <1>1 DEF SecondPasses
  <1>2. CASE SetClockBack BY <1>2 DEF SetClockBack
  <1>3. CASE BeginRun BY <1>3 DEF BeginRun
  <1>4. CASE WaitForPublishSlot
    <2>1. stamp # NoTime => Delay \in 0..Interval
      BY DelayBounds
    <2>2. QED BY <1>4, <2>1 DEF WaitForPublishSlot
  <1>5. CASE Wake BY <1>5 DEF Wake
  <1>6. CASE TruncateStamp BY <1>6 DEF TruncateStamp, Clock
  <1>7. CASE WriteStamp BY <1>7 DEF WriteStamp
  <1>8. CASE EndPublish BY <1>8 DEF EndPublish
  <1>9. CASE FinishRun BY <1>9 DEF FinishRun
  <1>10. CASE KillRun BY <1>10 DEF KillRun
  <1>11. CASE UNCHANGED pacingVars BY <1>11 DEF pacingVars
  <1>12. QED
    BY <1>1, <1>2, <1>3, <1>4, <1>5, <1>6, <1>7, <1>8, <1>9, <1>10, <1>11
    DEF PacingNext

\* A run never makes more than MaxPerRun attempts, and every variable keeps its
\* type, whatever the clock does and whenever the worker is killed.
THEOREM PacingTypeCorrect == PacingSpec => []PacingTypeOK
  <1>1. PacingInit => PacingTyped /\ PacingCounted
    BY PublishPacingAssumption
    DEF PacingInit, PacingTyped, PacingCounted, PacingTypeOK
  <1>2. PacingTyped /\ PacingCounted /\ [PacingNext]_pacingVars
          => (PacingTyped /\ PacingCounted)'
    BY StepPacingTyped, StepPacingCounted
  <1>3. PacingCounted => PacingTypeOK
    BY DEF PacingCounted
  <1>4. QED
    BY <1>1, <1>2, <1>3, PTL DEF PacingSpec

=============================================================================

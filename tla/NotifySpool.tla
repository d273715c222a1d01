------------------------------ MODULE NotifySpool ------------------------------
(***************************************************************************)
(* The notification spool of one controller: slurm_oci_mailprog.py puts    *)
(* one message file per Slurm event into it, slurm_oci_notify_worker.py    *)
(* takes them out.  MailProg runs once per event, concurrently with        *)
(* others; the worker is a systemd oneshot started by a path and a timer   *)
(* unit, protected by a lock file.  Both may be killed at any point, the   *)
(* file system may refuse an operation, and OCI may accept a message whose *)
(* acknowledgement is lost.                                                *)
(*                                                                         *)
(* The pacing of publish attempts (wait_for_publish_slot) is a matter of   *)
(* seconds and is specified in PublishPacing; here a clock tick is the     *)
(* scale of the retry delays, and the wait is some delay.  A message stands *)
(* for its file; the MailProg process that creates it has the same name.   *)
(***************************************************************************)
EXTENDS Naturals, FiniteSets

CONSTANTS
    Msgs,          \* events Slurm reports, each with its MailProg process
    Workers,       \* worker processes that systemd or an operator may start
    Topics,        \* OCI topics the user may be routed to
    NoTopic,       \* the user is not registered, or notifications are off
    None,          \* no lock holder / no file
    MaxQueued,     \* MAX_QUEUED_MESSAGES
    MaxMailProgs,  \* MailProg processes that run at the same time
    MaxPerRun,     \* MAX_PUBLISH_ATTEMPTS_PER_RUN
    TTL,           \* expires_at - created_at
    BaseDelay,     \* first retry delay
    MaxDelay,      \* longest retry delay
    MaxDoublings,  \* exponent at which the retry delay stops doubling
    LastEvent,     \* bound: no event is reported after this time
    MaxTime,       \* bound: the clock stops here
    MaxFaults      \* bound: kills and refused file operations in a behaviour

ASSUME NotifySpoolAssumption ==
    /\ NoTopic \notin Topics
    /\ {MaxQueued, MaxMailProgs, MaxPerRun, TTL, BaseDelay, MaxDelay} \subseteq Nat \ {0}
    /\ {MaxDoublings, LastEvent, MaxTime, MaxFaults} \subseteq Nat
    /\ None \notin Workers \cup Msgs

VARIABLES
    now,       \* time.time()
    topic,     \* registry: the user's topic_id
    mail,      \* state of each MailProg process
    spool,     \* message files: message -> contents or None
    failed,    \* message files under failed/
    lock,      \* holder of .worker.lock
    wk,        \* local state of each worker
    faults,    \* kills and refused file operations so far
    accepted,  \* history: times OCI accepted the message
    tries,     \* history: publish attempts of the message
    excused,   \* history: acknowledgements lost or forgotten
    discarded  \* history: messages dropped for an unregistered topic

vars == <<now, topic, mail, spool, failed, lock, wk, faults, accepted, tries,
          excused, discarded>>

history == <<accepted, tries, excused, discarded>>

Contents == [topic : Topics, valid : BOOLEAN, expires : 0..(LastEvent + TTL),
             next : 0..(MaxTime + MaxDelay), attempts : Nat]

\* No contents of a file stand for its absence; and facts of arithmetic that
\* restrict nothing, stated because the provers know nothing of powers.
ASSUME NoFileAssumption == None \notin Contents
ASSUME PowersAssumption ==
    /\ 2^0 = 1
    /\ \A k \in 0..(MaxDoublings + TTL) :
         /\ 2^k \in Nat /\ k < 2^k
         /\ 2^(k + 1) = 2 * 2^k
         /\ \A j \in 0..k : 2^j <= 2^k

\* The least time that k retry delays take while they double, and the longest
\* delay.
Elapsed(k)   == BaseDelay * (2^k - 1)
LongestDelay == IF BaseDelay * 2^MaxDoublings < MaxDelay
                THEN BaseDelay * 2^MaxDoublings ELSE MaxDelay

\* The delays double as long as the message lives; the first that does not takes
\* it to its expiry (60 s, 64 times that or an hour, and two hours in the code).
ASSUME DelaysAssumption ==
    \A k \in 0..(TTL - 1) : Elapsed(k) < TTL =>
        \/ k <= MaxDoublings /\ BaseDelay * 2^k <= MaxDelay
        \/ Elapsed(k) + LongestDelay >= TTL

MailState == [pc : {"new", "loaded", "fits", "queued", "dropped"},
              topic : Topics \cup {NoTopic}]
WorkerState == [pc : {"idle", "list", "scan", "publish", "unlink", "retry"},
                active : Topics \cup {NoTopic}, todo : SUBSET Msgs,
                cur : Msgs \cup {None}, left : 0..MaxPerRun]

Resting == [pc |-> "idle", active |-> NoTopic, todo |-> {}, cur |-> None,
            left |-> 0]

Queued == {m \in Msgs : spool[m] # None}

\* Types: a file holds what validate_message accepts or is marked invalid, and a
\* run never has more attempts left than MAX_PUBLISH_ATTEMPTS_PER_RUN.
TypeOK ==
    /\ now \in 0..MaxTime
    /\ topic \in Topics \cup {NoTopic}
    /\ mail \in [Msgs -> MailState]
    /\ spool \in [Msgs -> Contents \cup {None}]
    /\ failed \subseteq Msgs
    /\ lock \in Workers \cup {None}
    /\ wk \in [Workers -> WorkerState]
    /\ faults \in 0..MaxFaults
    /\ {accepted, tries, excused} \subseteq [Msgs -> Nat]
    /\ discarded \subseteq Msgs

Init ==
    /\ now = 0
    /\ topic \in Topics \cup {NoTopic}
    /\ mail = [m \in Msgs |-> [pc |-> "new", topic |-> NoTopic]]
    /\ spool = [m \in Msgs |-> None]
    /\ failed = {}
    /\ lock = None
    /\ wk = [w \in Workers |-> Resting]
    /\ faults = 0
    /\ accepted = [m \in Msgs |-> 0]
    /\ tries = [m \in Msgs |-> 0]
    /\ excused = [m \in Msgs |-> 0]
    /\ discarded = {}

-----------------------------------------------------------------------------
(* Environment: the clock, and cluster user add / delete on the registry *)

Tick ==
    /\ now < MaxTime
    /\ now' = now + 1
    /\ UNCHANGED <<topic, mail, spool, failed, lock, wk, faults, history>>

Reroute(t) ==
    /\ t # topic
    /\ now <= LastEvent
    /\ topic' = t
    /\ UNCHANGED <<now, mail, spool, failed, lock, wk, faults, history>>

-----------------------------------------------------------------------------
(* MailProg *)

MailGoto(m, pc) == mail' = [mail EXCEPT ![m].pc = pc]
MailEnds(m, pc) == mail' = [mail EXCEPT ![m] = [pc |-> pc, topic |-> NoTopic]]
Drop(m)         == MailEnds(m, "dropped")

Running == {m \in Msgs : mail[m].pc \in {"loaded", "fits"}}

\* load_registry and the lookup of the user's topic.  An unreadable registry,
\* a disabled one or an unregistered user ends MailProg without a message.
LoadRegistry(m) ==
    /\ mail[m].pc = "new"
    /\ now <= LastEvent
    /\ Cardinality(Running) < MaxMailProgs
    /\ \/ Drop(m)
       \/ /\ topic # NoTopic
          /\ mail' = [mail EXCEPT ![m] = [pc |-> "loaded", topic |-> topic]]
    /\ UNCHANGED <<now, topic, spool, failed, lock, wk, faults, history>>

\* queue_has_capacity: a full queue or a full disk drops the notification.
QueueHasCapacity(m) ==
    /\ mail[m].pc = "loaded"
    /\ IF Cardinality(Queued) >= MaxQueued
       THEN Drop(m)
       ELSE MailGoto(m, "fits") \/ Drop(m)
    /\ UNCHANGED <<now, topic, spool, failed, lock, wk, faults, history>>

\* The message file appears under its final name by os.replace; a registry
\* without a region makes a message the worker will not accept.  Any error,
\* and a kill, ends MailProg with at most a temporary file left behind.
WriteMessage(m) ==
    /\ mail[m].pc = "fits"
    /\ now <= LastEvent
    /\ \/ Drop(m) /\ UNCHANGED spool
       \/ /\ MailEnds(m, "queued")
          /\ \E valid \in BOOLEAN :
               spool' = [spool EXCEPT ![m] =
                           [topic |-> mail[m].topic, valid |-> valid,
                            expires |-> now + TTL, next |-> now, attempts |-> 0]]
    /\ UNCHANGED <<now, topic, failed, lock, wk, faults, history>>

-----------------------------------------------------------------------------
(* Worker: process_queue *)

\* A run takes the lock without waiting (a busy lock ends it at once) and reads
\* the routing, once.  An unreadable registry ends it.
StartRun(w) ==
    /\ wk[w].pc = "idle"
    /\ lock = None
    /\ lock' = w
    /\ wk' = [wk EXCEPT ![w] = [pc |-> "list", active |-> topic, todo |-> {},
                                cur |-> None, left |-> MaxPerRun]]
    /\ UNCHANGED <<now, topic, mail, spool, failed, faults, history>>

\* The queue is listed, once.  The names are sorted by modification time; ties and
\* retries make any order possible, so the order is left open.
ListQueue(w) ==
    /\ wk[w].pc = "list"
    /\ wk' = [wk EXCEPT ![w].pc = "scan", ![w].todo = Queued]
    /\ UNCHANGED <<now, topic, mail, spool, failed, lock, faults, history>>

\* Only the holder of the lock removes files, so a listed file is still there.
Pending(w, m) == wk[w].pc = "scan" /\ m \in wk[w].todo /\ spool[m] # None

Passed(w, m) == wk' = [wk EXCEPT ![w].todo = @ \ {m}]

Due(m) == spool[m].valid /\ now >= spool[m].next

Routed(w, m) ==
    Due(m) /\ now < spool[m].expires /\ wk[w].active = spool[m].topic

\* A refused file operation or a kill uses up the bound on faults.
Fault == faults < MaxFaults /\ faults' = faults + 1

\* The file cannot be read, its retry is not due, or the run has used up its
\* publish attempts: the next one.
Skip(w, m) ==
    /\ Pending(w, m)
    /\ \/ Fault
       \/ spool[m].valid /\ now < spool[m].next /\ UNCHANGED faults
       \/ Routed(w, m) /\ wk[w].left = 0 /\ UNCHANGED faults
    /\ Passed(w, m)
    /\ UNCHANGED <<now, topic, mail, spool, failed, lock, history>>

\* The file system refuses an operation on a message that was read: the
\* message is handled as a failed delivery.
Refused(w, m) ==
    /\ Fault
    /\ wk' = [wk EXCEPT ![w].todo = @ \ {m}, ![w].pc = "retry", ![w].cur = m]
    /\ UNCHANGED <<spool, failed, discarded, tries>>

ToFailed(m) ==
    /\ spool' = [spool EXCEPT ![m] = None]
    /\ failed' = failed \cup {m}

\* An invalid message moves to failed/, or stays if that is refused.
Quarantine(w, m) ==
    /\ Pending(w, m)
    /\ ~spool[m].valid
    /\ Passed(w, m)
    /\ \/ ToFailed(m) /\ UNCHANGED faults
       \/ Fault /\ UNCHANGED <<spool, failed>>
    /\ UNCHANGED <<now, topic, mail, lock, history>>

\* Mutant: expired messages are only passed over.
PassOverExpired(w, m) ==
    /\ Pending(w, m)
    /\ Due(m) /\ now >= spool[m].expires
    /\ Passed(w, m)
    /\ UNCHANGED <<now, topic, mail, spool, failed, lock, faults, history>>

Expire(w, m) ==
    /\ Pending(w, m)
    /\ Due(m) /\ now >= spool[m].expires
    /\ \/ ToFailed(m) /\ Passed(w, m) /\ UNCHANGED <<faults, discarded, tries>>
       \/ Refused(w, m)
    /\ UNCHANGED <<now, topic, mail, lock, accepted, excused>>

\* The routing read at the start of the run names another topic: the file is
\* removed.
Discard(w, m) ==
    /\ Pending(w, m)
    /\ Due(m) /\ now < spool[m].expires
    /\ wk[w].active # spool[m].topic
    /\ \/ /\ spool' = [spool EXCEPT ![m] = None]
          /\ discarded' = discarded \cup {m}
          /\ Passed(w, m)
          /\ UNCHANGED <<failed, faults, tries>>
       \/ Refused(w, m)
    /\ UNCHANGED <<now, topic, mail, lock, accepted, excused>>

Attempt(w, m) ==
    /\ wk' = [wk EXCEPT ![w].pc = "publish", ![w].cur = m,
                        ![w].todo = @ \ {m}, ![w].left = @ - 1]
    /\ tries' = [tries EXCEPT ![m] = @ + 1]
    /\ UNCHANGED <<spool, failed, faults, discarded>>

\* Mutant: the attempts of a run are not limited.
BeginAttemptUnlimited(w, m) ==
    /\ Pending(w, m)
    /\ Routed(w, m)
    /\ Attempt(w, m) \/ Refused(w, m)
    /\ UNCHANGED <<now, topic, mail, lock, accepted, excused>>

\* wait_for_publish_slot, record_publish_attempt (the write of which may be
\* refused) and the call of the OCI CLI.
BeginAttempt(w, m) ==
    /\ Pending(w, m)
    /\ Routed(w, m)
    /\ wk[w].left > 0
    /\ Attempt(w, m) \/ Refused(w, m)
    /\ UNCHANGED <<now, topic, mail, lock, accepted, excused>>

WorkerGoto(w, pc) == wk' = [wk EXCEPT ![w].pc = pc]

Accept(m) == accepted' = [accepted EXCEPT ![m] = @ + 1]
Excuse(m) == excused' = [excused EXCEPT ![m] = @ + 1]

\* publish: success, an error before OCI accepted the message, or a timeout of
\* a message that OCI has accepted.
Publish(w) ==
    LET m == wk[w].cur IN
    /\ wk[w].pc = "publish"
    /\ \/ Accept(m) /\ WorkerGoto(w, "unlink") /\ UNCHANGED excused
       \/ WorkerGoto(w, "retry") /\ UNCHANGED <<accepted, excused>>
       \/ Accept(m) /\ Excuse(m) /\ WorkerGoto(w, "retry")
    /\ UNCHANGED <<now, topic, mail, spool, failed, lock, faults, tries,
                   discarded>>

Scanning(w) == wk' = [wk EXCEPT ![w].pc = "scan", ![w].cur = None]

\* Mutant: a delivered file that cannot be removed is not archived.
RemoveDeliveredOrKeep(w) ==
    LET m == wk[w].cur IN
    /\ wk[w].pc = "unlink"
    /\ Scanning(w)
    /\ \/ spool' = [spool EXCEPT ![m] = None] /\ UNCHANGED faults
       \/ Fault /\ UNCHANGED spool
    /\ UNCHANGED <<now, topic, mail, failed, lock, history>>

\* A delivered message: the file is removed, or archived under failed/ if that
\* is refused, or stays and will be published again if both are refused.
RemoveDelivered(w) ==
    LET m == wk[w].cur IN
    /\ wk[w].pc = "unlink"
    /\ Scanning(w)
    /\ \/ /\ spool' = [spool EXCEPT ![m] = None]
          /\ UNCHANGED <<failed, faults, excused>>
       \/ /\ Fault
          /\ spool' = [spool EXCEPT ![m] = None]
          /\ failed' = failed \cup {m}
          /\ UNCHANGED excused
       \/ Fault /\ Excuse(m) /\ UNCHANGED <<spool, failed>>
    /\ UNCHANGED <<now, topic, mail, lock, accepted, tries, discarded>>

\* Mutant: the retry delay does not grow.
ConstantDelay(attempts) == BaseDelay

\* mark_retry: 60 s, doubled by every failure, at most an hour.
RetryDelay(attempts) ==
    LET doublings == IF attempts - 1 < MaxDoublings THEN attempts - 1
                                                    ELSE MaxDoublings
        delay     == BaseDelay * 2^doublings
    IN  IF delay < MaxDelay THEN delay ELSE MaxDelay

\* Mutant: the failed delivery is removed instead of being retained.
ForgetFailedDelivery(w) ==
    LET m == wk[w].cur IN
    /\ wk[w].pc = "retry"
    /\ Scanning(w)
    /\ spool' = [spool EXCEPT ![m] = None]
    /\ UNCHANGED <<now, topic, mail, failed, lock, faults, history>>

\* Mutant: a message whose next attempt would come too late is given up at once.
GiveUpBeforeExpiry(w) ==
    LET m == wk[w].cur
        n == spool[m].attempts + 1
        next == now + RetryDelay(n) IN
    /\ wk[w].pc = "retry"
    /\ Scanning(w)
    /\ \/ /\ next >= spool[m].expires
          /\ ToFailed(m)
       \/ /\ next < spool[m].expires
          /\ spool' = [spool EXCEPT ![m].attempts = n, ![m].next = next]
          /\ UNCHANGED failed
    /\ UNCHANGED <<now, topic, mail, lock, faults, history>>

\* mark_retry: an expired message goes to failed/, any other is rewritten with
\* its next attempt.  If the file system refuses, the file stays as it was and
\* the attempt is not counted in it.
MarkRetry(w) ==
    LET m == wk[w].cur
        n == spool[m].attempts + 1 IN
    /\ wk[w].pc = "retry"
    /\ Scanning(w)
    /\ \/ /\ now >= spool[m].expires
          /\ spool' = [spool EXCEPT ![m] = None]
          /\ failed' = failed \cup {m}
          /\ UNCHANGED faults
       \/ /\ now < spool[m].expires
          /\ spool' = [spool EXCEPT ![m].attempts = n,
                                    ![m].next = now + RetryDelay(n)]
          /\ UNCHANGED <<failed, faults>>
       \/ Fault /\ UNCHANGED <<spool, failed>>
    /\ UNCHANGED <<now, topic, mail, lock, history>>

\* The list is done: the lock file is closed.
EndRun(w) ==
    /\ wk[w].pc = "scan"
    /\ wk[w].todo = {}
    /\ wk' = [wk EXCEPT ![w] = Resting]
    /\ lock' = None
    /\ UNCHANGED <<now, topic, mail, spool, failed, faults, history>>

\* The worker is killed (TimeoutStartSec, reboot).  The lock goes with the
\* process; a publish in flight may or may not have been accepted.
Kill(w) ==
    LET m == wk[w].cur IN
    /\ wk[w].pc # "idle"
    /\ Fault
    /\ CASE wk[w].pc = "publish" ->
              \/ Accept(m) /\ Excuse(m)
              \/ UNCHANGED <<accepted, excused>>
         [] wk[w].pc = "unlink" -> Excuse(m) /\ UNCHANGED accepted
         [] OTHER -> UNCHANGED <<accepted, excused>>
    /\ wk' = [wk EXCEPT ![w] = Resting]
    /\ lock' = None
    /\ UNCHANGED <<now, topic, mail, spool, failed, tries, discarded>>

-----------------------------------------------------------------------------
MailProg(m) == LoadRegistry(m) \/ QueueHasCapacity(m) \/ WriteMessage(m)

Examine(w, m) ==
    \/ Skip(w, m) \/ Quarantine(w, m) \/ Expire(w, m) \/ Discard(w, m)
    \/ BeginAttempt(w, m)

WorkerStep(w) ==
    \/ \E m \in Msgs : Examine(w, m)
    \/ ListQueue(w) \/ Publish(w) \/ RemoveDelivered(w) \/ MarkRetry(w) \/ EndRun(w)

\* The clock has stopped and every run is over: the bounded system rests.
Rest ==
    /\ now = MaxTime /\ lock = None
    /\ UNCHANGED vars

Next ==
    \/ Tick
    \/ \E t \in Topics \cup {NoTopic} : Reroute(t)
    \/ \E m \in Msgs : MailProg(m)
    \/ \E w \in Workers : StartRun(w) \/ WorkerStep(w) \/ Kill(w)
    \/ Rest

Spec == Init /\ [][Next]_vars

\* The timer starts a run every minute, whatever became of the last one; a
\* started run goes on until it ends or is killed; time passes.
Fairness ==
    /\ WF_vars(Tick)
    /\ SF_vars(\E w \in Workers : StartRun(w))
    /\ \A w \in Workers : WF_vars(WorkerStep(w))

FairSpec == Spec /\ Fairness

-----------------------------------------------------------------------------
(* Properties *)

\* A queued message leaves the spool only because OCI accepted it, because its user
\* is not routed to its topic any more, or into failed/.
NoSilentLoss ==
    \A m \in Msgs :
        (mail[m].pc = "queued" /\ spool[m] = None) =>
            accepted[m] > 0 \/ m \in failed \/ m \in discarded

\* OCI accepts a message a second time only after an acknowledgement was lost:
\* a timeout, a kill between publish and unlink, or a delivered file that
\* could neither be removed nor archived.
DuplicatesExcused == \A m \in Msgs : accepted[m] <= 1 + excused[m]

\* The retry delay doubles, so a message that lives for TTL is tried at most
\* this often (seven times for 60 s and two hours), plus one for every attempt
\* whose failure could not be written back.
MaxTries == Cardinality({k \in 0..(TTL - 1) : Elapsed(k) < TTL})

AttemptsBounded == \A m \in Msgs : tries[m] <= MaxTries + faults

\* A message that OCI has accepted and whose file a worker is about to remove.
Delivered(m) == \E w \in Workers : wk[w].pc = "unlink" /\ wk[w].cur = m

Status(m) ==
    IF mail[m].pc # "queued" THEN "unsent"
    ELSE IF spool[m] # None THEN IF Delivered(m) THEN "confirmed" ELSE "queued"
    ELSE IF m \in discarded THEN "discarded"
    ELSE IF m \in failed    THEN "archived"
    ELSE "delivered"

\* The user was routed elsewhere when the run that looks at the message began.
Astray(m) ==
    \E w \in Workers : m \in wk[w].todo /\ wk[w].active # spool[m].topic

Worthless ==
    {m \in Queued : ~spool[m].valid \/ now >= spool[m].expires \/ Astray(m)}

\* The spool as a whole does what AtLeastOnce says: a message is published again
\* only if an acceptance was missed, and leaves once, because its acceptance is
\* known, or because it is malformed, expired or for a user routed elsewhere.
Delivery ==
    INSTANCE AtLeastOnce WITH
        Messages  <- Msgs,
        status    <- [m \in Msgs |-> Status(m)],
        received  <- accepted,
        missed    <- excused,
        worthless <- Worthless

DeliverySpec == Delivery!Spec

\* Every queued message leaves the spool: it is delivered, discarded, or ends
\* up in failed/ when it expires.
EveryMessageLeaves == \A m \in Msgs : spool[m] # None ~> spool[m] = None

=============================================================================

----------------------------- MODULE PublishPacing -----------------------------
(***************************************************************************)
(* The pace at which slurm_oci_notify_worker.py publishes.  The worker      *)
(* keeps the time of its last publish attempt in the lock file, so that the *)
(* pace survives the end of a run, and waits before an attempt until        *)
(* MIN_PUBLISH_INTERVAL_SECONDS have passed.  Runs exclude each other (see  *)
(* NotifySpool), so one run at a time is modelled; it may be killed at any  *)
(* point, the lock file may refuse the write of the time, and the wall      *)
(* clock may be set back.  A clock that is set forward is not modelled: the *)
(* worker then waits too little.  Its names are not those of NotifySpool,   *)
(* so that one module can prove things about both parts of the worker.      *)
(***************************************************************************)
EXTENDS Integers

CONSTANTS
    Interval,     \* MIN_PUBLISH_INTERVAL_SECONDS
    MaxAttempts,  \* MAX_PUBLISH_ATTEMPTS_PER_RUN
    NoTime,       \* an empty lock file, or no attempt yet
    MaxSeconds,   \* bound: real time stops here
    MaxBack       \* bound: how far the clock is set back in all

ASSUME PublishPacingAssumption ==
    /\ Interval \in Nat \ {0}
    /\ MaxAttempts \in Nat \ {0}
    /\ {MaxSeconds, MaxBack} \subseteq Nat
    /\ NoTime \notin Int

VARIABLES
    seconds,  \* real time
    back,     \* how far the wall clock is behind it
    stamp,    \* the time in the lock file
    pc,       \* where the run is
    wake,     \* end of the sleep
    read,     \* the clock value to be recorded
    left,     \* publish attempts the run has left
    begun,    \* history: real time at which read was read
    last      \* history: real time of the last recorded attempt

pacingVars == <<seconds, back, stamp, pc, wake, read, left, begun, last>>

Clock == seconds - back

\* Types: the recorded time, the clock and the worker's delay.
PacingTypeOK ==
    /\ seconds \in 0..MaxSeconds
    /\ back \in 0..MaxBack
    /\ stamp \in Int \cup {NoTime}
    /\ pc \in {"idle", "scan", "sleep", "record", "write", "publish"}
    /\ wake \in Nat
    /\ read \in Int
    /\ left \in 0..MaxAttempts
    /\ begun \in Nat
    /\ last \in Nat \cup {NoTime}

PacingInit ==
    /\ seconds = 0 /\ back = 0
    /\ stamp = NoTime
    /\ pc = "idle" /\ wake = 0 /\ read = 0 /\ left = 0
    /\ begun = 0 /\ last = NoTime

-----------------------------------------------------------------------------
SecondPasses ==
    /\ seconds < MaxSeconds
    /\ seconds' = seconds + 1
    /\ UNCHANGED <<back, stamp, pc, wake, read, left, begun, last>>

SetClockBack ==
    /\ back < MaxBack
    /\ back' = back + 1
    /\ UNCHANGED <<seconds, stamp, pc, wake, read, left, begun, last>>

BeginRun ==
    /\ pc = "idle"
    /\ pc' = "scan"
    /\ left' = MaxAttempts
    /\ UNCHANGED <<seconds, back, stamp, wake, read, begun, last>>

AtLeast(a, b) == IF a < b THEN b ELSE a
AtMost(a, b)  == IF a < b THEN a ELSE b

\* wait_for_publish_slot: a time in the future, which a clock that was set
\* back leaves behind, must not make the worker wait for longer than Interval.
Delay == AtMost(Interval, AtLeast(0, Interval - (Clock - stamp)))

\* Mutant: the attempts of a run are not limited.
WaitWithoutLimit ==
    /\ pc = "scan"
    /\ \/ /\ stamp = NoTime
          /\ pc' = "record"
          /\ UNCHANGED wake
       \/ /\ stamp # NoTime
          /\ pc' = "sleep"
          /\ wake' = seconds + Delay
    /\ UNCHANGED <<seconds, back, stamp, read, left, begun, last>>

\* The run has a message to publish and attempts left.
WaitForPublishSlot ==
    /\ pc = "scan"
    /\ left > 0
    /\ \/ /\ stamp = NoTime
          /\ pc' = "record"
          /\ UNCHANGED wake
       \/ /\ stamp # NoTime
          /\ pc' = "sleep"
          /\ wake' = seconds + Delay
    /\ UNCHANGED <<seconds, back, stamp, read, left, begun, last>>

Wake ==
    /\ pc = "sleep"
    /\ seconds >= wake
    /\ pc' = "record"
    /\ wake' = 0
    /\ UNCHANGED <<seconds, back, stamp, read, left, begun, last>>

\* record_publish_attempt: the clock is read and the file truncated.
TruncateStamp ==
    /\ pc = "record"
    /\ pc' = "write"
    /\ stamp' = NoTime
    /\ read' = Clock
    /\ begun' = seconds
    /\ UNCHANGED <<seconds, back, wake, left, last>>

\* Mutant: the time is not written to the lock file (the write is left buffered).
WriteNoStamp ==
    /\ pc = "write"
    /\ read' = 0 /\ begun' = 0
    /\ pc' = "publish"
    /\ left' = left - 1
    /\ last' = begun
    /\ UNCHANGED <<seconds, back, stamp, wake>>

\* record_publish_attempt: the time is written; a refused write is handled as
\* a failed delivery, and leaves the file empty.
WriteStamp ==
    /\ pc = "write"
    /\ read' = 0 /\ begun' = 0
    /\ \/ /\ stamp' = read
          /\ pc' = "publish"
          /\ left' = left - 1
          /\ last' = begun
       \/ /\ pc' = "scan"
          /\ UNCHANGED <<stamp, left, last>>
    /\ UNCHANGED <<seconds, back, wake>>

\* publish: the call ends, in whatever way, before the next attempt begins.
EndPublish ==
    /\ pc = "publish"
    /\ pc' = "scan"
    /\ UNCHANGED <<seconds, back, stamp, wake, read, left, begun, last>>

FinishRun ==
    /\ pc = "scan"
    /\ pc' = "idle"
    /\ left' = 0
    /\ UNCHANGED <<seconds, back, stamp, wake, read, begun, last>>

\* TimeoutStartSec, a reboot or an operator ends the process.
KillRun ==
    /\ pc \in {"sleep", "record", "write", "publish"}
    /\ pc' = "idle"
    /\ wake' = 0 /\ read' = 0 /\ left' = 0 /\ begun' = 0
    /\ UNCHANGED <<seconds, back, stamp, last>>

PacingNext ==
    \/ SecondPasses \/ SetClockBack
    \/ BeginRun \/ WaitForPublishSlot \/ Wake \/ TruncateStamp \/ WriteStamp
    \/ EndPublish \/ FinishRun \/ KillRun

PacingSpec == PacingInit /\ [][PacingNext]_pacingVars

-----------------------------------------------------------------------------
(* Properties *)

\* Two publish attempts are at least Interval apart in real time, also across
\* runs, kills before the time was written, and a clock that was set back; and no
\* wait ends later than Interval from now, also when the recorded time lies in the
\* future.
AttemptsPaced ==
    /\ pc = "record" /\ last # NoTime => seconds - last >= Interval
    /\ pc = "sleep" => wake <= seconds + Interval

=============================================================================

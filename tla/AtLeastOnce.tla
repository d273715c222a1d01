------------------------------ MODULE AtLeastOnce ------------------------------
(***************************************************************************)
(* What the notification spool promises, whatever runs, locks, retries and *)
(* kills it is made of: at-least-once delivery.  A message is sent once,   *)
(* is handed over as often as confirmations are missed, and leaves the     *)
(* queue once, for one reason: the sender knows that it was delivered, or  *)
(* it is not worth delivering any more.  At most one message at a time is  *)
(* known to be delivered and still queued.                                 *)
(*                                                                         *)
(* What is worth delivering is for the environment to say: it changes with *)
(* every step.                                                             *)
(***************************************************************************)
EXTENDS Naturals

CONSTANT Messages

VARIABLES
    status,    \* what has become of each message
    received,  \* how often the receiver has taken it
    missed,    \* how often the sender did not learn or remember that
    worthless  \* messages that are expired, malformed or addressed elsewhere

vars == <<status, received, missed, worthless>>

Init ==
    /\ status = [m \in Messages |-> "unsent"]
    /\ received = [m \in Messages |-> 0]
    /\ missed = [m \in Messages |-> 0]
    /\ worthless \subseteq Messages

Becomes(m, s) == status' = [status EXCEPT ![m] = s]
Once(count, m) == [count EXCEPT ![m] = @ + 1]

Send(m) ==
    /\ status[m] = "unsent"
    /\ Becomes(m, "queued")
    /\ UNCHANGED <<received, missed>>

\* The receiver takes a queued message while the sender has settled all others.
HandOver(m) ==
    /\ status[m] = "queued"
    /\ \A o \in Messages : status[o] # "confirmed"
    /\ received' = Once(received, m)
    /\ \/ Becomes(m, "confirmed") /\ UNCHANGED missed
       \/ missed' = Once(missed, m) /\ UNCHANGED status

\* The sender forgets what it knew: the message is queued as before.
Forget(m) ==
    /\ status[m] = "confirmed"
    /\ Becomes(m, "queued")
    /\ missed' = Once(missed, m)
    /\ UNCHANGED received

Leave(m) ==
    /\ \/ status[m] = "confirmed" /\ (Becomes(m, "delivered") \/ Becomes(m, "archived"))
       \/ /\ status[m] = "queued" /\ m \in worthless
          /\ Becomes(m, "archived") \/ Becomes(m, "discarded")
    /\ UNCHANGED <<received, missed>>

Next ==
    /\ worthless' \subseteq Messages
    /\ \/ \E m \in Messages : Send(m) \/ HandOver(m) \/ Forget(m) \/ Leave(m)
       \/ UNCHANGED <<status, received, missed>>

Spec == Init /\ [][Next]_vars

=============================================================================

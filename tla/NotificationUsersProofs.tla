----------------------- MODULE NotificationUsersProofs -----------------------
(***************************************************************************)
(* Proofs that no command deletes the resources of a routed user and that   *)
(* no topic is forgotten, for any numbers of users, commands and failures.   *)
(*                                                                          *)
(* The argument is one of ownership.  A topic is in one set of books at a    *)
(* time: the routing of one user, the entry one command holds, the journal   *)
(* (and the snapshots that cleanups took of it), or lost.  A command deletes *)
(* only what it holds or what it found in the journal, so never a routed     *)
(* topic, and it puts back only what it alone holds.                         *)
(***************************************************************************)
EXTENDS NotificationUsers, TLAPS

Entry(p) == proc[p].entry
Seen(p)  == proc[p].seen
Left(p)  == proc[p].left
Todo(p)  == proc[p].todo

\* The local state of a command fits the step it is at.
LocalInv(p) ==
    /\ p \in Cleaners => proc[p].pc \in {"idle", "delete"} /\ Entry(p) = None
    /\ proc[p].pc \in {"idle", "ended", "topic", "remove"} => Entry(p) = None
    /\ proc[p].pc # "delete" => Seen(p) = {} 
    /\ proc[p].pc = "delete" /\ p \notin Cleaners => Entry(p) # None /\ Seen(p) = {Entry(p)}
    /\ proc[p].pc \in PCs \ {"idle", "ended", "delete"} => proc[p].user \in Users
    /\ proc[p].pc \in {"recover", "subscription", "ldap", "store", "rollback"} => Entry(p) = p
    /\ proc[p].pc = "subscription" => p \in topics
    /\ proc[p].pc \in {"ldap", "store", "sync", "unldap", "restore"} /\ Entry(p) # None =>
           Entry(p) \in subs
    /\ \A t \in Topics : Todo(p)[t] # {} \/ Left(p)[t] # {} => t \in Seen(p)
    /\ \A t \in Seen(p) \cap topics : "topic" \in Left(p)[t]

\* What a command holds is in no other books.
EntryOwned ==
    \A p \in Procs : Entry(p) # None =>
        /\ Entry(p) \notin lost
        /\ journal[Entry(p)] = {}
        /\ \A u \in Users : routing[u] # Entry(p)
        /\ \A q \in Procs \ {p} : Entry(q) # Entry(p) /\ Entry(p) \notin Seen(q)

\* What a command deletes is neither routed nor lost.
SeenOwned ==
    \A p \in Procs : \A t \in Seen(p) :
        t \notin lost /\ \A u \in Users : routing[u] # t

\* A routed topic has its subscription and is in no other books.
RoutingOwned ==
    \A u \in Users : routing[u] # None =>
        /\ routing[u] \in subs
        /\ journal[routing[u]] = {}
        /\ routing[u] \notin lost
        /\ \A v \in Users \ {u} : routing[v] # routing[u]

JournalOwned == \A t \in Topics : journal[t] # {} => t \notin lost

\* A creation that is under way is being recovered, or lost.
AskedInv ==
    \A t \in asked : t \notin topics /\ (t \in lost \/ proc[t].pc = "recover")

\* Nobody knows the topic of an add that has not created it.
UnusedInv ==
    \A a \in Adders : proc[a].pc \in {"idle", "topic"} =>
        /\ a \notin topics \cup asked \cup lost
        /\ journal[a] = {}
        /\ \A u \in Users : routing[u] # a
        /\ \A q \in Procs : Entry(q) # a /\ a \notin Seen(q)

Inv ==
    /\ TypeOK
    /\ \A p \in Procs : LocalInv(p)
    /\ EntryOwned
    /\ SeenOwned
    /\ RoutingOwned
    /\ JournalOwned
    /\ AskedInv
    /\ UnusedInv
    /\ NoTopicForgotten

-----------------------------------------------------------------------------
\* Initially nothing is owned and nothing is recorded.
LEMMA InitInv == Init => Inv
  BY NotificationUsersAssumption
  DEF Init, Inv, TypeOK, LocalInv, EntryOwned, SeenOwned, RoutingOwned, JournalOwned,
      AskedInv, UnusedInv, NoTopicForgotten, Entry, Seen, Left, Todo, Fresh, Nothing,
      ProcState, PCs, Topics, Procs, Referenced, Held

-----------------------------------------------------------------------------
(* What a step does to the local states *)

\* p's local state becomes r, and no other changes.
Becomes(p, r) ==
    /\ proc' \in [Procs -> ProcState]
    /\ proc'[p] = r
    /\ \A q \in Procs \ {p} : proc'[q] = proc[q]

\* The constants' sets do not overlap.
LEMMA Sets ==
  /\ Adders \subseteq Topics /\ Users \subseteq Topics
  /\ Adders \subseteq Procs /\ Deleters \subseteq Procs /\ Cleaners \subseteq Procs
  /\ \A p \in Adders : p \notin Deleters /\ p \notin Cleaners
  /\ \A p \in Deleters : p \notin Adders /\ p \notin Cleaners
  /\ None \notin Topics
  BY NotificationUsersAssumption DEF Topics, Procs

\* A process update leaves the other processes as they are.
LEMMA Updates ==
  ASSUME TypeOK, NEW p \in Procs, NEW r \in ProcState, proc' = [proc EXCEPT ![p] = r]
  PROVE  Becomes(p, r)
  BY DEF TypeOK, Becomes

\* A fresh local state has its type.
LEMMA FreshType ==
  ASSUME NEW pc \in PCs PROVE Fresh(pc) \in ProcState
<1>1. Nothing \in [Topics -> SUBSET Parts]
  BY DEF Nothing
<1> QED
  BY <1>1 DEF Fresh, ProcState

\* Ends is an update to a fresh local state.
LEMMA EndsBecomes ==
  ASSUME TypeOK, NEW p \in Procs, Ends(p)
  PROVE  Becomes(p, Fresh(IF p \in Adders THEN "ended" ELSE "idle"))
  BY Updates, FreshType DEF Ends, PCs

\* Goto is an update of the pc alone.
LEMMA GotoBecomes ==
  ASSUME TypeOK, NEW p \in Procs, NEW pc \in PCs, Goto(p, pc)
  PROVE  Becomes(p, [proc[p] EXCEPT !.pc = pc])
<1>1. proc[p] \in ProcState
  BY DEF TypeOK
<1>2. [proc[p] EXCEPT !.pc = pc] \in ProcState
  BY <1>1 DEF ProcState
<1> QED
  BY <1>2, Updates DEF Goto, TypeOK

\* The start of a cleanup entry as an update of the local state.
LEMMA DeleteEntryBecomes ==
  ASSUME TypeOK, NEW p \in Procs, NEW t \in Topics, NEW parts \in SUBSET Parts,
         DeleteEntry(p, t, parts)
  PROVE  \E r \in ProcState :
             /\ Becomes(p, r)
             /\ r.pc = "delete" /\ r.entry = t /\ r.seen = {t}
             /\ r.left = [Nothing EXCEPT ![t] = parts]
             /\ r.todo = [Nothing EXCEPT ![t] = parts]
<1> DEFINE ids == [Nothing EXCEPT ![t] = parts]
           r == [proc[p] EXCEPT !.pc = "delete", !.entry = t, !.seen = {t},
                                !.left = ids, !.todo = ids]
<1>1. proc[p] \in ProcState
  BY DEF TypeOK
<1>2. ids \in [Topics -> SUBSET Parts]
  BY DEF Nothing
<1>3. r \in ProcState
  BY <1>1, <1>2 DEF ProcState, PCs
<1>4. proc' = [proc EXCEPT ![p] = r]
  BY DEF DeleteEntry, TypeOK
<1> QED
  BY <1>1, <1>3, <1>4, Updates DEF ProcState

-----------------------------------------------------------------------------
(* Kinds of steps *)

\* The invariant but for the types.
OwnInv ==
    /\ \A p \in Procs : LocalInv(p)
    /\ EntryOwned /\ SeenOwned /\ RoutingOwned /\ JournalOwned
    /\ AskedInv /\ UnusedInv /\ NoTopicForgotten

\* The local parts of the invariant hold of processes that do not move.
LEMMA OthersLocal ==
  ASSUME Inv, NEW p \in Procs, NEW r \in ProcState, Becomes(p, r),
         NEW q \in Procs \ {p},
         \A t \in topics' : t \in topics \/ t \notin Seen(q),
         q \in topics /\ Entry(q) = q => q \in topics',
         Entry(q) \in subs => Entry(q) \in subs'
  PROVE  LocalInv(q)'
<1>1. proc'[q] = proc[q] /\ LocalInv(q)
  BY DEF Becomes, Inv
<1> QED
  BY <1>1 DEF LocalInv, Entry, Seen, Left, Todo

\* The local parts of the invariant hold of a fresh local state.
LEMMA FreshLocal ==
  ASSUME NEW p \in Procs, Becomes(p, Fresh(IF p \in Adders THEN "ended" ELSE "idle"))
  PROVE  LocalInv(p)'
  BY Sets DEF Becomes, LocalInv, Entry, Seen, Left, Todo, Fresh, Nothing

\* p moves on; its entry and what it deletes stay.
Moves(p, r) ==
    /\ Becomes(p, r)
    /\ r.entry = Entry(p) /\ r.seen = Seen(p)
    /\ UNCHANGED <<topics, asked, registry, lost>>

\* A step that only moves one process, within its claims, keeps the invariant.
LEMMA MovesInv ==
  ASSUME Inv, NEW p \in Procs, NEW r \in ProcState, Moves(p, r), LocalInv(p)',
         proc[p].pc # "recover", r.pc # "idle", r.pc = "topic" => proc[p].pc = "idle",
         subs \subseteq subs'
  PROVE  OwnInv'
<1> USE DEF Moves, Becomes, Inv, Entry, Seen, registry
<1>0. \A q \in Procs : Entry(q)' = Entry(q) /\ Seen(q)' = Seen(q)
  OBVIOUS
<1>1. EntryOwned'
  BY <1>0 DEF EntryOwned
<1>2. SeenOwned'
  BY <1>0 DEF SeenOwned
<1>3. RoutingOwned' /\ JournalOwned'
  BY DEF RoutingOwned, JournalOwned
<1>4. AskedInv'
  BY Sets DEF AskedInv, TypeOK
<1>5. UnusedInv'
  BY <1>0, Sets DEF UnusedInv
<1>6. NoTopicForgotten'
  BY <1>0 DEF NoTopicForgotten, Held, Referenced
<1>7. \A q \in Procs : LocalInv(q)'
  BY OthersLocal
<1> QED
  BY <1>1, <1>2, <1>3, <1>4, <1>5, <1>6, <1>7 DEF OwnInv

\* p begins to delete what it holds.
LEMMA BeginsInv ==
  ASSUME Inv, NEW p \in Procs, p \notin Cleaners, Entry(p) # None,
         proc[p].pc = "recover" => p \notin asked,
         NEW parts \in SUBSET Parts, "topic" \in parts, DeleteEntry(p, Entry(p), parts),
         UNCHANGED <<topics, asked, registry, lost>>, subs \subseteq subs'
  PROVE  OwnInv'
<1> USE DEF Inv, registry
<1>0. Entry(p) \in Topics
  BY DEF TypeOK, ProcState, Entry
<1>1. PICK r \in ProcState :
         /\ Becomes(p, r)
         /\ r.pc = "delete" /\ r.entry = Entry(p) /\ r.seen = {Entry(p)}
         /\ r.left = [Nothing EXCEPT ![Entry(p)] = parts]
         /\ r.todo = [Nothing EXCEPT ![Entry(p)] = parts]
  BY <1>0, DeleteEntryBecomes
<1>2. /\ \A q \in Procs : Entry(q)' = Entry(q)
      /\ \A q \in Procs \ {p} : Seen(q)' = Seen(q)
      /\ Seen(p)' = {Entry(p)}
  BY <1>1 DEF Becomes, Entry, Seen
<1>3. EntryOwned'
  BY <1>2 DEF EntryOwned
<1>4. SeenOwned'
  BY <1>2 DEF SeenOwned, EntryOwned
<1>5. RoutingOwned' /\ JournalOwned'
  BY DEF RoutingOwned, JournalOwned
<1>6. AskedInv'
  BY <1>1, Sets DEF AskedInv, TypeOK, Becomes
<1>7. UnusedInv'
  BY <1>1, <1>2, Sets DEF UnusedInv, Becomes
<1>8. NoTopicForgotten'
  BY <1>2 DEF NoTopicForgotten, Held, Referenced, Entry
<1>9. LocalInv(p)'
  BY <1>0, <1>1 DEF Becomes, LocalInv, Entry, Seen, Left, Todo, Nothing
<1> QED
  BY <1>1, <1>3, <1>4, <1>5, <1>6, <1>7, <1>8, <1>9, OthersLocal DEF OwnInv

\* p ends, and what it held is lost.
LEMMA LosesInv ==
  ASSUME Inv, NEW p \in Procs, Ends(p), Loses(p), UNCHANGED <<oci, registry>>
  PROVE  OwnInv'
<1> USE DEF Inv, registry, oci
<1>1. Becomes(p, Fresh(IF p \in Adders THEN "ended" ELSE "idle"))
  BY EndsBecomes
<1>2. /\ \A q \in Procs \ {p} : Entry(q)' = Entry(q) /\ Seen(q)' = Seen(q)
      /\ Entry(p)' = None /\ Seen(p)' = {}
      /\ p \in Adders => proc'[p].pc = "ended"
  BY <1>1 DEF Becomes, Entry, Seen, Fresh
<1>3. lost' = lost \cup ({Entry(p)} \ {None}) /\ Entry(p) \in Topics \cup {None}
  BY DEF Loses, Entry, TypeOK, ProcState
<1>4. EntryOwned'
  BY <1>2, <1>3 DEF EntryOwned
<1>5. SeenOwned'
  BY <1>2, <1>3 DEF SeenOwned, EntryOwned
<1>6. RoutingOwned' /\ JournalOwned'
  BY <1>3 DEF RoutingOwned, JournalOwned, EntryOwned
<1>7. AskedInv'
  BY <1>1, <1>3, Sets DEF AskedInv, TypeOK, Becomes, LocalInv
<1>8. UnusedInv'
  BY <1>1, <1>2, <1>3, Sets DEF UnusedInv, Becomes, TypeOK
<1>9. NoTopicForgotten'
  BY <1>2, <1>3 DEF NoTopicForgotten, Held, Referenced, Entry
<1>10. LocalInv(p)'
  BY <1>1, FreshLocal
<1> QED
  BY <1>1, <1>4, <1>5, <1>6, <1>7, <1>8, <1>9, <1>10, OthersLocal, FreshType DEF OwnInv, PCs

\* p ends, and what it held is routed.
LEMMA RoutesInv ==
  ASSUME Inv, NEW p \in Procs, NEW u \in Users, Ends(p),
         Entry(p) \in subs, proc[p].pc # "recover", routing[u] = None,
         routing' = [routing EXCEPT ![u] = Entry(p)],
         UNCHANGED <<oci, journal, lost>>
  PROVE  OwnInv'
<1> USE DEF Inv, oci
<1>1. Becomes(p, Fresh(IF p \in Adders THEN "ended" ELSE "idle"))
  BY EndsBecomes
<1>2. /\ \A q \in Procs \ {p} : Entry(q)' = Entry(q) /\ Seen(q)' = Seen(q)
      /\ Entry(p)' = None /\ Seen(p)' = {}
      /\ p \in Adders => proc'[p].pc = "ended"
  BY <1>1 DEF Becomes, Entry, Seen, Fresh
<1>3. /\ Entry(p) \in Topics /\ Entry(p) # None
      /\ routing'[u] = Entry(p) /\ \A v \in Users \ {u} : routing'[v] = routing[v]
  BY Sets DEF TypeOK
<1>4. EntryOwned'
  BY <1>2, <1>3 DEF EntryOwned
<1>5. SeenOwned'
  BY <1>2, <1>3 DEF SeenOwned, EntryOwned
<1>6. RoutingOwned' /\ JournalOwned'
  BY <1>3 DEF RoutingOwned, JournalOwned, EntryOwned
<1>7. AskedInv'
  BY <1>1, Sets DEF AskedInv, TypeOK, Becomes
<1>8. UnusedInv'
  BY <1>1, <1>2, <1>3, Sets DEF UnusedInv, Becomes
<1>9. NoTopicForgotten'
  <2> SUFFICES ASSUME NEW t \in topics PROVE t \in (Referenced \cup Held \cup lost)'
    BY DEF NoTopicForgotten
  <2>1. CASE t = Entry(p)
    BY <1>3, <2>1 DEF Referenced
  <2>2. CASE t # Entry(p)
    BY <1>2, <1>3, <2>2, Sets DEF NoTopicForgotten, Held, Referenced, Entry, TypeOK
  <2> QED
    BY <2>1, <2>2
<1>10. LocalInv(p)'
  BY <1>1, FreshLocal
<1> QED
  BY <1>1, <1>4, <1>5, <1>6, <1>7, <1>8, <1>9, <1>10, OthersLocal, FreshType DEF OwnInv, PCs

\* p ends, and the identifiers left of its entry are put into the journal.
LEMMA RecordsInv ==
  ASSUME Inv, NEW p \in Procs, p \notin Cleaners, Ends(p), proc[p].pc = "delete",
         journal' = [journal EXCEPT ![Entry(p)] = Left(p)[Entry(p)]],
         UNCHANGED <<oci, routing, lost>>
  PROVE  OwnInv'
<1> USE DEF Inv, oci
<1>1. Becomes(p, Fresh(IF p \in Adders THEN "ended" ELSE "idle"))
  BY EndsBecomes
<1>2. /\ \A q \in Procs \ {p} : Entry(q)' = Entry(q) /\ Seen(q)' = Seen(q)
      /\ Entry(p)' = None /\ Seen(p)' = {}
      /\ p \in Adders => proc'[p].pc = "ended"
  BY <1>1 DEF Becomes, Entry, Seen, Fresh
<1>3. /\ Entry(p) \in Topics /\ Entry(p) # None
      /\ Entry(p) \in topics => "topic" \in Left(p)[Entry(p)]
      /\ journal'[Entry(p)] = Left(p)[Entry(p)]
      /\ \A t \in Topics \ {Entry(p)} : journal'[t] = journal[t]
  <2>1. LocalInv(p) /\ proc[p] \in ProcState
    BY DEF TypeOK
  <2>2. Entry(p) \in Topics /\ Entry(p) # None /\ Seen(p) = {Entry(p)}
    BY <2>1 DEF LocalInv, ProcState, Entry
  <2> QED
    BY <2>1, <2>2 DEF LocalInv, TypeOK
<1>4. EntryOwned'
  <2>1. \A q \in Procs : Entry(q) \in Topics \cup {None}
    BY DEF TypeOK, ProcState, Entry
  <2> QED
    BY <1>2, <1>3, <2>1 DEF EntryOwned
<1>5. SeenOwned'
  BY <1>2 DEF SeenOwned
<1>6. RoutingOwned' /\ JournalOwned'
  BY <1>3 DEF RoutingOwned, JournalOwned, EntryOwned, TypeOK
<1>7. AskedInv'
  BY <1>1, Sets DEF AskedInv, TypeOK, Becomes
<1>8. UnusedInv'
  BY <1>1, <1>2, <1>3, Sets DEF UnusedInv, Becomes
<1>9. NoTopicForgotten'
  <2> SUFFICES ASSUME NEW t \in topics PROVE t \in (Referenced \cup Held \cup lost)'
    BY DEF NoTopicForgotten
  <2>0. t \in Topics
    BY DEF TypeOK
  <2>1. CASE t = Entry(p)
    BY <1>3, <2>1 DEF Referenced
  <2>2. CASE t # Entry(p)
    BY <1>2, <1>3, <2>0, <2>2 DEF NoTopicForgotten, Held, Referenced, Entry
  <2> QED
    BY <2>1, <2>2
<1>10. LocalInv(p)'
  BY <1>1, FreshLocal
<1> QED
  BY <1>1, <1>4, <1>5, <1>6, <1>7, <1>8, <1>9, <1>10, OthersLocal, FreshType DEF OwnInv, PCs

-----------------------------------------------------------------------------
(* cluster user add *)

\* user add starts.
LEMMA StartAddInv ==
  ASSUME Inv, NEW p \in Adders, NEW u \in Users, StartAdd(p, u) PROVE Inv'
<1> USE Sets DEF StartAdd, At, oci, registry
<1>0. proc[p] \in ProcState /\ LocalInv(p) /\ TypeOK
  BY DEF Inv, TypeOK
<1>1. CASE Ends(p)
  <2>1. TypeOK'
    BY <1>0, <1>1, EndsBecomes DEF TypeOK, Becomes
  <2>2. Loses(p)
    BY <1>0 DEF Loses, LocalInv, Entry
  <2> QED
    BY <1>1, <2>1, <2>2, LosesInv DEF OwnInv, Inv
<1>2. CASE proc' = [proc EXCEPT ![p].pc = "topic", ![p].user = u]
  <2> DEFINE r == [proc[p] EXCEPT !.pc = "topic", !.user = u]
  <2>1. r \in ProcState
    BY <1>0 DEF ProcState, PCs
  <2>2. Becomes(p, r)
    <3>1. proc' = [proc EXCEPT ![p] = r]
      BY <1>0, <1>2 DEF TypeOK
    <3> QED
      BY <1>0, <2>1, <3>1, Updates
  <2>3. r.pc = "topic" /\ r.user = u /\ Moves(p, r) /\ r.left = Left(p) /\ r.todo = Todo(p)
    BY <1>0, <2>2 DEF Moves, ProcState, Entry, Seen, Left, Todo
  <2>4. TypeOK'
    BY <1>0, <2>2 DEF TypeOK, Becomes
  <2>5. LocalInv(p)'
    BY <1>0, <2>3 DEF LocalInv, Moves, Becomes, Entry, Seen, Left, Todo
  <2> QED
    BY <2>1, <2>3, <2>4, <2>5, MovesInv DEF OwnInv, Inv
<1> QED
  BY <1>1, <1>2

\* A step to pc that changes neither topics, registry nor what p holds.
LEMMA GotoInv ==
  ASSUME Inv, NEW p \in Procs \ Cleaners, NEW pc \in PCs, Goto(p, pc),
         UNCHANGED <<topics, asked, registry, lost>>, subs \subseteq subs',
         subs' \subseteq topics, ldap' \subseteq Users, faults' \in 0..MaxFaults,
         proc[p].pc \notin {"idle", "ended", "recover", "delete"},
         pc \in {"ldap", "store", "rollback", "unldap", "restore"},
         pc \in {"ldap", "store", "rollback"} => Entry(p) = p,
         pc \in {"ldap", "store", "unldap", "restore"} /\ Entry(p) # None => Entry(p) \in subs'
  PROVE  Inv'
<1>0. proc[p] \in ProcState /\ LocalInv(p) /\ TypeOK
  BY DEF Inv, TypeOK
<1> DEFINE r == [proc[p] EXCEPT !.pc = pc]
<1>1. r \in ProcState /\ Becomes(p, r)
  BY <1>0, GotoBecomes DEF ProcState
<1>2. /\ r.pc = pc /\ r.user = proc[p].user /\ Moves(p, r)
      /\ r.left = Left(p) /\ r.todo = Todo(p)
  BY <1>0, <1>1 DEF Moves, ProcState, Entry, Seen, Left, Todo
<1>3. TypeOK'
  BY <1>0, <1>1 DEF TypeOK, Becomes, registry
<1>4. LocalInv(p)'
  BY <1>0, <1>2 DEF LocalInv, Moves, Becomes, Entry, Seen, Left, Todo, PCs, ProcState
<1> QED
  BY <1>1, <1>2, <1>3, <1>4, MovesInv DEF OwnInv, Inv

\* After an uncertain creation user add looks for its topic and deletes it.
LEMMA RecoverInv ==
  ASSUME Inv, NEW p \in Adders, Recover(p) PROVE Inv'
<1> USE Sets DEF Recover, At, oci, registry
<1>0. proc[p] \in ProcState /\ LocalInv(p) /\ TypeOK /\ faults' \in 0..MaxFaults
  BY NotificationUsersAssumption DEF Inv, TypeOK, Fails, Works
<1>1. CASE p \in topics /\ DeleteEntry(p, p, {"topic"}) /\ UNCHANGED lost
  <2>1. TypeOK'
    BY <1>0, <1>1, DeleteEntryBecomes DEF TypeOK, Becomes, Parts
  <2>2. Entry(p) = p /\ p \notin asked
    BY <1>0, <1>1 DEF LocalInv, Inv, AskedInv
  <2> QED
    BY <1>1, <2>1, <2>2, BeginsInv DEF OwnInv, Inv, Parts
<1>2. CASE Ends(p) /\ Loses(p)
  <2>1. TypeOK'
    BY <1>0, <1>2, EndsBecomes DEF TypeOK, Becomes, Loses, ProcState
  <2> QED
    BY <1>2, <2>1, LosesInv DEF OwnInv, Inv
<1> QED
  BY <1>1, <1>2

\* user add subscribes the address to the topic it owns.
LEMMA CreateSubscriptionInv ==
  ASSUME Inv, NEW p \in Adders, CreateSubscription(p) PROVE Inv'
<1> USE Sets DEF CreateSubscription, At, registry
<1>0. proc[p] \in ProcState /\ LocalInv(p) /\ TypeOK /\ faults' \in 0..MaxFaults
  BY NotificationUsersAssumption DEF Inv, TypeOK, Fails, Works
<1>1. /\ Entry(p) = p /\ p \in topics
      /\ subs \subseteq subs' /\ subs' \subseteq topics
  BY <1>0 DEF LocalInv, TypeOK
<1>2. CASE subs' = subs \cup {p} /\ Goto(p, "ldap")
  BY <1>0, <1>1, <1>2, GotoInv DEF PCs, TypeOK
<1>3. CASE DeleteEntry(p, p, {"topic"})
  <2>1. TypeOK'
    BY <1>0, <1>1, <1>3, DeleteEntryBecomes DEF TypeOK, Becomes, Parts
  <2> QED
    BY <1>1, <1>3, <2>1, BeginsInv DEF OwnInv, Inv, Parts
<1> QED
  BY <1>2, <1>3

\* user add creates the LDAP user.
LEMMA CreateLdapUserInv ==
  ASSUME Inv, NEW p \in Adders, CreateLdapUser(p) PROVE Inv'
<1> USE Sets DEF CreateLdapUser, At, oci, registry
<1>0. proc[p] \in ProcState /\ LocalInv(p) /\ TypeOK /\ faults' \in 0..MaxFaults
  BY NotificationUsersAssumption DEF Inv, TypeOK, Fails, Works
<1>1. Entry(p) = p /\ p \in subs /\ proc[p].user \in Users /\ ldap' \subseteq Users
  BY <1>0 DEF LocalInv, TypeOK, PCs
<1>2. CASE Goto(p, "store")
  BY <1>0, <1>1, <1>2, GotoInv DEF PCs, TypeOK
<1>3. CASE DeleteEntry(p, p, Parts)
  <2>1. TypeOK'
    BY <1>0, <1>1, <1>3, DeleteEntryBecomes DEF TypeOK, Becomes
  <2> QED
    BY <1>1, <1>3, <2>1, BeginsInv DEF OwnInv, Inv, Parts
<1> QED
  BY <1>2, <1>3

\* user add stores the routing: the topic's owner is now the registry.
LEMMA StoreUserRoutingInv ==
  ASSUME Inv, NEW p \in Adders, StoreUserRouting(p) PROVE Inv'
<1> USE Sets DEF StoreUserRouting, At, oci, registry
<1>0. proc[p] \in ProcState /\ LocalInv(p) /\ TypeOK /\ faults' \in 0..MaxFaults
  BY NotificationUsersAssumption DEF Inv, TypeOK, Fails, Works
<1>1. Entry(p) = p /\ p \in subs /\ proc[p].user \in Users
  BY <1>0 DEF LocalInv, PCs
<1>2. CASE /\ routing[proc[p].user] = None
           /\ routing' = [routing EXCEPT ![proc[p].user] = p]
           /\ Ends(p)
  <2>1. TypeOK'
    BY <1>0, <1>1, <1>2, EndsBecomes DEF TypeOK, Becomes
  <2> QED
    BY <1>1, <1>2, <2>1, RoutesInv DEF OwnInv, Inv
<1>3. CASE Goto(p, "rollback") /\ UNCHANGED routing
  BY <1>0, <1>1, <1>3, GotoInv DEF PCs, TypeOK
<1> QED
  BY <1>2, <1>3

\* user add undoes the LDAP user.
LEMMA RollbackLdapUserInv ==
  ASSUME Inv, NEW p \in Adders, RollbackLdapUser(p) PROVE Inv'
<1> USE Sets DEF RollbackLdapUser, At, oci, registry
<1>0. proc[p] \in ProcState /\ LocalInv(p) /\ TypeOK /\ faults' \in 0..MaxFaults
  BY NotificationUsersAssumption DEF Inv, TypeOK, Fails, Works
<1>1. Entry(p) = p
  BY <1>0 DEF LocalInv
<1>2. TypeOK'
  BY <1>0, DeleteEntryBecomes DEF TypeOK, Becomes
<1> QED
  BY <1>1, <1>2, BeginsInv DEF OwnInv, Inv, Parts

\* user add creates a topic, and owns it.
LEMMA CreateTopicInv ==
  ASSUME Inv, NEW p \in Adders, CreateTopic(p) PROVE Inv'
<1> USE Sets DEF CreateTopic, At, registry
<1>0. proc[p] \in ProcState /\ LocalInv(p) /\ TypeOK /\ faults' \in 0..MaxFaults
  BY NotificationUsersAssumption DEF Inv, TypeOK, Fails, Works
<1>1. CASE Ends(p) /\ UNCHANGED <<topics, asked>>
  <2>1. TypeOK'
    BY <1>0, <1>1, EndsBecomes DEF TypeOK, Becomes
  <2>2. Loses(p)
    BY <1>0 DEF Loses, LocalInv, Entry
  <2> QED
    BY <1>1, <2>1, <2>2, LosesInv DEF OwnInv, Inv, oci
<1>2. ASSUME NEW pc \in {"subscription", "recover"},
             proc' = [proc EXCEPT ![p].pc = pc, ![p].entry = p],
             \/ topics' = topics \cup {p} /\ UNCHANGED asked
             \/ pc = "recover" /\ asked' = asked \cup {p} /\ UNCHANGED topics
      PROVE  Inv'
  <2> DEFINE r == [proc[p] EXCEPT !.pc = pc, !.entry = p]
  <2>1. r \in ProcState
    BY <1>0 DEF ProcState, PCs
  <2>2. Becomes(p, r)
    <3>1. proc' = [proc EXCEPT ![p] = r]
      BY <1>0, <1>2 DEF TypeOK
    <3> QED
      BY <1>0, <2>1, <3>1, Updates
  <2>3. /\ r.pc = pc /\ r.user = proc[p].user /\ r.entry = p
        /\ r.seen = {} /\ r.left = Left(p) /\ r.todo = Todo(p)
    BY <1>0 DEF ProcState, LocalInv, Entry, Seen, Left, Todo
  <2>4. /\ \A q \in Procs \ {p} : Entry(q)' = Entry(q) /\ Seen(q)' = Seen(q)
        /\ Entry(p)' = p /\ Seen(p)' = {} /\ proc'[p].pc = pc
    BY <2>2, <2>3 DEF Becomes, Entry, Seen
  <2>5. /\ p \notin topics \cup asked \cup lost /\ journal[p] = {}
        /\ \A u \in Users : routing[u] # p
        /\ \A q \in Procs : Entry(q) # p /\ p \notin Seen(q)
    BY DEF Inv, UnusedInv
  <2>6. TypeOK'
    BY <1>0, <1>2, <2>2 DEF TypeOK, Becomes
  <2>7. LocalInv(p)'
    BY <1>0, <1>2, <2>2, <2>3 DEF LocalInv, Becomes, Entry, Seen, Left, Todo, PCs
  <2>8. \A q \in Procs : LocalInv(q)'
    BY <1>2, <2>1, <2>2, <2>5, <2>7, OthersLocal
  <2>9. EntryOwned'
    BY <2>4, <2>5 DEF Inv, EntryOwned
  <2>10. SeenOwned' /\ RoutingOwned' /\ JournalOwned'
    BY <2>4 DEF Inv, SeenOwned, RoutingOwned, JournalOwned
  <2>11. AskedInv'
    BY <1>0, <1>2, <2>2, <2>4, <2>5 DEF Inv, AskedInv, Becomes, TypeOK
  <2>12. UnusedInv'
    BY <1>2, <2>2, <2>4 DEF Inv, UnusedInv, Becomes
  <2>13. NoTopicForgotten'
    <3>1. Held' = (Held \ {None}) \cup {p} \/ Held' = Held \cup {p}
      BY <1>0, <2>4 DEF Held, Entry, LocalInv
    <3> QED
      BY <1>0, <1>2, <3>1 DEF Inv, NoTopicForgotten, Referenced, TypeOK
  <2> QED
    BY <2>6, <2>8, <2>9, <2>10, <2>11, <2>12, <2>13 DEF Inv
<1> QED
  BY <1>1, <1>2

\* A topic that OCI creates after the call gave up.
LEMMA CreateTopicLateInv ==
  ASSUME Inv, NEW t \in asked, CreateTopicLate(t) PROVE Inv'
<1> USE Sets DEF CreateTopicLate, registry
<1>1. t \in Adders /\ t \notin topics /\ TypeOK
  BY DEF Inv, TypeOK, AskedInv
<1>2. \A q \in Procs : t \notin Seen(q)
  <2>1. CASE t \in lost
    BY <2>1 DEF Inv, SeenOwned
  <2>2. CASE proc[t].pc = "recover"
    BY <1>1, <2>2 DEF Inv, EntryOwned, LocalInv
  <2> QED
    BY <2>1, <2>2 DEF Inv, AskedInv
<1>3. TypeOK'
  BY <1>1 DEF TypeOK
<1>4. ASSUME NEW q \in Procs PROVE LocalInv(q)'
  BY <1>2 DEF Inv, LocalInv, Entry, Seen, Left, Todo
<1>5. EntryOwned' /\ SeenOwned' /\ RoutingOwned' /\ JournalOwned'
  BY DEF Inv, EntryOwned, SeenOwned, RoutingOwned, JournalOwned, Entry, Seen
<1>6. AskedInv'
  BY DEF Inv, AskedInv
<1>7. UnusedInv'
  BY DEF Inv, UnusedInv, Entry, Seen
<1>8. t \in Held \cup lost
  <2>1. CASE proc[t].pc = "recover"
    BY <1>1, <2>1 DEF Inv, LocalInv, Held, Entry
  <2> QED
    BY <2>1 DEF Inv, AskedInv
<1>9. NoTopicForgotten'
  BY <1>8 DEF Inv, NoTopicForgotten, Held, Referenced
<1> QED
  BY <1>3, <1>4, <1>5, <1>6, <1>7, <1>9 DEF Inv

-----------------------------------------------------------------------------
(* cluster user delete *)

\* user delete starts.
LEMMA StartDeleteInv ==
  ASSUME Inv, NEW p \in Deleters, NEW u \in Users, StartDelete(p, u) PROVE Inv'
<1> USE Sets DEF StartDelete, At, oci, registry
<1>0. proc[p] \in ProcState /\ LocalInv(p) /\ TypeOK
  BY DEF Inv, TypeOK
<1>1. PICK pc \in {"unldap", "remove"} : proc' = [proc EXCEPT ![p].user = u, ![p].pc = pc]
  BY DEF TypeOK
<1> DEFINE r == [proc[p] EXCEPT !.user = u, !.pc = pc]
<1>2. r \in ProcState
  BY <1>0 DEF ProcState, PCs
<1>3. Becomes(p, r)
  <2>1. proc' = [proc EXCEPT ![p] = r]
    BY <1>0, <1>1 DEF TypeOK
  <2> QED
    BY <1>0, <1>2, <2>1, Updates
<1>4. r.pc = pc /\ r.user = u /\ Moves(p, r) /\ r.left = Left(p) /\ r.todo = Todo(p)
  BY <1>0, <1>3 DEF Moves, ProcState, Entry, Seen, Left, Todo
<1>5. TypeOK'
  BY <1>0, <1>3 DEF TypeOK, Becomes
<1>6. LocalInv(p)'
  BY <1>0, <1>4 DEF LocalInv, Moves, Becomes, Entry, Seen, Left, Todo
<1> QED
  BY <1>2, <1>4, <1>5, <1>6, MovesInv DEF OwnInv, Inv

\* user delete takes the routing, and its topic, out of the registry.
LEMMA RemoveUserRoutingInv ==
  ASSUME Inv, NEW p \in Deleters, RemoveUserRouting(p) PROVE Inv'
<1> USE Sets DEF RemoveUserRouting, At, oci, registry
<1>0. /\ proc[p] \in ProcState /\ LocalInv(p) /\ TypeOK /\ faults' \in 0..MaxFaults
      /\ Entry(p) = None /\ proc[p].user \in Users
  BY NotificationUsersAssumption DEF Inv, TypeOK, Fails, Works, LocalInv, PCs
<1> DEFINE u == proc[p].user
<1>1. CASE Ends(p) /\ UNCHANGED routing
  <2>1. TypeOK'
    BY <1>0, <1>1, EndsBecomes DEF TypeOK, Becomes
  <2>2. Loses(p)
    BY <1>0 DEF Loses, Entry
  <2> QED
    BY <1>1, <2>1, <2>2, LosesInv DEF OwnInv, Inv
<1>2. CASE /\ routing' = [routing EXCEPT ![u] = None]
           /\ proc' = [proc EXCEPT ![p].pc = "sync", ![p].entry = routing[u]]
  <2> DEFINE r == [proc[p] EXCEPT !.pc = "sync", !.entry = routing[u]]
  <2>1. r \in ProcState
    BY <1>0 DEF ProcState, PCs, TypeOK
  <2>2. Becomes(p, r)
    <3>1. proc' = [proc EXCEPT ![p] = r]
      BY <1>0, <1>2 DEF TypeOK
    <3> QED
      BY <1>0, <2>1, <3>1, Updates
  <2>3. /\ r.pc = "sync" /\ r.user = u /\ r.entry = routing[u]
        /\ r.seen = {} /\ r.left = Left(p) /\ r.todo = Todo(p)
    BY <1>0 DEF ProcState, LocalInv, Entry, Seen, Left, Todo
  <2>4. /\ \A q \in Procs \ {p} : Entry(q)' = Entry(q) /\ Seen(q)' = Seen(q)
        /\ Entry(p)' = routing[u] /\ Seen(p)' = {}
        /\ \A v \in Users \ {u} : routing'[v] = routing[v]
        /\ routing'[u] = None
    BY <1>0, <1>2, <2>2, <2>3 DEF Becomes, Entry, Seen, TypeOK
  <2>5. TypeOK'
    BY <1>0, <1>2, <2>2 DEF TypeOK, Becomes
  <2>6. LocalInv(p)'
    BY <1>0, <2>2, <2>3 DEF Inv, RoutingOwned, LocalInv, Becomes, Entry, Seen, Left, Todo, PCs
  <2>7. \A q \in Procs : LocalInv(q)'
    BY <2>1, <2>2, <2>6, OthersLocal
  <2>8. EntryOwned'
    BY <1>0, <2>4 DEF Inv, EntryOwned, RoutingOwned, SeenOwned
  <2>9. SeenOwned'
    <3>1. \A q \in Procs : \A t \in Seen(q)' : t \in Seen(q) /\ t \in Topics
      BY <1>0, <2>4 DEF TypeOK, ProcState, Seen
    <3> QED
      BY <2>4, <3>1 DEF Inv, SeenOwned
  <2>10. RoutingOwned' /\ JournalOwned'
    BY <2>4 DEF Inv, RoutingOwned, JournalOwned
  <2>11. AskedInv'
    BY <1>0, <2>2 DEF Inv, AskedInv, Becomes, TypeOK
  <2>12. UnusedInv'
    BY <1>0, <2>2, <2>4 DEF Inv, UnusedInv, Becomes
  <2>13. NoTopicForgotten'
    BY <1>0, <2>4 DEF Inv, NoTopicForgotten, Referenced, Held, Entry, TypeOK
  <2> QED
    BY <2>5, <2>7, <2>8, <2>9, <2>10, <2>11, <2>12, <2>13 DEF Inv
<1> QED
  BY <1>1, <1>2

\* The backup is synchronised, or is not.
LEMMA SyncBackupRegistryInv ==
  ASSUME Inv, NEW p \in Deleters, SyncBackupRegistry(p) PROVE Inv'
<1> USE Sets DEF SyncBackupRegistry, At, oci, registry
<1>0. proc[p] \in ProcState /\ LocalInv(p) /\ TypeOK /\ faults' \in 0..MaxFaults
  BY NotificationUsersAssumption DEF Inv, TypeOK, Fails, Works
<1>1. PICK pc \in {"unldap", "restore"} : Goto(p, pc)
  OBVIOUS
<1>2. Entry(p) # None => Entry(p) \in subs
  BY <1>0 DEF LocalInv
<1> QED
  BY <1>0, <1>1, <1>2, GotoInv DEF PCs, TypeOK

\* user delete deletes the LDAP user.
LEMMA DeleteLdapUserInv ==
  ASSUME Inv, NEW p \in Deleters, DeleteLdapUser(p) PROVE Inv'
<1> USE Sets DEF DeleteLdapUser, At, oci, registry
<1>0. proc[p] \in ProcState /\ LocalInv(p) /\ TypeOK /\ faults' \in 0..MaxFaults
  BY NotificationUsersAssumption DEF Inv, TypeOK, Fails, Works
<1>1. /\ Entry(p) # None => Entry(p) \in subs
      /\ Entry(p) \in Topics \cup {None}
      /\ ldap' \subseteq Users
  BY <1>0 DEF LocalInv, TypeOK, ProcState, Entry
<1>2. CASE Entry(p) # None /\ DeleteEntry(p, Entry(p), Parts)
  <2>1. TypeOK'
    BY <1>0, <1>1, <1>2, DeleteEntryBecomes DEF TypeOK, Becomes
  <2> QED
    BY <1>1, <1>2, <2>1, BeginsInv DEF OwnInv, Inv, Parts
<1>3. CASE Entry(p) = None /\ Ends(p)
  <2>1. TypeOK'
    BY <1>0, <1>1, <1>3, EndsBecomes DEF TypeOK, Becomes
  <2>2. Loses(p)
    BY <1>3 DEF Loses, Entry
  <2> QED
    BY <1>3, <2>1, <2>2, LosesInv DEF OwnInv, Inv
<1>4. CASE Goto(p, "restore")
  BY <1>0, <1>1, <1>4, GotoInv DEF PCs, TypeOK
<1> QED
  BY <1>2, <1>3, <1>4 DEF Entry

\* user delete puts the routing back: the registry owns the topic again.
LEMMA RestoreUserRoutingInv ==
  ASSUME Inv, NEW p \in Deleters, RestoreUserRouting(p) PROVE Inv'
<1> USE Sets DEF RestoreUserRouting, At, oci, registry
<1>0. proc[p] \in ProcState /\ LocalInv(p) /\ TypeOK /\ faults' \in 0..MaxFaults
  BY NotificationUsersAssumption DEF Inv, TypeOK, Fails, Works
<1>1. /\ proc[p].user \in Users /\ Entry(p) \in Topics \cup {None}
      /\ Entry(p) # None => Entry(p) \in subs
  BY <1>0 DEF LocalInv, PCs, ProcState, Entry
<1>2. CASE Loses(p) /\ UNCHANGED routing
  <2>1. TypeOK'
    BY <1>0, <1>1, <1>2, EndsBecomes DEF TypeOK, Becomes, Loses, Entry
  <2> QED
    BY <1>2, <2>1, LosesInv DEF OwnInv, Inv
<1>3. CASE Entry(p) = None /\ UNCHANGED <<routing, lost>>
  BY <1>2, <1>3 DEF Loses, Entry
<1>4. CASE /\ Entry(p) # None /\ routing[proc[p].user] = None /\ UNCHANGED lost
           /\ routing' = [routing EXCEPT ![proc[p].user] = Entry(p)]
  <2>1. TypeOK'
    BY <1>0, <1>1, <1>4, EndsBecomes DEF TypeOK, Becomes
  <2> QED
    BY <1>1, <1>4, <2>1, RoutesInv DEF OwnInv, Inv
<1> QED
  BY <1>2, <1>3, <1>4 DEF Entry

-----------------------------------------------------------------------------
(* Deletion of resources and the journal *)

\* What a command still owns goes to the journal.
LEMMA RecordPendingCleanupInv ==
  ASSUME Inv, NEW p \in Procs \ Cleaners, RecordPendingCleanup(p) PROVE Inv'
<1> USE Sets DEF RecordPendingCleanup, HasTried, At, oci, registry
<1>0. proc[p] \in ProcState /\ LocalInv(p) /\ TypeOK /\ faults' \in 0..MaxFaults
  BY NotificationUsersAssumption DEF Inv, TypeOK, Fails, Works
<1>1. /\ Entry(p) \in Topics /\ journal[Entry(p)] = {}
      /\ Left(p)[Entry(p)] \in SUBSET Parts
  BY <1>0 DEF Inv, EntryOwned, LocalInv, ProcState, Entry, Left
<1>2. CASE Loses(p) /\ UNCHANGED journal
  <2>1. TypeOK'
    BY <1>0, <1>1, <1>2, EndsBecomes DEF TypeOK, Becomes, Loses, Entry
  <2> QED
    BY <1>2, <2>1, LosesInv DEF OwnInv, Inv
<1>3. CASE journal' = [journal EXCEPT ![Entry(p)] = Left(p)[Entry(p)]] /\ UNCHANGED lost
  <2>1. TypeOK'
    BY <1>0, <1>1, <1>3, EndsBecomes DEF TypeOK, Becomes
  <2> QED
    BY <1>3, <2>1, RecordsInv DEF OwnInv, Inv
<1>4. CASE Left(p)[Entry(p)] = {} /\ UNCHANGED <<journal, lost>>
  BY <1>0, <1>1, <1>3, <1>4 DEF TypeOK
<1> QED
  BY <1>2, <1>3, <1>4 DEF Entry, Left

\* A subscription or a topic is deleted.
LEMMA DeleteResourceInv ==
  ASSUME Inv, NEW p \in Procs, NEW t \in Topics, NEW part \in Parts,
         DeleteResource(p, t, part)
  PROVE  Inv'
<1> USE Sets DEF DeleteResource, Tries, At, registry
<1>0. proc[p] \in ProcState /\ LocalInv(p) /\ TypeOK /\ faults' \in 0..MaxFaults
  BY NotificationUsersAssumption DEF Inv, TypeOK, Fails, Works
<1>1. t \in Seen(p) /\ proc[p].pc = "delete"
  BY <1>0 DEF LocalInv, Todo
<1>2. /\ topics' \subseteq topics /\ subs' \subseteq subs
      /\ topics \ {t} \subseteq topics' /\ subs \ {t} \subseteq subs'
      /\ subs' \subseteq topics' /\ UNCHANGED <<asked, registry, lost, ldap>>
  BY <1>0 DEF OciDelete, TypeOK
<1>3. PICK r \in ProcState :
         /\ Becomes(p, r)
         /\ r.pc = "delete" /\ r.entry = Entry(p) /\ r.seen = Seen(p)
         /\ \A x \in Topics : r.todo[x] \subseteq Todo(p)[x] /\ r.left[x] \subseteq Left(p)[x]
         /\ \A x \in topics' : "topic" \in Left(p)[x] => "topic" \in r.left[x]
  <2> DEFINE todo == [proc[p].todo EXCEPT ![t] = @ \ {part}]
             left == [proc[p].left EXCEPT ![t] = @ \ {part}]
  <2>0. todo \in [Topics -> SUBSET Parts] /\ left \in [Topics -> SUBSET Parts]
    BY <1>0 DEF ProcState
  <2>1. CASE OciDelete(t, part) /\ proc' = [proc EXCEPT ![p].todo[t] = @ \ {part},
                                                        ![p].left[t] = @ \ {part}]
    <3> DEFINE r == [proc[p] EXCEPT !.todo = todo, !.left = left]
    <3>1. /\ r \in ProcState /\ r.pc = "delete" /\ r.entry = Entry(p) /\ r.seen = Seen(p)
          /\ r.todo = todo /\ r.left = left
      BY <1>0, <2>0 DEF ProcState, Entry, Seen
    <3>2. proc' = [proc EXCEPT ![p] = r]
      BY <1>0, <2>1 DEF TypeOK, ProcState
    <3>3. Becomes(p, r)
      BY <1>0, <3>1, <3>2, Updates
    <3>4. \A x \in Topics : todo[x] \subseteq Todo(p)[x] /\ left[x] \subseteq Left(p)[x]
      BY <1>0 DEF ProcState, Todo, Left
    <3>5. \A x \in topics' : "topic" \in Left(p)[x] => "topic" \in left[x]
      BY <1>0, <1>2, <2>1 DEF ProcState, Left, OciDelete, TypeOK
    <3> QED
      BY <3>1, <3>3, <3>4, <3>5
  <2>2. CASE proc' = [proc EXCEPT ![p].todo[t] = @ \ {part}]
    <3> DEFINE r == [proc[p] EXCEPT !.todo = todo]
    <3>1. /\ r \in ProcState /\ r.pc = "delete" /\ r.entry = Entry(p) /\ r.seen = Seen(p)
          /\ r.todo = todo /\ r.left = Left(p)
      BY <1>0, <2>0 DEF ProcState, Entry, Seen, Left
    <3>2. proc' = [proc EXCEPT ![p] = r]
      BY <1>0, <2>2 DEF TypeOK, ProcState
    <3>3. Becomes(p, r)
      BY <1>0, <3>1, <3>2, Updates
    <3>4. \A x \in Topics : todo[x] \subseteq Todo(p)[x]
      BY <1>0 DEF ProcState, Todo
    <3> QED
      BY <3>1, <3>3, <3>4
  <2> QED
    BY <2>1, <2>2
<1>4. \A q \in Procs : Entry(q)' = Entry(q) /\ Seen(q)' = Seen(q)
  BY <1>3 DEF Becomes, Entry, Seen
<1>5. TypeOK'
  BY <1>0, <1>2, <1>3 DEF TypeOK, Becomes
<1>6. LocalInv(p)'
  <2>1. \A x \in Seen(p) \cap topics' : "topic" \in r.left[x]
    BY <1>0, <1>2, <1>3 DEF LocalInv
  <2> QED
    BY <1>0, <1>3, <2>1 DEF LocalInv, Becomes, Entry, Seen, Left, Todo
<1>7. ASSUME NEW q \in Procs \ {p} PROVE LocalInv(q)'
  <2>1. Entry(q) # None => Entry(q) # t
    BY <1>1 DEF Inv, EntryOwned
  <2>2. /\ q \in topics /\ Entry(q) = q => q \in topics'
        /\ Entry(q) \in subs => Entry(q) \in subs'
    BY <1>0, <1>2, <2>1 DEF TypeOK
  <2> QED
    BY <1>2, <1>3, <2>2, OthersLocal
<1>8. EntryOwned' /\ SeenOwned'
  BY <1>2, <1>4 DEF Inv, EntryOwned, SeenOwned
<1>9. RoutingOwned' /\ JournalOwned'
  BY <1>1, <1>2 DEF Inv, RoutingOwned, JournalOwned, SeenOwned
<1>10. AskedInv'
  BY <1>0, <1>1, <1>2, <1>3 DEF Inv, AskedInv, Becomes, TypeOK
<1>11. UnusedInv'
  BY <1>2, <1>3, <1>4 DEF Inv, UnusedInv, Becomes
<1>12. NoTopicForgotten'
  BY <1>2, <1>4 DEF Inv, NoTopicForgotten, Held, Referenced, Entry
<1> QED
  BY <1>5, <1>6, <1>7, <1>8, <1>9, <1>10, <1>11, <1>12 DEF Inv

\* notification cleanup takes entries from the journal.
LEMMA PreparePendingCleanupInv ==
  ASSUME Inv, NEW p \in Cleaners, PreparePendingCleanup(p) PROVE Inv'
<1> USE Sets DEF PreparePendingCleanup, At, oci, registry
<1>0. proc[p] \in ProcState /\ LocalInv(p) /\ TypeOK
  BY DEF Inv, TypeOK
<1> DEFINE r == [proc[p] EXCEPT !.pc = "delete", !.seen = Pending,
                                !.left = journal, !.todo = journal]
<1>1. r \in ProcState
  BY <1>0 DEF ProcState, PCs, TypeOK, Pending
<1>2. Becomes(p, r)
  <2>1. proc' = [proc EXCEPT ![p] = r]
    BY <1>0 DEF TypeOK
  <2> QED
    BY <1>0, <1>1, <2>1, Updates
<1>3. /\ r.pc = "delete" /\ r.entry = None /\ r.seen = Pending
      /\ r.left = journal /\ r.todo = journal
  BY <1>0 DEF ProcState, LocalInv, Entry
<1>4. /\ \A q \in Procs : Entry(q)' = Entry(q)
      /\ \A q \in Procs \ {p} : Seen(q)' = Seen(q)
      /\ Seen(p)' = Pending
  BY <1>0, <1>2, <1>3 DEF Becomes, Entry, Seen, LocalInv
<1>p. \A t : t \in Pending <=> t \in Topics /\ journal[t] # {}
  BY DEF Pending
\* A topic of the journal is in no other books, so its entry names it.
<1>5. ASSUME NEW t \in Pending \cap topics PROVE "topic" \in journal[t]
  <2>1. t \in Topics /\ journal[t] # {}
    BY DEF Pending
  <2>2. t \notin lost /\ (\A u \in Users : routing[u] # t) /\ \A q \in Procs : Entry(q) # t
    BY <2>1 DEF Inv, JournalOwned, RoutingOwned, EntryOwned
  <2> QED
    BY <2>2 DEF Inv, NoTopicForgotten, Referenced, Held, Entry
<1>6. TypeOK'
  BY <1>0, <1>2 DEF TypeOK, Becomes
<1>7. LocalInv(p)'
  BY <1>2, <1>3, <1>5, <1>p DEF LocalInv, Becomes, Entry, Seen, Left, Todo
<1>8. \A q \in Procs : LocalInv(q)'
  BY <1>1, <1>2, <1>7, OthersLocal
<1>9. EntryOwned'
  <2>1. Entry(p) = None
    BY <1>0 DEF LocalInv
  <2> QED
    BY <1>4, <1>p, <2>1 DEF Inv, EntryOwned
<1>10. SeenOwned'
  BY <1>4, <1>p DEF Inv, SeenOwned, JournalOwned, RoutingOwned
<1>11. RoutingOwned' /\ JournalOwned'
  BY DEF Inv, RoutingOwned, JournalOwned
<1>12. AskedInv'
  BY <1>0, <1>2 DEF Inv, AskedInv, Becomes, TypeOK
<1>13. UnusedInv'
  BY <1>2, <1>4, <1>p, NotificationUsersAssumption DEF Inv, UnusedInv, Becomes
<1>14. NoTopicForgotten'
  BY <1>4 DEF Inv, NoTopicForgotten, Held, Referenced, Entry
<1> QED
  BY <1>6, <1>8, <1>9, <1>10, <1>11, <1>12, <1>13, <1>14 DEF Inv

\* notification cleanup gives the journal what it could not delete.
LEMMA CommitPendingCleanupInv ==
  ASSUME Inv, NEW p \in Cleaners, CommitPendingCleanup(p) PROVE Inv'
<1> USE Sets DEF CommitPendingCleanup, HasTried, At, oci
<1>0. proc[p] \in ProcState /\ LocalInv(p) /\ TypeOK /\ faults' \in 0..MaxFaults
  BY NotificationUsersAssumption DEF Inv, TypeOK, Fails, Works
<1>1. Becomes(p, Fresh(IF p \in Adders THEN "ended" ELSE "idle"))
  BY <1>0, EndsBecomes
<1>2. /\ \A q \in Procs \ {p} : Entry(q)' = Entry(q) /\ Seen(q)' = Seen(q)
      /\ Entry(p)' = None /\ Seen(p)' = {} /\ Entry(p) = None
  BY <1>0, <1>1 DEF Becomes, Entry, Seen, Fresh, LocalInv
<1>3. /\ journal' \in [Topics -> SUBSET Parts]
      /\ \A t \in Topics : \/ journal'[t] = journal[t]
                           \/ journal'[t] = Left(p)[t] /\ t \in Seen(p) /\ journal[t] # {}
  BY <1>0 DEF TypeOK, ProcState, Seen, Left, Pending
<1>4. TypeOK'
  BY <1>0, <1>1, <1>3 DEF TypeOK, Becomes
<1>5. \A t \in Topics : journal'[t] # {} => journal[t] # {}
  BY <1>3
<1>6. EntryOwned'
  <2>1. \A q \in Procs : Entry(q) \in Topics \cup {None}
    BY <1>0 DEF TypeOK, ProcState, Entry
  <2> QED
    BY <1>2, <1>5, <2>1 DEF Inv, EntryOwned
<1>7. SeenOwned'
  BY <1>2 DEF Inv, SeenOwned
<1>8. RoutingOwned' /\ JournalOwned'
  BY <1>0, <1>5 DEF Inv, RoutingOwned, JournalOwned, TypeOK
<1>9. AskedInv'
  BY <1>0, <1>1 DEF Inv, AskedInv, Becomes, TypeOK
<1>10. UnusedInv'
  BY <1>1, <1>2, <1>5, NotificationUsersAssumption DEF Inv, UnusedInv, Becomes
<1>11. NoTopicForgotten'
  <2> SUFFICES ASSUME NEW t \in topics PROVE t \in (Referenced \cup Held \cup lost)'
    BY DEF NoTopicForgotten
  <2>0. t \in Topics
    BY <1>0 DEF TypeOK
  <2>1. CASE journal'[t] = journal[t]
    BY <1>2, <2>0, <2>1 DEF Inv, NoTopicForgotten, Held, Referenced, Entry
  <2>2. CASE journal'[t] = Left(p)[t] /\ t \in Seen(p)
    BY <1>0, <2>0, <2>2 DEF LocalInv, Referenced
  <2> QED
    BY <1>3, <2>0, <2>1, <2>2
<1>12. LocalInv(p)'
  BY <1>1, FreshLocal
<1>13. \A q \in Procs : LocalInv(q)'
  BY <1>1, <1>12, OthersLocal, FreshType DEF PCs
<1> QED
  BY <1>4, <1>6, <1>7, <1>8, <1>9, <1>10, <1>11, <1>13 DEF Inv

\* A killed command leaves its topic to nobody, which lost records.
LEMMA KillInv ==
  ASSUME Inv, NEW p \in Procs, Kill(p) PROVE Inv'
<1>1. TypeOK'
  BY NotificationUsersAssumption, EndsBecomes
  DEF Inv, TypeOK, Kill, Fails, Becomes, Loses, ProcState, oci, registry
<1> QED
  BY <1>1, LosesInv DEF Kill, OwnInv, Inv

-----------------------------------------------------------------------------
\* Every step keeps the invariant.
LEMMA NextInv == Inv /\ [Next]_vars => Inv'
<1> SUFFICES ASSUME Inv, [Next]_vars PROVE Inv'
  OBVIOUS
<1>1. ASSUME NEW p \in Adders, Add(p) PROVE Inv'
  BY <1>1, Sets, CreateTopicInv, RecoverInv, CreateSubscriptionInv, CreateLdapUserInv,
     StoreUserRoutingInv, RollbackLdapUserInv, DeleteResourceInv, RecordPendingCleanupInv
  DEF Add, Delete
<1>2. ASSUME NEW p \in Deleters, Remove(p) PROVE Inv'
  BY <1>2, Sets, RemoveUserRoutingInv, SyncBackupRegistryInv, DeleteLdapUserInv,
     RestoreUserRoutingInv, DeleteResourceInv, RecordPendingCleanupInv
  DEF Remove, Delete
<1>3. ASSUME NEW p \in Cleaners, Clean(p) PROVE Inv'
  BY <1>3, Sets, PreparePendingCleanupInv, CommitPendingCleanupInv, DeleteResourceInv
  DEF Clean, Delete
<1>4. CASE UNCHANGED vars
  BY <1>4
  DEF vars, oci, registry, Inv, TypeOK, LocalInv, EntryOwned, SeenOwned, RoutingOwned,
      JournalOwned, AskedInv, UnusedInv, NoTopicForgotten, Entry, Seen, Left, Todo,
      Held, Referenced
<1> QED
  BY <1>1, <1>2, <1>3, <1>4, StartAddInv, StartDeleteInv, CreateTopicLateInv, KillInv
  DEF Next

\* A topic is in one set of books at a time, in every reachable state.
THEOREM Ownership == Spec => []Inv
  BY InitInv, NextInv, PTL DEF Spec

\* Topics, registry, journal and the local state of every command keep their types.
THEOREM TypeCorrect == Spec => []TypeOK
<1>1. Inv => TypeOK
  BY DEF Inv
<1> QED
  BY <1>1, Ownership, PTL

\* A user's routing leads to a topic with its subscription: no add, delete or
\* cleanup, however interleaved, failing or killed, deletes it.
THEOREM RoutedTopicsExistHolds == Spec => []RoutedTopicsExist
<1>1. Inv => RoutedTopicsExist
  BY DEF Inv, RoutingOwned, RoutedTopicsExist
<1> QED
  BY <1>1, Ownership, PTL

\* Every topic is in the registry, in the journal or held by a command that
\* runs, unless a failure that is reported, or a kill, lost it.
THEOREM NoTopicForgottenHolds == Spec => []NoTopicForgotten
<1>1. Inv => NoTopicForgotten
  BY DEF Inv
<1> QED
  BY <1>1, Ownership, PTL

=============================================================================

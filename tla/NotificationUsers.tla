-------------------------- MODULE NotificationUsers --------------------------
(***************************************************************************)
(* The commands cluster user add, cluster user delete and cluster           *)
(* notification cleanup, as they act on OCI topics and subscriptions, on     *)
(* LDAP, on the routing of the registry and on its cleanup journal           *)
(* (config.pending_cleanup).                                                *)
(*                                                                          *)
(* Every invocation is a process, and other processes act between any two   *)
(* of its calls.  A call to OCI, to LDAP or to the registry may fail, an OCI *)
(* or LDAP call also after it took effect, and an invocation may be killed.  *)
(* An update of the registry takes its lock and is one step.  How the        *)
(* registry reaches the backup controller is the matter of BackupSync; here  *)
(* a synchronisation succeeds or fails.                                     *)
(*                                                                          *)
(* Notifications are enabled, users are LDAP users (not opc) and their       *)
(* group exists.  A topic is named for the add that creates it, or, if it is *)
(* older, for its user; its subscription has the same name.                 *)
(***************************************************************************)
EXTENDS Naturals, FiniteSets

CONSTANTS
    Users,       \* user names
    Adders,      \* invocations of user add
    Deleters,    \* operators who run user delete, again and again
    Cleaners,    \* operators who run notification cleanup, again and again
    None,        \* no topic
    MaxFaults    \* bound: failing calls and kills

Procs  == Adders \cup Deleters \cup Cleaners
Topics == Adders \cup Users
Parts  == {"topic", "subscription"}

ASSUME NotificationUsersAssumption ==
    /\ Adders \cap Deleters = {} /\ Adders \cap Cleaners = {}
    /\ Deleters \cap Cleaners = {}
    /\ Users \cap Procs = {}
    /\ None \notin Topics
    /\ MaxFaults \in Nat

VARIABLES
    topics,    \* OCI: topics
    subs,      \* OCI: topics with their EMAIL subscription
    asked,     \* OCI: topics whose creation has timed out and may still happen
    ldap,      \* LDAP users
    routing,   \* registry: user -> topic
    journal,   \* registry: topic -> identifiers of its pending_cleanup entry
    proc,      \* local state of every invocation
    faults,    \* failures so far
    lost       \* history: topics that a failure took out of everybody's books

oci      == <<topics, subs, asked>>
registry == <<routing, journal>>
vars     == <<oci, ldap, registry, proc, faults, lost>>

PCs == {"idle", "ended", "topic", "recover", "subscription", "ldap", "store",
        "rollback", "remove", "sync", "unldap", "restore", "delete"}

\* entry is the routing entry the command holds; a deletion of resources has
\* the entries seen, the identifiers left in them and those still to try.
ProcState == [pc : PCs,
              user : Users \cup {None},
              entry : Topics \cup {None},
              seen : SUBSET Topics,
              left : [Topics -> SUBSET Parts],
              todo : [Topics -> SUBSET Parts]]

Nothing   == [t \in Topics |-> {}]
Fresh(pc) == [pc |-> pc, user |-> None, entry |-> None, seen |-> {},
              left |-> Nothing, todo |-> Nothing]

\* Types: topics, registry, journal and the local variables of the commands.
TypeOK ==
    /\ topics \subseteq Topics
    /\ subs \subseteq topics
    /\ asked \subseteq Adders
    /\ ldap \subseteq Users
    /\ routing \in [Users -> Topics \cup {None}]
    /\ journal \in [Topics -> SUBSET Parts]
    /\ proc \in [Procs -> ProcState]
    /\ faults \in 0..MaxFaults
    /\ lost \subseteq Topics

\* Some users have been added before.
Init ==
    /\ ldap \in SUBSET Users
    /\ topics = ldap /\ subs = ldap /\ asked = {}
    /\ routing = [u \in Users |-> IF u \in ldap THEN u ELSE None]
    /\ journal = Nothing
    /\ proc = [p \in Procs |-> Fresh("idle")]
    /\ faults = 0
    /\ lost = {}

-----------------------------------------------------------------------------
At(p, pc)   == proc[p].pc = pc
Goto(p, pc) == proc' = [proc EXCEPT ![p].pc = pc]
Ends(p)     == proc' = [proc EXCEPT ![p] = Fresh(IF p \in Adders THEN "ended" ELSE "idle")]

Fails == faults < MaxFaults /\ faults' = faults + 1
Works == UNCHANGED faults

Loses(p) == lost' = lost \cup ({proc[p].entry} \ {None})

\* The process begins to delete the given identifiers of its entry t.
DeleteEntry(p, t, parts) ==
    LET ids == [Nothing EXCEPT ![t] = parts] IN
    proc' = [proc EXCEPT ![p].pc = "delete", ![p].entry = t, ![p].seen = {t},
                         ![p].left = ids, ![p].todo = ids]

-----------------------------------------------------------------------------
(* cluster user add *)

StartAdd(p, u) ==
    /\ At(p, "idle")
    /\ \/ routing[u] # None /\ Ends(p)
       \/ routing[u] = None /\ proc' = [proc EXCEPT ![p].pc = "topic", ![p].user = u]
    /\ UNCHANGED <<oci, ldap, registry, faults, lost>>

\* Mutant: a timeout is taken for a success.
CreateTopicBlindly(p) ==
    /\ At(p, "topic")
    /\ \/ /\ Works
          /\ topics' = topics \cup {p}
          /\ UNCHANGED asked
       \/ /\ Fails
          /\ asked' = asked \cup {p}
          /\ UNCHANGED topics
    /\ proc' = [proc EXCEPT ![p].pc = "subscription", ![p].entry = p]
    /\ UNCHANGED <<subs, ldap, registry, lost>>

\* oci ons topic create.  An error ends the command.  After a timeout the topic
\* may exist, or come to exist; with an unreadable answer it exists.
CreateTopic(p) ==
    /\ At(p, "topic")
    /\ \/ /\ Works
          /\ topics' = topics \cup {p}
          /\ proc' = [proc EXCEPT ![p].pc = "subscription", ![p].entry = p]
          /\ UNCHANGED asked
       \/ /\ Fails
          /\ Ends(p)
          /\ UNCHANGED <<topics, asked>>
       \/ /\ Fails
          /\ \/ asked' = asked \cup {p} /\ UNCHANGED topics
             \/ topics' = topics \cup {p} /\ UNCHANGED asked
          /\ proc' = [proc EXCEPT ![p].pc = "recover", ![p].entry = p]
    /\ UNCHANGED <<subs, ldap, registry, lost>>

\* OCI completes a creation whose client has given up.
CreateTopicLate(t) ==
    /\ t \in asked
    /\ topics' = topics \cup {t}
    /\ asked' = asked \ {t}
    /\ UNCHANGED <<subs, ldap, registry, proc, faults, lost>>

Referenced ==
    {routing[u] : u \in Users} \cup {t \in Topics : "topic" \in journal[t]}

\* _find_owned_notification_topic and _cleanup_topic_after_uncertain_creation:
\* the topic that carries this attempt's provision id, if it is listed.
Recover(p) ==
    LET found == p \in topics \ Referenced IN
    /\ At(p, "recover")
    /\ \/ /\ found /\ Works
          /\ DeleteEntry(p, p, {"topic"})
          /\ UNCHANGED lost
       \/ /\ (~found /\ Works) \/ Fails
          /\ Ends(p)
          /\ Loses(p)
    /\ UNCHANGED <<oci, ldap, registry>>

\* oci ons subscription create; an error deletes the topic.
CreateSubscription(p) ==
    /\ At(p, "subscription")
    /\ \/ /\ Works
          /\ subs' = subs \cup {p}
          /\ Goto(p, "ldap")
       \/ /\ Fails
          /\ subs' \in {subs, subs \cup {p}}
          /\ DeleteEntry(p, p, {"topic"})
    /\ UNCHANGED <<topics, asked, ldap, registry, lost>>

\* _create_ldap_user; an error deletes topic and subscription.
CreateLdapUser(p) ==
    LET u == proc[p].user IN
    /\ At(p, "ldap")
    /\ \/ /\ u \notin ldap /\ Works
          /\ ldap' = ldap \cup {u}
          /\ Goto(p, "store")
       \/ /\ \/ u \in ldap /\ Works /\ UNCHANGED ldap
             \/ Fails /\ ldap' \in {ldap, ldap \cup {u}}
          /\ DeleteEntry(p, p, Parts)
    /\ UNCHANGED <<oci, registry, lost>>

\* _store_user_routing, and the synchronisation that ends the command.
StoreUserRouting(p) ==
    LET u == proc[p].user IN
    /\ At(p, "store")
    /\ \/ /\ routing[u] = None /\ Works
          /\ routing' = [routing EXCEPT ![u] = p]
          /\ Ends(p)
       \/ /\ (routing[u] # None /\ Works) \/ Fails
          /\ Goto(p, "rollback")
          /\ UNCHANGED routing
    /\ UNCHANGED <<oci, ldap, journal, lost>>

\* _rollback_ldap_user
RollbackLdapUser(p) ==
    /\ At(p, "rollback")
    /\ \/ Works /\ ldap' = ldap \ {proc[p].user}
       \/ Fails /\ UNCHANGED ldap
    /\ DeleteEntry(p, p, Parts)
    /\ UNCHANGED <<oci, registry, lost>>

-----------------------------------------------------------------------------
(* cluster user delete *)

StartDelete(p, u) ==
    /\ At(p, "idle")
    /\ proc' = [proc EXCEPT ![p].user = u,
                            ![p].pc = IF routing[u] = None THEN "unldap" ELSE "remove"]
    /\ UNCHANGED <<oci, ldap, registry, faults, lost>>

\* _remove_user_routing takes whatever entry there is by now, perhaps none.
RemoveUserRouting(p) ==
    LET u == proc[p].user IN
    /\ At(p, "remove")
    /\ \/ /\ Works
          /\ routing' = [routing EXCEPT ![u] = None]
          /\ proc' = [proc EXCEPT ![p].pc = "sync", ![p].entry = routing[u]]
       \/ Fails /\ Ends(p) /\ UNCHANGED routing
    /\ UNCHANGED <<oci, ldap, journal, lost>>

\* _sync_backup_registry
SyncBackupRegistry(p) ==
    /\ At(p, "sync")
    /\ \/ Works /\ Goto(p, "unldap")
       \/ Fails /\ Goto(p, "restore")
    /\ UNCHANGED <<oci, ldap, registry, lost>>

\* _delete_ldap_user; an error restores the routing.
DeleteLdapUser(p) ==
    LET u == proc[p].user
        e == proc[p].entry IN
    /\ At(p, "unldap")
    /\ \/ /\ u \in ldap /\ Works
          /\ ldap' = ldap \ {u}
          /\ \/ e # None /\ DeleteEntry(p, e, Parts)
             \/ e = None /\ Ends(p)
       \/ /\ \/ u \notin ldap /\ Works /\ UNCHANGED ldap
             \/ Fails /\ ldap' \in {ldap, ldap \ {u}}
          /\ Goto(p, "restore")
    /\ UNCHANGED <<oci, registry, lost>>

\* Mutant: after restoring the routing the command goes on.
RestoreAndGoOn(p) ==
    LET u == proc[p].user
        e == proc[p].entry IN
    /\ At(p, "restore")
    /\ \/ e = None /\ Ends(p) /\ UNCHANGED routing
       \/ /\ e # None /\ routing[u] = None
          /\ routing' = [routing EXCEPT ![u] = e]
          /\ DeleteEntry(p, e, Parts)
    /\ Works
    /\ UNCHANGED <<oci, ldap, journal, lost>>

\* _restore_user_routing, and the synchronisation that ends the command.
RestoreUserRouting(p) ==
    LET u == proc[p].user
        e == proc[p].entry IN
    /\ At(p, "restore")
    /\ \/ /\ e = None /\ Works
          /\ UNCHANGED <<routing, lost>>
       \/ /\ e # None /\ routing[u] = None /\ Works
          /\ routing' = [routing EXCEPT ![u] = e]
          /\ UNCHANGED lost
       \/ /\ e # None
          /\ (routing[u] # None /\ Works) \/ Fails
          /\ Loses(p)
          /\ UNCHANGED routing
    /\ Ends(p)
    /\ UNCHANGED <<oci, ldap, journal>>

-----------------------------------------------------------------------------
(* _delete_notification_resources, shared by all commands *)

\* Deleting a topic deletes its subscriptions.
OciDelete(t, part) ==
    /\ topics' = IF part = "topic" THEN topics \ {t} ELSE topics
    /\ subs' = subs \ {t}

Tries(p, t, part) ==
    /\ At(p, "delete")
    /\ part \in proc[p].todo[t]
    /\ part = "topic" => "subscription" \notin proc[p].todo[t]

\* An identifier is dropped when the call succeeds, or when it does not find
\* the resource and a listing confirms that it is absent.  Any other error
\* keeps it, also when the resource is gone.  Entries are taken in any order.
DeleteResource(p, t, part) ==
    /\ Tries(p, t, part)
    /\ \/ /\ Works
          /\ OciDelete(t, part)
          /\ proc' = [proc EXCEPT ![p].todo[t] = @ \ {part},
                                  ![p].left[t] = @ \ {part}]
       \/ /\ Fails
          /\ OciDelete(t, part) \/ UNCHANGED <<topics, subs>>
          /\ proc' = [proc EXCEPT ![p].todo[t] = @ \ {part}]
    /\ UNCHANGED <<asked, ldap, registry, lost>>

HasTried(p) == At(p, "delete") /\ proc[p].todo = Nothing

\* Mutant: what is left is not recorded.
RecordNothing(p) ==
    /\ HasTried(p)
    /\ Works
    /\ Ends(p)
    /\ UNCHANGED <<oci, ldap, registry, lost>>

\* _record_pending_cleanup, if identifiers are left; the command then ends.
RecordPendingCleanup(p) ==
    LET e == proc[p].entry IN
    /\ HasTried(p)
    /\ \/ /\ proc[p].left[e] = {} /\ Works
          /\ UNCHANGED <<journal, lost>>
       \/ /\ proc[p].left[e] # {} /\ Works
          /\ journal' = [journal EXCEPT ![e] = proc[p].left[e]]
          /\ UNCHANGED lost
       \/ /\ proc[p].left[e] # {} /\ Fails
          /\ Loses(p)
          /\ UNCHANGED journal
    /\ Ends(p)
    /\ UNCHANGED <<oci, ldap, routing>>

-----------------------------------------------------------------------------
(* cluster notification cleanup *)

Pending == {t \in Topics : journal[t] # {}}

\* _prepare_pending_cleanup: a snapshot of the journal.
PreparePendingCleanup(p) ==
    /\ At(p, "idle")
    /\ Pending # {}
    /\ proc' = [proc EXCEPT ![p].pc = "delete", ![p].seen = Pending,
                            ![p].left = journal, ![p].todo = journal]
    /\ UNCHANGED <<oci, ldap, registry, faults, lost>>

\* Mutant: an entry is only ever replaced, never removed.
CommitOnlyReplaces(p) ==
    /\ HasTried(p)
    /\ Works
    /\ journal' = [t \in Topics |-> IF t \in proc[p].seen /\ proc[p].left[t] # {}
                                    THEN proc[p].left[t]
                                    ELSE journal[t]]
    /\ Ends(p)
    /\ UNCHANGED <<oci, ldap, routing, lost>>

\* _commit_pending_cleanup_results: nothing is committed if an entry of the
\* snapshot is no longer there.
CommitPendingCleanup(p) ==
    /\ HasTried(p)
    /\ \/ /\ Works
          /\ journal' = IF proc[p].seen \subseteq Pending
                        THEN [t \in Topics |-> IF t \in proc[p].seen
                                               THEN proc[p].left[t]
                                               ELSE journal[t]]
                        ELSE journal
       \/ Fails /\ UNCHANGED journal
    /\ Ends(p)
    /\ UNCHANGED <<oci, ldap, routing, lost>>

-----------------------------------------------------------------------------
\* A killed command leaves its topic to nobody.
Kill(p) ==
    /\ proc[p].pc \notin {"idle", "ended"}
    /\ Fails
    /\ Ends(p)
    /\ Loses(p)
    /\ UNCHANGED <<oci, ldap, registry>>

Delete(p) == \E t \in Topics, part \in Parts : DeleteResource(p, t, part)

Add(p) ==
    \/ CreateTopic(p) \/ Recover(p) \/ CreateSubscription(p)
    \/ CreateLdapUser(p) \/ StoreUserRouting(p) \/ RollbackLdapUser(p)
    \/ Delete(p) \/ RecordPendingCleanup(p)

Remove(p) ==
    \/ RemoveUserRouting(p) \/ SyncBackupRegistry(p) \/ DeleteLdapUser(p)
    \/ RestoreUserRouting(p) \/ Delete(p) \/ RecordPendingCleanup(p)

Clean(p) == PreparePendingCleanup(p) \/ Delete(p) \/ CommitPendingCleanup(p)

Next ==
    \/ \E p \in Adders : Add(p) \/ \E u \in Users : StartAdd(p, u)
    \/ \E p \in Deleters : Remove(p) \/ \E u \in Users : StartDelete(p, u)
    \/ \E p \in Cleaners : Clean(p)
    \/ \E t \in asked : CreateTopicLate(t)
    \/ \E p \in Procs : Kill(p)

Spec == Init /\ [][Next]_vars

\* A command that runs goes on: every call has a time limit.  An operator runs
\* notification cleanup as long as something is pending.
Fairness ==
    /\ \A p \in Adders : WF_vars(Add(p))
    /\ \A p \in Deleters : WF_vars(Remove(p))
    /\ \A p \in Cleaners : WF_vars(Clean(p))

FairSpec == Spec /\ Fairness

-----------------------------------------------------------------------------
(* Properties *)

\* A user's routing leads to a topic with a subscription, whatever else adds,
\* deletes and cleans up: no command deletes the resources of another.
RoutedTopicsExist ==
    \A u \in Users : routing[u] # None => routing[u] \in subs

Held == {proc[p].entry : p \in Procs}

\* Every topic is in the registry, in the journal or in the hands of a running
\* command, unless a failure that the command reports, or a kill, lost it:
\* cluster notification cleanup can find every topic that is not in use.
NoTopicForgotten == topics \subseteq Referenced \cup Held \cup lost

\* Once the failures are over, cluster notification cleanup empties the journal,
\* also when several operators run it.
JournalEmpties == \A t \in Topics : t \in Pending ~> t \notin Pending

\* add creates the LDAP user, the topic and the routing together, and delete
\* removes them together: when no command runs and none has failed, they agree.
UsersComplete ==
    (faults = 0 /\ \A p \in Procs : proc[p].pc \in {"idle", "ended"}) =>
        \A u \in Users : u \in ldap <=> routing[u] # None

=============================================================================

--------------------------- MODULE DestroyCleanup ---------------------------
(***************************************************************************)
(* The topics of one deployment from `cluster user add' to the Destroy of  *)
(* its stack (slurm_oci_notification_cleanup.py), with the applies before  *)
(* it: Terraform replaces its own topic when the cluster is renamed, the   *)
(* seed (slurm_notification_registry_seed.py) merges the new scope into    *)
(* the registry, and the teardown sentinel is updated last.                *)
(*                                                                         *)
(* A topic carries tags: the deployment it belongs to (absent in topics of *)
(* versions before the tag), managed_by, the scope (cluster_name and       *)
(* cluster_scope_id), whether its cluster tags agree with one another, and *)
(* whether its name is the one cluster-cli derives from scope and user.    *)
(* The last does not hold for Terraform's topic, which is named otherwise. *)
(***************************************************************************)
EXTENDS Naturals, FiniteSets

CONSTANTS CliTopics,        \* ids of topics `cluster user add' may create
          TerraformTopics,  \* ids of Terraform's topic and its replacements
          OtherTopics,      \* topics of other deployments in the compartment
          Scopes,           \* the names this cluster may have
          PollAttempts,     \* POLL_ATTEMPTS
          MaxRenames,       \* applies that rename the cluster
          MaxFaults         \* failing calls, failing applies, edited tags

NoTopic == "no topic"
NoScope == "no scope"
Alien   == "alien"      \* a scope with another random name

ASSUME TopicsAssumption ==
    /\ CliTopics \cap TerraformTopics = {}
    /\ OtherTopics \cap (CliTopics \cup TerraformTopics) = {}
    /\ NoTopic \notin CliTopics \cup TerraformTopics
    /\ {NoScope, Alien} \cap Scopes = {}
    /\ TerraformTopics # {} /\ Scopes # {}
ASSUME BoundsAssumption ==
    /\ PollAttempts \in Nat \ {0}
    /\ MaxRenames \in Nat /\ MaxFaults \in Nat

VARIABLES topic,      \* topic[t]: what OCI holds under the id t
          registry,   \* slurm_notification_users.json on the primary
          config,     \* the arguments in the sentinel, as last applied
          stack,      \* the Terraform job and what its state remembers
          add,        \* a running `cluster user add'
          run,        \* a running destroy cleanup
          lost,       \* history: the registry was lost once
          faults

vars == <<topic, registry, config, stack, add, run, lost, faults>>

Topics == CliTopics \cup TerraformTopics \cup OtherTopics

States == {"unused", "live", "deleting", "gone"}

Topic == [state : States, deployment : {"ours", "other", "none"},
          managedBy : {"cluster-cli", "terraform"},
          scope : Scopes \cup {Alien, NoScope},
          clusterTags : BOOLEAN, named : BOOLEAN]

Idle == [pc |-> "idle", scopes |-> {}, known |-> {}, todo |-> {},
         requested |-> {}, remaining |-> {}, seen |-> {}, attempt |-> 0]

NoAdd == [pc |-> "idle", deployment |-> "none", scope |-> NoScope,
          topic |-> NoTopic]

(* Types: cleanup_topics polls at most POLL_ATTEMPTS times, and the         *)
(* registry knows only topics that user add may have created.              *)
TypeOK ==
    /\ topic \in [Topics -> Topic]
    /\ registry \in [deployment : {"none", "ours", "missing"},
                     scope : Scopes \cup {NoScope}, history : SUBSET Scopes,
                     known : SUBSET CliTopics]
    /\ config \in [scope : Scopes \cup {NoScope},
                   protected : SUBSET TerraformTopics]
    /\ stack \in [apply : {"idle", "topic", "seed", "sentinel"},
                  scope : Scopes, topic : TerraformTopics \cup {NoTopic},
                  renames : 0..MaxRenames, leaving : BOOLEAN,
                  destroyed : BOOLEAN]
    /\ add \in [pc : {"idle", "create", "store"}, deployment : {"ours", "none"},
                scope : Scopes \cup {NoScope}, topic : CliTopics \cup {NoTopic}]
    /\ run \in [pc : {"idle", "list", "delete"}, scopes : SUBSET Scopes,
                known : SUBSET CliTopics, todo : SUBSET Topics,
                requested : SUBSET Topics, remaining : SUBSET Topics,
                seen : SUBSET Topics, attempt : 0..PollAttempts]
    /\ lost \in BOOLEAN /\ faults \in 0..MaxFaults

Fault == faults < MaxFaults /\ faults' = faults + 1

Exists(t) == topic[t].state \in {"live", "deleting"}

SetState(t, s) == topic' = [topic EXCEPT ![t].state = s]

Made(deployment, managedBy, scope, named) ==
    [state |-> "live", deployment |-> deployment, managedBy |-> managedBy,
     scope |-> scope, clusterTags |-> TRUE, named |-> named]

Unused == [Made("none", "cluster-cli", NoScope, FALSE) EXCEPT !.state = "unused"]
Gone   == [Unused EXCEPT !.state = "gone"]

(* A stack of an older version, whose registry knows no deployment and     *)
(* which has no sentinel, or one that this version has applied.  Another   *)
(* deployment's topic may have our scope only under its own tag.           *)
Init ==
    /\ \E d \in {"none", "ours"} :
        LET s == CHOOSE s \in Scopes : TRUE
            t == CHOOSE t \in TerraformTopics : TRUE IN
        /\ stack = [apply |-> "idle", scope |-> s, topic |-> t, renames |-> 0,
                    leaving |-> FALSE, destroyed |-> FALSE]
        /\ registry = [deployment |-> d, scope |-> s, history |-> {},
                       known |-> {}]
        /\ config = IF d = "ours" THEN [scope |-> s, protected |-> {t}]
                    ELSE [scope |-> NoScope, protected |-> {}]
        /\ \E other \in [OtherTopics ->
                {Made("other", "cluster-cli", s, TRUE),
                 Made("none", "cluster-cli", Alien, TRUE)}] :
             topic = [x \in Topics |->
                        CASE x \in OtherTopics -> other[x]
                          [] x = t -> Made(d, "terraform", s, FALSE)
                          [] OTHER -> Unused]
    /\ add = NoAdd /\ run = Idle /\ lost = FALSE /\ faults = 0

---------------------------------------------------------------------------
(* cluster user add, user delete and the people who edit tags.             *)

(* The tags are those of the configuration that the command read: an older *)
(* version, which wrote no deployment, tags without one.  No command is    *)
(* started once Destroy is; one that runs already goes on beside it.       *)
UserAdd ==
    /\ add.pc = "idle" /\ ~stack.leaving
    /\ registry.deployment # "missing"
    /\ \E t \in CliTopics : topic[t].state = "unused"
    /\ add' = [pc |-> "create", deployment |-> registry.deployment,
               scope |-> registry.scope, topic |-> NoTopic]
    /\ UNCHANGED <<topic, registry, config, stack, run, faults, lost>>

CreateTopic(t) ==
    /\ add.pc = "create" /\ topic[t].state = "unused"
    /\ topic' = [topic EXCEPT
                    ![t] = Made(add.deployment, "cluster-cli", add.scope, TRUE)]
    /\ add' = [NoAdd EXCEPT !.pc = "store", !.topic = t]
    /\ UNCHANGED <<registry, config, stack, run, faults, lost>>

(* The command may also fail or be killed: the topic is in no registry.    *)
StoreRouting ==
    /\ add.pc = "store" /\ add' = NoAdd
    /\ \/ /\ registry.deployment # "missing"
          /\ registry' = [registry EXCEPT !.known = @ \cup {add.topic}]
          /\ UNCHANGED faults
       \/ Fault /\ UNCHANGED registry
    /\ UNCHANGED <<topic, config, stack, run, lost>>

(* user delete takes the topic out of the registry first.                  *)
UserDelete(t) ==
    /\ t \in registry.known /\ ~stack.destroyed
    /\ registry' = [registry EXCEPT !.known = @ \ {t}]
    /\ \/ topic[t].state = "live" /\ SetState(t, "deleting") /\ UNCHANGED faults
       \/ topic[t].state # "live" /\ UNCHANGED <<topic, faults>>
       \/ Fault /\ UNCHANGED topic
    /\ UNCHANGED <<config, stack, add, run, lost>>

(* OCI finishes a deletion.                                                *)
FinishDelete(t) ==
    /\ topic[t].state = "deleting" /\ topic' = [topic EXCEPT ![t] = Gone]
    /\ UNCHANGED <<registry, config, stack, add, run, faults, lost>>

(* Tags are mutable; a name and an id are not.                             *)
EditTags(t) ==
    /\ Fault /\ Exists(t) /\ t \notin OtherTopics /\ ~stack.destroyed
    /\ \E new \in {[topic[t] EXCEPT !.deployment = "none"],
                   [topic[t] EXCEPT !.managedBy = "terraform"],
                   [topic[t] EXCEPT !.managedBy = "cluster-cli"],
                   [topic[t] EXCEPT !.clusterTags = FALSE]} :
         topic' = [topic EXCEPT ![t] = new]
    /\ UNCHANGED <<registry, config, stack, add, run, lost>>

(* Once Destroy reports such a topic the operator restores its tags.       *)
RestoreTags(t) ==
    /\ t \in CliTopics /\ Exists(t)
    /\ stack.leaving /\ ~stack.destroyed /\ run.pc = "idle"
    /\ \/ topic[t].managedBy # "cluster-cli" \/ ~topic[t].clusterTags
       \/ lost /\ topic[t].deployment = "none"
    /\ topic' = [topic EXCEPT ![t].deployment = "ours",
                   ![t].managedBy = "cluster-cli", ![t].clusterTags = TRUE]
    /\ UNCHANGED <<registry, config, stack, add, run, faults, lost>>

(* The registry file is lost with the controller's disk.                   *)
LoseRegistry ==
    /\ Fault /\ registry.deployment = "ours" /\ ~stack.destroyed
    /\ lost' = TRUE
    /\ registry' = [deployment |-> "missing", scope |-> NoScope,
                    history |-> {}, known |-> {}]
    /\ UNCHANGED <<topic, config, stack, add, run>>

---------------------------------------------------------------------------
(* terraform apply: the topic, then Ansible with the seed, then the        *)
(* sentinel.  A Terraform job holds the stack: none runs beside a Destroy. *)

Stale == config.protected # {stack.topic} \/ config.scope # stack.scope

StartApply(s) ==
    /\ stack.apply = "idle" /\ run.pc = "idle" /\ ~stack.destroyed
    /\ \/ s = stack.scope /\ (Stale \/ registry.deployment = "missing")
       \/ s # stack.scope /\ stack.renames < MaxRenames /\ ~stack.leaving
    /\ stack' = [stack EXCEPT !.apply = "topic", !.scope = s,
                              !.renames = IF s = stack.scope THEN @ ELSE @ + 1]
    /\ UNCHANGED <<topic, registry, config, add, run, faults, lost>>

(* The name of Terraform's topic depends on the scope, so a new scope      *)
(* replaces it: destroyed first, then created.                             *)
ReplaceTopic ==
    /\ stack.apply = "topic"
    /\ \/ /\ stack.topic # NoTopic /\ topic[stack.topic].scope = stack.scope
          /\ topic' = [topic EXCEPT ![stack.topic].deployment = "ours",
                                    ![stack.topic].managedBy = "terraform",
                                    ![stack.topic].clusterTags = TRUE]
          /\ stack' = [stack EXCEPT !.apply = "seed"]
       \/ /\ stack.topic # NoTopic /\ topic[stack.topic].scope # stack.scope
          /\ topic' = [topic EXCEPT ![stack.topic] = Gone]
          /\ stack' = [stack EXCEPT !.topic = NoTopic]
       \/ /\ stack.topic = NoTopic
          /\ \E t \in TerraformTopics :
               /\ topic[t].state = "unused"
               /\ topic' = [topic EXCEPT
                              ![t] = Made("ours", "terraform", stack.scope, FALSE)]
               /\ stack' = [stack EXCEPT !.topic = t]
    /\ UNCHANGED <<registry, config, add, run, faults, lost>>

(* The seed without its history of scopes.                                 *)
MergedWithoutHistory ==
    [deployment |-> "ours", scope |-> stack.scope, history |-> registry.history,
     known |-> registry.known]

(* What merge_registry writes: the scope it replaces joins the history.    *)
Merged ==
    [deployment |-> "ours", scope |-> stack.scope,
     history |-> IF registry.scope \in {NoScope, stack.scope}
                 THEN registry.history
                 ELSE registry.history \cup {registry.scope},
     known |-> registry.known]

SeedRegistry ==
    /\ stack.apply = "seed"
    /\ registry' = Merged
    /\ stack' = [stack EXCEPT !.apply = "sentinel"]
    /\ UNCHANGED <<topic, config, add, run, faults, lost>>

UpdateSentinel ==
    /\ stack.apply = "sentinel"
    /\ config' = [scope |-> stack.scope, protected |-> {stack.topic}]
    /\ stack' = [stack EXCEPT !.apply = "idle"]
    /\ UNCHANGED <<topic, registry, add, run, faults, lost>>

FailApply ==
    /\ Fault /\ stack.apply # "idle"
    /\ stack' = [stack EXCEPT !.apply = "idle"]
    /\ UNCHANGED <<topic, registry, config, add, run, lost>>

Apply == ReplaceTopic \/ SeedRegistry \/ UpdateSentinel

---------------------------------------------------------------------------
(* slurm_oci_notification_cleanup.py, run when the sentinel is destroyed.  *)

(* Without a registry only the scope of the sentinel is known.             *)
LoadCleanupMetadata ==
    IF registry.deployment = "missing"
    THEN [Idle EXCEPT !.pc = "list", !.scopes = {config.scope}]
    ELSE [Idle EXCEPT !.pc = "list", !.known = registry.known \ config.protected,
              !.scopes = {config.scope, registry.scope} \cup registry.history]

StartDestroy ==
    /\ config.scope # NoScope /\ ~stack.destroyed
    /\ stack.apply = "idle" /\ run.pc = "idle"
    /\ registry.deployment \in {"ours", "missing"}
    /\ run' = LoadCleanupMetadata
    /\ stack' = [stack EXCEPT !.leaving = TRUE]
    /\ UNCHANGED <<topic, registry, config, add, faults, lost>>

(* Ownership by the tags alone, the protected ids not taken out.           *)
ClaimedByTags(t) ==
    \/ topic[t].deployment = "ours"
    \/ /\ topic[t].deployment = "none"
       /\ topic[t].managedBy = "cluster-cli" /\ topic[t].clusterTags
       /\ topic[t].scope \in run.scopes

(* Ownership by scope before the deployment's tag is looked at.            *)
ClaimedByScope(t) ==
    /\ t \notin config.protected
    /\ \/ topic[t].deployment = "ours"
       \/ /\ topic[t].managedBy = "cluster-cli" /\ topic[t].clusterTags
          /\ topic[t].scope \in run.scopes

(* Ids Terraform owns are protected whatever their tags say.  The tag of a *)
(* deployment decides; without one, the exact scope of the registry does.  *)
Claimed(t) ==
    /\ t \notin config.protected
    /\ \/ topic[t].deployment = "ours"
       \/ /\ topic[t].deployment = "none"
          /\ topic[t].managedBy = "cluster-cli" /\ topic[t].clusterTags
          /\ topic[t].scope \in run.scopes

(* A claimed topic that cluster-cli did not tag or name so fails the run.  *)
WellFormed(t) ==
    /\ topic[t].managedBy = "cluster-cli" /\ topic[t].clusterTags
    /\ topic[t].scope \in Scopes
    /\ topic[t].named

Listed == {t \in Topics : Exists(t)}

OwnedTopicIds == {t \in Listed : Claimed(t)}

Valid == /\ \A t \in OwnedTopicIds : WellFormed(t)
         /\ run.known \cap Listed \subseteq OwnedTopicIds

Remaining == (run.remaining \cap Listed) \cup OwnedTopicIds

(* A topic of a user that a listing can no longer recognise as ours.       *)
Unrecognisable(t) ==
    /\ topic[t].deployment = "none"
    /\ \/ topic[t].managedBy # "cluster-cli" \/ ~topic[t].clusterTags
       \/ lost /\ topic[t].scope \notin run.scopes

(* History for NothingLeft: the users' topics that a listing recognises or *)
(* the registry names.                                                     *)
Recognised ==
    {t \in Listed \cap CliTopics : t \in run.known \/ ~Unrecognisable(t)}

(* A topic is listed, validated and deleted once; every listing of the     *)
(* poll loop validates again, and takes in topics created since.           *)
ListTopics ==
    /\ run.pc = "list"
    /\ run' = IF Valid
              THEN [run EXCEPT !.pc = "delete", !.seen = @ \cup Recognised,
                      !.todo = {t \in OwnedTopicIds \ run.requested :
                                    topic[t].state = "live"},
                      !.remaining = Remaining]
              ELSE Idle
    /\ UNCHANGED <<topic, registry, config, stack, add, faults, lost>>

(* A topic that is already being deleted or gone by now makes the CLI      *)
(* fail, and the run with it.                                              *)
DeleteTopic(t) ==
    /\ run.pc = "delete" /\ t \in run.todo
    /\ \/ /\ topic[t].state = "live" /\ SetState(t, "deleting")
          /\ run' = [run EXCEPT !.todo = @ \ {t}, !.requested = @ \cup {t}]
       \/ topic[t].state # "live" /\ run' = Idle /\ UNCHANGED topic
    /\ UNCHANGED <<registry, config, stack, add, faults, lost>>

(* The end of a round that polls once more than it should.                 *)
EndRoundLate ==
    /\ run.pc = "delete" /\ run.todo = {}
    /\ \/ /\ run.attempt > 0 /\ run.remaining = {}
          /\ stack' = [stack EXCEPT !.destroyed = TRUE]
          /\ run' = [run EXCEPT !.pc = "idle"]
       \/ /\ run.attempt = 0 \/ run.remaining # {}
          /\ run' = IF run.attempt <= PollAttempts
                    THEN [run EXCEPT !.pc = "list", !.attempt = @ + 1]
                    ELSE Idle
          /\ UNCHANGED stack
    /\ UNCHANGED <<topic, registry, config, add, faults, lost>>

(* The end of a round: absent, one more listing, or a timeout.             *)
EndRound ==
    /\ run.pc = "delete" /\ run.todo = {}
    /\ \/ /\ run.attempt > 0 /\ run.remaining = {}
          /\ stack' = [stack EXCEPT !.destroyed = TRUE]
          /\ run' = [run EXCEPT !.pc = "idle"]
       \/ /\ run.attempt = 0 \/ run.remaining # {}
          /\ run' = IF run.attempt < PollAttempts
                    THEN [run EXCEPT !.pc = "list", !.attempt = @ + 1]
                    ELSE Idle
          /\ UNCHANGED stack
    /\ UNCHANGED <<topic, registry, config, add, faults, lost>>

(* The CLI fails or times out, in a listing or in a deletion, which may    *)
(* have taken effect.                                                      *)
FailRun ==
    /\ Fault /\ run.pc # "idle" /\ run' = Idle
    /\ \/ UNCHANGED topic
       \/ \E t \in run.todo : topic[t].state = "live" /\ SetState(t, "deleting")
    /\ UNCHANGED <<registry, config, stack, add, lost>>

Cleanup == ListTopics \/ (\E t \in Topics : DeleteTopic(t)) \/ EndRound

Next ==
    \/ UserAdd \/ StoreRouting \/ LoseRegistry
    \/ \E t \in CliTopics : CreateTopic(t) \/ UserDelete(t) \/ RestoreTags(t)
    \/ \E t \in Topics : FinishDelete(t) \/ EditTags(t)
    \/ (\E s \in Scopes : StartApply(s)) \/ Apply \/ FailApply
    \/ StartDestroy \/ Cleanup \/ FailRun

Spec == Init /\ [][Next]_vars

Repair == (\E t \in CliTopics : RestoreTags(t)) \/ (\E s \in Scopes : StartApply(s))

(* A started job goes on, OCI finishes what it deletes, and the operator   *)
(* removes the cause of a failure (tags, an unfinished apply) and runs     *)
(* Destroy again.                                                          *)
Fairness ==
    /\ WF_vars(Apply) /\ WF_vars(Cleanup)
    /\ WF_vars(StartDestroy /\ stack.leaving)
    /\ WF_vars(\E t \in Topics : FinishDelete(t))
    /\ SF_vars(Repair)

FairSpec == Spec /\ Fairness

---------------------------------------------------------------------------
(* While a Destroy runs, no topic that `cluster user add' of this          *)
(* deployment did not create changes its state: _owned_topic_ids never     *)
(* offers Terraform's topic or another deployment's for deletion, whatever *)
(* scope they share, however tags were edited and wherever the last apply  *)
(* stopped.                                                                *)
OnlyOwnTopicsDeleted ==
    [][run.pc # "idle" =>
         \A t \in TerraformTopics \cup OtherTopics :
             topic'[t].state = topic[t].state]_vars

(* When Destroy succeeds, cleanup_topics' polling loop has left no topic   *)
(* behind that any of its listings recognised as one of `cluster user add':*)
(* of this or an earlier name of the cluster, registered or not, tagged by *)
(* this version or an older one.  A listing misses only topics without a   *)
(* deployment's tag whose other tags were edited too, or whose scope was   *)
(* lost with the registry, and that no registry names.                     *)
NothingLeft == stack.destroyed => \A t \in run.seen : ~Exists(t)

(* A Destroy that was started succeeds in the end: failed calls,           *)
(* timeouts, topics created or deleted meanwhile and an apply that stopped *)
(* half way delay it, and the protected topic never blocks it.             *)
DestroyCompletes == stack.leaving ~> stack.destroyed
=============================================================================

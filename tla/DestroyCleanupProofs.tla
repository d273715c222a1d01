--------------------------- MODULE DestroyCleanupProofs ---------------------------
(***************************************************************************)
(* A Destroy deletes no topic but those of `cluster user add', and when it *)
(* succeeds it has left none behind that it recognised, for every number   *)
(* of topics, scopes, applies, polls and faults.                           *)
(***************************************************************************)
EXTENDS DestroyCleanup, TLAPS

\* The registry, when it is there, has the scope of some apply; an apply that has
\* reached the seed has a topic, and so has a user add that is about to store it.
ScopeKnown == registry.deployment # "missing" => registry.scope \in Scopes
HasTopic   ==
    /\ stack.apply \in {"seed", "sentinel"} => stack.topic # NoTopic
    /\ add.pc = "store" => add.topic # NoTopic

\* A Terraform job holds the stack.
NoApplyBeside ==
    /\ run.pc # "idle" \/ stack.destroyed => stack.apply = "idle"
    /\ stack.destroyed => run.pc = "idle"

\* What keeps the topics of others out of the list of topics to delete: Terraform
\* names its topics otherwise, and nobody here retags another deployment's.
TerraformUnnamed ==
    \A t \in TerraformTopics : ~topic[t].named /\ topic[t].state # "deleting"
OthersForeign ==
    \A t \in OtherTopics :
        /\ topic[t].state # "deleting"
        /\ \/ topic[t].deployment = "other"
           \/ topic[t].deployment = "none" /\ topic[t].scope = Alien
TodoIsOurs == run.todo \subseteq CliTopics

\* What keeps a topic of a user recognisable while the registry is kept: no other
\* deployment's tag, and a scope that the registry tells of.
Told == {registry.scope} \cup registry.history
CliTagged == \A t \in CliTopics : Exists(t) => topic[t].deployment # "other"
ScopesTold ==
    ~lost =>
        /\ registry.deployment # "missing"
        /\ add.pc = "create" => add.scope \in Told
        /\ \A t \in CliTopics : Exists(t) => topic[t].scope \in Told
        /\ run.pc # "idle" => Told \subseteq run.scopes

\* A recognised topic stays remaining until it is gone.
SeenRemains ==
    /\ run.pc # "idle" \/ stack.destroyed =>
         \A t \in run.seen : topic[t].state # "unused"
    /\ run.pc # "idle" =>
         \A t \in run.seen : Exists(t) => t \in run.remaining

CleanupInv ==
    /\ TypeOK /\ ScopeKnown /\ HasTopic /\ NoApplyBeside
    /\ TerraformUnnamed /\ OthersForeign /\ TodoIsOurs
    /\ CliTagged /\ ScopesTold /\ SeenRemains /\ NothingLeft

-----------------------------------------------------------------------------
(* The initial states and the steps that leave the topics alone *)

\* A new stack, or one of an older version.
LEMMA InitSafe == Init => CleanupInv
  <1> SUFFICES ASSUME Init PROVE CleanupInv
    OBVIOUS
  <1> USE TopicsAssumption, BoundsAssumption
  <1> DEFINE s == CHOOSE s \in Scopes : TRUE
             t == CHOOSE t \in TerraformTopics : TRUE
  <1>1. s \in Scopes /\ t \in TerraformTopics
    OBVIOUS
  <1> HIDE DEF s, t
  <1>2. PICK d \in {"none", "ours"} :
          /\ stack = [apply |-> "idle", scope |-> s, topic |-> t, renames |-> 0,
                      leaving |-> FALSE, destroyed |-> FALSE]
          /\ registry = [deployment |-> d, scope |-> s, history |-> {}, known |-> {}]
          /\ config = IF d = "ours" THEN [scope |-> s, protected |-> {t}]
                      ELSE [scope |-> NoScope, protected |-> {}]
          /\ \E other \in [OtherTopics ->
                  {Made("other", "cluster-cli", s, TRUE),
                   Made("none", "cluster-cli", Alien, TRUE)}] :
               topic = [x \in Topics |->
                          CASE x \in OtherTopics -> other[x]
                            [] x = t -> Made(d, "terraform", s, FALSE)
                            [] OTHER -> Unused]
    BY DEF Init, s, t
  <1>3. PICK other \in [OtherTopics ->
                  {Made("other", "cluster-cli", s, TRUE),
                   Made("none", "cluster-cli", Alien, TRUE)}] :
               topic = [x \in Topics |->
                          CASE x \in OtherTopics -> other[x]
                            [] x = t -> Made(d, "terraform", s, FALSE)
                            [] OTHER -> Unused]
    BY <1>2
  <1>4. add = NoAdd /\ run = Idle /\ lost = FALSE /\ faults = 0
    BY DEF Init
  <1>5. \A x \in CliTopics : topic[x] = Unused
    BY <1>1, <1>3 DEF Topics
  <1>6. \A x \in TerraformTopics :
          topic[x] \in {Unused, Made(d, "terraform", s, FALSE)}
    BY <1>3 DEF Topics
  <1>7. \A x \in OtherTopics :
          topic[x] \in {Made("other", "cluster-cli", s, TRUE),
                        Made("none", "cluster-cli", Alien, TRUE)}
    <2>1. \A x \in OtherTopics : topic[x] = other[x]
      BY <1>1, <1>3 DEF Topics
    <2>2. \A x \in OtherTopics :
            other[x] \in {Made("other", "cluster-cli", s, TRUE),
                          Made("none", "cluster-cli", Alien, TRUE)}
      OBVIOUS
    <2> QED
      BY <2>1, <2>2
  <1>8. TypeOK
    <2>1. topic \in [Topics -> Topic]
      <3>1. Unused \in Topic /\ Made(d, "terraform", s, FALSE) \in Topic
            /\ Made("other", "cluster-cli", s, TRUE) \in Topic
            /\ Made("none", "cluster-cli", Alien, TRUE) \in Topic
        BY <1>1 DEF Unused, Made, Topic, States
      <3>2. \A x \in Topics : topic[x] \in Topic
        BY <1>5, <1>6, <1>7, <3>1 DEF Topics
      <3> QED
        BY <1>3, <3>2
    <2>2. stack \in [apply : {"idle", "topic", "seed", "sentinel"},
                     scope : Scopes, topic : TerraformTopics \cup {NoTopic},
                     renames : 0..MaxRenames, leaving : BOOLEAN,
                     destroyed : BOOLEAN]
      BY <1>1, <1>2
    <2>3. /\ registry \in [deployment : {"none", "ours", "missing"},
                     scope : Scopes \cup {NoScope}, history : SUBSET Scopes,
                     known : SUBSET CliTopics]
          /\ config \in [scope : Scopes \cup {NoScope},
                         protected : SUBSET TerraformTopics]
      BY <1>1, <1>2
    <2>4. /\ add \in [pc : {"idle", "create", "store"}, deployment : {"ours", "none"},
                      scope : Scopes \cup {NoScope}, topic : CliTopics \cup {NoTopic}]
          /\ run \in [pc : {"idle", "list", "delete"}, scopes : SUBSET Scopes,
                known : SUBSET CliTopics, todo : SUBSET Topics,
                requested : SUBSET Topics, remaining : SUBSET Topics,
                seen : SUBSET Topics, attempt : 0..PollAttempts]
      BY <1>4 DEF NoAdd, Idle
    <2>5. lost = FALSE
      BY <1>4
    <2>6. faults \in 0..MaxFaults
      BY <1>4
    <2> QED
      BY <2>1, <2>2, <2>3, <2>4, <2>5, <2>6 DEF TypeOK
  <1>9. ScopeKnown /\ HasTopic /\ NoApplyBeside /\ TodoIsOurs
    BY <1>1, <1>2, <1>4 DEF ScopeKnown, HasTopic, NoApplyBeside, TodoIsOurs, Idle, NoAdd
  <1>10. TerraformUnnamed /\ OthersForeign
    BY <1>6, <1>7 DEF TerraformUnnamed, OthersForeign, Made, Unused
  <1>11. CliTagged /\ ScopesTold
    <2>1. \A x \in CliTopics : ~Exists(x)
      BY <1>5 DEF Exists, Unused, Made
    <2>2. registry.deployment # "missing" /\ add.pc = "idle" /\ run.pc = "idle"
      BY <1>2, <1>4 DEF NoAdd, Idle
    <2> QED
      BY <2>1, <2>2 DEF CliTagged, ScopesTold
  <1>12. SeenRemains /\ NothingLeft
    BY <1>2, <1>4 DEF SeenRemains, NothingLeft, Idle
  <1> QED
    BY <1>8, <1>9, <1>10, <1>11, <1>12 DEF CleanupInv

\* user add reads the configuration.
LEMMA UserAddSafe ==
    ASSUME CleanupInv, UserAdd
    PROVE  CleanupInv'
  <1>1. /\ registry.deployment # "missing"
        /\ add' = [pc |-> "create", deployment |-> registry.deployment,
                   scope |-> registry.scope, topic |-> NoTopic]
        /\ UNCHANGED <<topic, registry, config, stack, run, faults, lost>>
    BY DEF UserAdd
  <1>2. TypeOK'
    BY <1>1 DEF CleanupInv, TypeOK, ScopeKnown
  <1>3. (ScopeKnown /\ HasTopic /\ NoApplyBeside)'
    BY <1>1 DEF CleanupInv, ScopeKnown, HasTopic, NoApplyBeside
  <1>4. (TerraformUnnamed /\ OthersForeign /\ TodoIsOurs)'
    BY <1>1 DEF CleanupInv, TerraformUnnamed, OthersForeign, TodoIsOurs
  <1>5. (CliTagged /\ ScopesTold)'
    BY <1>1 DEF CleanupInv, CliTagged, ScopesTold, Told, Exists
  <1>6. (SeenRemains /\ NothingLeft)'
    BY <1>1 DEF CleanupInv, SeenRemains, NothingLeft, Exists
  <1> QED
    BY <1>2, <1>3, <1>4, <1>5, <1>6 DEF CleanupInv

\* user add stores what it made, or fails.
LEMMA StoreRoutingSafe ==
    ASSUME CleanupInv, StoreRouting
    PROVE  CleanupInv'
  <1>1. /\ add' = NoAdd
        /\ UNCHANGED <<topic, config, stack, run, lost>>
        /\ \/ registry' = registry /\ faults' \in 0..MaxFaults
           \/ /\ registry' = [registry EXCEPT !.known = @ \cup {add.topic}]
              /\ registry.deployment # "missing" /\ faults' = faults
    BY BoundsAssumption DEF StoreRouting, Fault, CleanupInv, TypeOK
  <1>2. /\ registry'.scope = registry.scope /\ registry'.history = registry.history
        /\ registry'.deployment = registry.deployment
    BY <1>1 DEF CleanupInv, TypeOK
  <1>3. add.topic \in CliTopics
    BY DEF StoreRouting, CleanupInv, TypeOK, HasTopic
  <1>4. TypeOK'
    BY <1>1, <1>3 DEF CleanupInv, TypeOK, NoAdd
  <1>5. (ScopeKnown /\ HasTopic /\ NoApplyBeside)'
    BY <1>1, <1>2 DEF CleanupInv, ScopeKnown, HasTopic, NoApplyBeside, NoAdd
  <1>6. (TerraformUnnamed /\ OthersForeign /\ TodoIsOurs)'
    BY <1>1 DEF CleanupInv, TerraformUnnamed, OthersForeign, TodoIsOurs
  <1>7. (CliTagged /\ ScopesTold)'
    BY <1>1, <1>2 DEF CleanupInv, CliTagged, ScopesTold, Told, Exists, NoAdd
  <1>8. (SeenRemains /\ NothingLeft)'
    BY <1>1 DEF CleanupInv, SeenRemains, NothingLeft, Exists
  <1> QED
    BY <1>4, <1>5, <1>6, <1>7, <1>8 DEF CleanupInv

\* The registry's scope stays what a user add or a listing relies on.
LEMMA LoseRegistrySafe ==
    ASSUME CleanupInv, LoseRegistry
    PROVE  CleanupInv'
  <1>1. /\ lost' = TRUE /\ faults' \in 0..MaxFaults
        /\ registry' = [deployment |-> "missing", scope |-> NoScope,
                        history |-> {}, known |-> {}]
        /\ UNCHANGED <<topic, config, stack, add, run>>
    BY BoundsAssumption DEF LoseRegistry, Fault, CleanupInv, TypeOK
  <1>2. TypeOK'
    BY <1>1 DEF CleanupInv, TypeOK
  <1>3. (ScopeKnown /\ HasTopic /\ NoApplyBeside)'
    BY <1>1 DEF CleanupInv, ScopeKnown, HasTopic, NoApplyBeside
  <1>4. (TerraformUnnamed /\ OthersForeign /\ TodoIsOurs)'
    BY <1>1 DEF CleanupInv, TerraformUnnamed, OthersForeign, TodoIsOurs
  <1>5. (CliTagged /\ ScopesTold)'
    BY <1>1 DEF CleanupInv, CliTagged, ScopesTold, Exists
  <1>6. (SeenRemains /\ NothingLeft)'
    BY <1>1 DEF CleanupInv, SeenRemains, NothingLeft, Exists
  <1> QED
    BY <1>2, <1>3, <1>4, <1>5, <1>6 DEF CleanupInv

\* An apply is started, fails, or updates the sentinel.
LEMMA StartApplySafe ==
    ASSUME CleanupInv, NEW s \in Scopes, StartApply(s)
    PROVE  CleanupInv'
  <1>1. /\ run.pc = "idle" /\ ~stack.destroyed
        /\ stack' = [stack EXCEPT !.apply = "topic", !.scope = s,
                       !.renames = IF s = stack.scope THEN @ ELSE @ + 1]
        /\ s # stack.scope => stack.renames < MaxRenames
        /\ UNCHANGED <<topic, registry, config, add, run, faults, lost>>
    BY DEF StartApply
  <1>2. /\ stack'.apply = "topic" /\ stack'.destroyed = stack.destroyed
        /\ stack' \in [apply : {"idle", "topic", "seed", "sentinel"},
                       scope : Scopes, topic : TerraformTopics \cup {NoTopic},
                       renames : 0..MaxRenames, leaving : BOOLEAN,
                       destroyed : BOOLEAN]
    <2> DEFINE n == IF s = stack.scope THEN stack.renames ELSE stack.renames + 1
    <2>1. stack.renames \in 0..MaxRenames /\ MaxRenames \in Nat
      BY BoundsAssumption DEF CleanupInv, TypeOK
    <2>2. n \in 0..MaxRenames
      BY <1>1, <2>1
    <2>3. stack' = [stack EXCEPT !.apply = "topic", !.scope = s, !.renames = n]
      BY <1>1
    <2> HIDE DEF n
    <2> QED
      BY <2>2, <2>3 DEF CleanupInv, TypeOK
  <1>3. TypeOK'
    BY <1>1, <1>2 DEF CleanupInv, TypeOK
  <1>4. (ScopeKnown /\ HasTopic /\ NoApplyBeside)'
    BY <1>1, <1>2 DEF CleanupInv, ScopeKnown, HasTopic, NoApplyBeside
  <1>5. (TerraformUnnamed /\ OthersForeign /\ TodoIsOurs)'
    BY <1>1 DEF CleanupInv, TerraformUnnamed, OthersForeign, TodoIsOurs
  <1>6. (CliTagged /\ ScopesTold)'
    BY <1>1 DEF CleanupInv, CliTagged, ScopesTold, Told, Exists
  <1>7. (SeenRemains /\ NothingLeft)'
    BY <1>1, <1>2 DEF CleanupInv, SeenRemains, NothingLeft, Exists
  <1> QED
    BY <1>3, <1>4, <1>5, <1>6, <1>7 DEF CleanupInv

LEMMA EndApplySafe ==
    ASSUME CleanupInv, UpdateSentinel \/ FailApply
    PROVE  CleanupInv'
  <1>1. /\ stack.apply # "idle" /\ stack' = [stack EXCEPT !.apply = "idle"]
        /\ UNCHANGED <<topic, registry, add, run, lost>>
        /\ faults' \in 0..MaxFaults
        /\ \/ config' = config
           \/ config' = [scope |-> stack.scope, protected |-> {stack.topic}]
              /\ stack.apply = "sentinel"
    BY BoundsAssumption
    DEF UpdateSentinel, FailApply, Fault, CleanupInv, TypeOK
  <1>2. config' \in [scope : Scopes \cup {NoScope},
                     protected : SUBSET TerraformTopics]
    BY <1>1 DEF CleanupInv, TypeOK, HasTopic
  <1>3. /\ stack'.apply = "idle" /\ stack'.destroyed = stack.destroyed
        /\ stack' \in [apply : {"idle", "topic", "seed", "sentinel"},
                       scope : Scopes, topic : TerraformTopics \cup {NoTopic},
                       renames : 0..MaxRenames, leaving : BOOLEAN,
                       destroyed : BOOLEAN]
    BY <1>1 DEF CleanupInv, TypeOK
  <1>4. TypeOK'
    BY <1>1, <1>2, <1>3 DEF CleanupInv, TypeOK
  <1>5. (ScopeKnown /\ HasTopic /\ NoApplyBeside)'
    BY <1>1, <1>3 DEF CleanupInv, ScopeKnown, HasTopic, NoApplyBeside
  <1>6. (TerraformUnnamed /\ OthersForeign /\ TodoIsOurs)'
    BY <1>1 DEF CleanupInv, TerraformUnnamed, OthersForeign, TodoIsOurs
  <1>7. (CliTagged /\ ScopesTold)'
    BY <1>1 DEF CleanupInv, CliTagged, ScopesTold, Told, Exists
  <1>8. (SeenRemains /\ NothingLeft)'
    BY <1>1, <1>3 DEF CleanupInv, SeenRemains, NothingLeft, Exists
  <1> QED
    BY <1>4, <1>5, <1>6, <1>7, <1>8 DEF CleanupInv

\* The seed: what the registry tells of only grows.
LEMMA SeedRegistrySafe ==
    ASSUME CleanupInv, SeedRegistry
    PROVE  CleanupInv'
  <1>1. /\ stack.apply = "seed" /\ registry' = Merged
        /\ stack' = [stack EXCEPT !.apply = "sentinel"]
        /\ UNCHANGED <<topic, config, add, run, faults, lost>>
    BY DEF SeedRegistry
  <1>2. run.pc = "idle" /\ ~stack.destroyed /\ stack.topic # NoTopic
    BY <1>1 DEF CleanupInv, NoApplyBeside, HasTopic
  <1>3. /\ stack'.apply = "sentinel" /\ stack'.destroyed = stack.destroyed
        /\ stack'.topic = stack.topic
        /\ stack' \in [apply : {"idle", "topic", "seed", "sentinel"},
                       scope : Scopes, topic : TerraformTopics \cup {NoTopic},
                       renames : 0..MaxRenames, leaving : BOOLEAN,
                       destroyed : BOOLEAN]
    BY <1>1 DEF CleanupInv, TypeOK
  <1>4. /\ registry'.deployment = "ours" /\ registry'.scope = stack.scope
        /\ registry'.history = IF registry.scope \in {NoScope, stack.scope}
                               THEN registry.history
                               ELSE registry.history \cup {registry.scope}
        /\ registry'.known = registry.known
    BY <1>1 DEF Merged
  <1>5. registry' \in [deployment : {"none", "ours", "missing"},
                     scope : Scopes \cup {NoScope}, history : SUBSET Scopes,
                     known : SUBSET CliTopics]
    BY <1>1 DEF Merged, CleanupInv, TypeOK
  <1>6. ~lost => Told \subseteq Told'
    <2>1. ~lost => registry.scope \in Scopes
      BY DEF CleanupInv, ScopesTold, ScopeKnown
    <2>2. NoScope \notin Scopes
      BY TopicsAssumption
    <2> QED
      BY <1>4, <2>1, <2>2 DEF Told
  <1>7. TypeOK'
    BY <1>1, <1>3, <1>5 DEF CleanupInv, TypeOK
  <1>8. (ScopeKnown /\ HasTopic /\ NoApplyBeside)'
    BY <1>1, <1>2, <1>3, <1>4
    DEF CleanupInv, TypeOK, ScopeKnown, HasTopic, NoApplyBeside
  <1>9. (TerraformUnnamed /\ OthersForeign /\ TodoIsOurs)'
    BY <1>1 DEF CleanupInv, TerraformUnnamed, OthersForeign, TodoIsOurs
  <1>10. (CliTagged /\ ScopesTold)'
    <2>1. ScopesTold'
      <3> SUFFICES ASSUME ~lost PROVE ScopesTold'
        BY <1>1 DEF ScopesTold
      <3>1. add.pc = "create" => add.scope \in Told'
        BY <1>6 DEF CleanupInv, ScopesTold
      <3>2. \A t \in CliTopics : Exists(t) => topic[t].scope \in Told'
        BY <1>6 DEF CleanupInv, ScopesTold
      <3> QED
        BY <1>1, <1>2, <1>4, <3>1, <3>2 DEF ScopesTold, Exists
    <2> QED
      BY <1>1, <2>1 DEF CleanupInv, CliTagged, Exists
  <1>11. (SeenRemains /\ NothingLeft)'
    BY <1>1, <1>2, <1>3 DEF CleanupInv, SeenRemains, NothingLeft, Exists
  <1> QED
    BY <1>7, <1>8, <1>9, <1>10, <1>11 DEF CleanupInv

-----------------------------------------------------------------------------
(* The steps that change a topic *)

\* A step that changes one topic leaves the others alone.
LEMMA OneTopic ==
    ASSUME TypeOK, NEW t \in Topics, NEW new \in Topic,
           topic' = [topic EXCEPT ![t] = new]
    PROVE  /\ topic' \in [Topics -> Topic]
           /\ topic'[t] = new
           /\ \A x \in Topics : x # t => topic'[x] = topic[x]
  BY DEF TypeOK

\* user add creates its topic under an unused id.
LEMMA CreateTopicSafe ==
    ASSUME CleanupInv, NEW t \in CliTopics, CreateTopic(t)
    PROVE  CleanupInv'
  <1> DEFINE new == Made(add.deployment, "cluster-cli", add.scope, TRUE)
  <1>1. /\ add.pc = "create" /\ topic[t].state = "unused"
        /\ topic' = [topic EXCEPT ![t] = new]
        /\ add' = [NoAdd EXCEPT !.pc = "store", !.topic = t]
        /\ UNCHANGED <<registry, config, stack, run, faults, lost>>
    BY DEF CreateTopic
  <1>2. /\ new \in Topic /\ new.state = "live" /\ new.scope = add.scope
        /\ new.deployment \in {"ours", "none"}
    BY DEF Made, Topic, States, CleanupInv, TypeOK
  <1> HIDE DEF new
  <1>3. /\ topic' \in [Topics -> Topic] /\ topic'[t] = new
        /\ \A x \in Topics : x # t => topic'[x] = topic[x]
    BY <1>1, <1>2, OneTopic DEF CleanupInv, Topics
  <1>4. t \notin TerraformTopics /\ t \notin OtherTopics
    BY TopicsAssumption
  <1>5. add'.pc = "store" /\ add'.topic = t
        /\ add' \in [pc : {"idle", "create", "store"}, deployment : {"ours", "none"},
                scope : Scopes \cup {NoScope}, topic : CliTopics \cup {NoTopic}]
    BY <1>1 DEF NoAdd
  <1>6. TypeOK'
    BY <1>1, <1>3, <1>5 DEF CleanupInv, TypeOK
  <1>7. (ScopeKnown /\ HasTopic /\ NoApplyBeside)'
    BY <1>1, <1>5, TopicsAssumption
    DEF CleanupInv, ScopeKnown, HasTopic, NoApplyBeside
  <1>8. (TerraformUnnamed /\ OthersForeign /\ TodoIsOurs)'
    BY <1>1, <1>3, <1>4
    DEF CleanupInv, TerraformUnnamed, OthersForeign, TodoIsOurs, Topics
  <1>9. CliTagged'
    BY <1>2, <1>3 DEF CleanupInv, CliTagged, Exists, Topics
  <1>10. ScopesTold'
    BY <1>1, <1>2, <1>3, <1>5 DEF CleanupInv, ScopesTold, Told, Exists, Topics
  <1>11. (SeenRemains /\ NothingLeft)'
    <2>1. run.seen \subseteq Topics
      BY DEF CleanupInv, TypeOK
    <2>2. run.pc # "idle" \/ stack.destroyed =>
            \A x \in run.seen : topic'[x] = topic[x]
      BY <1>1, <1>3, <2>1 DEF CleanupInv, SeenRemains
    <2> QED
      BY <1>1, <2>2 DEF CleanupInv, SeenRemains, NothingLeft, Exists
  <1> QED
    BY <1>6, <1>7, <1>8, <1>9, <1>10, <1>11 DEF CleanupInv

\* A topic of a user is retagged or being deleted: what its tags say of the
\* deployment and its scope stay.  user delete, the operator, Destroy.
LEMMA UserTopicSafe ==
    ASSUME CleanupInv, NEW t \in CliTopics, NEW new \in Topic,
           topic' = [topic EXCEPT ![t] = new],
           Exists(t), new.state \in {"live", "deleting"},
           new.deployment # "other", new.scope = topic[t].scope,
           UNCHANGED <<config, stack, add, lost>>,
           faults' \in 0..MaxFaults,
           ~stack.destroyed,
           \/ run' = run \/ run' = Idle
           \/ run' = [run EXCEPT !.todo = @ \ {t}, !.requested = @ \cup {t}],
           registry' \in [deployment : {"none", "ours", "missing"},
                     scope : Scopes \cup {NoScope}, history : SUBSET Scopes,
                     known : SUBSET CliTopics],
           registry'.deployment = registry.deployment,
           registry'.scope = registry.scope, registry'.history = registry.history
    PROVE  CleanupInv'
  <1>1. /\ topic' \in [Topics -> Topic] /\ topic'[t] = new
        /\ \A x \in Topics : x # t => topic'[x] = topic[x]
    BY OneTopic DEF CleanupInv, Topics
  <1>2. t \notin TerraformTopics /\ t \notin OtherTopics
    BY TopicsAssumption
  <1>3. /\ run' \in [pc : {"idle", "list", "delete"}, scopes : SUBSET Scopes,
                      known : SUBSET CliTopics, todo : SUBSET Topics,
                      requested : SUBSET Topics, remaining : SUBSET Topics,
                      seen : SUBSET Topics, attempt : 0..PollAttempts]
        /\ run'.todo \subseteq run.todo
        /\ \/ run'.pc = "idle" /\ run'.seen = {}
           \/ /\ run'.pc = run.pc /\ run'.scopes = run.scopes
              /\ run'.seen = run.seen /\ run'.remaining = run.remaining
    <2>1. CASE run' = run
      BY <2>1 DEF CleanupInv, TypeOK
    <2>2. CASE run' = Idle
      BY <2>2, BoundsAssumption DEF Idle
    <2>3. CASE run' = [run EXCEPT !.todo = @ \ {t}, !.requested = @ \cup {t}]
      BY <2>3 DEF CleanupInv, TypeOK, Topics
    <2> QED
      BY <2>1, <2>2, <2>3
  <1>4. TypeOK'
    BY <1>1, <1>3 DEF CleanupInv, TypeOK
  <1>5. (ScopeKnown /\ HasTopic /\ NoApplyBeside)'
    BY <1>3 DEF CleanupInv, ScopeKnown, HasTopic, NoApplyBeside
  <1>6. (TerraformUnnamed /\ OthersForeign /\ TodoIsOurs)'
    BY <1>1, <1>2, <1>3
    DEF CleanupInv, TerraformUnnamed, OthersForeign, TodoIsOurs, Topics
  <1>7. CliTagged'
    BY <1>1 DEF CleanupInv, CliTagged, Exists, Topics
  <1>8. ScopesTold'
    <2>1. run'.pc # "idle" => run.pc # "idle" /\ run'.scopes = run.scopes
      BY <1>3
    <2>2. Told' = Told
      BY DEF Told
    <2> QED
      BY <1>1, <2>1, <2>2 DEF CleanupInv, ScopesTold, Exists, Topics
  <1>9. \A x \in run.seen : /\ Exists(x)' => Exists(x)
                            /\ topic'[x].state = "unused" => topic[x].state = "unused"
    BY <1>1 DEF Exists, CleanupInv, TypeOK
  <1>10. (SeenRemains /\ NothingLeft)'
    <2>1. CASE run'.pc = "idle" /\ run'.seen = {}
      BY <2>1 DEF SeenRemains, NothingLeft
    <2>2. CASE /\ run'.pc = run.pc /\ run'.seen = run.seen
               /\ run'.remaining = run.remaining
      BY <2>2, <1>9 DEF CleanupInv, SeenRemains, NothingLeft
    <2> QED
      BY <1>3, <2>1, <2>2
  <1> QED
    BY <1>4, <1>5, <1>6, <1>7, <1>8, <1>10 DEF CleanupInv

\* user delete takes the topic out of the registry, and perhaps no more.
LEMMA UserDeleteSafe ==
    ASSUME CleanupInv, NEW t \in CliTopics, UserDelete(t)
    PROVE  CleanupInv'
  <1>1. /\ registry' = [registry EXCEPT !.known = @ \ {t}] /\ ~stack.destroyed
        /\ UNCHANGED <<config, stack, add, run, lost>> /\ faults' \in 0..MaxFaults
        /\ \/ topic' = topic
           \/ topic[t].state = "live" /\ topic' = [topic EXCEPT ![t].state = "deleting"]
    BY BoundsAssumption DEF UserDelete, SetState, Fault, CleanupInv, TypeOK
  <1>2. /\ registry'.deployment = registry.deployment
        /\ registry'.scope = registry.scope /\ registry'.history = registry.history
        /\ registry' \in [deployment : {"none", "ours", "missing"},
                     scope : Scopes \cup {NoScope}, history : SUBSET Scopes,
                     known : SUBSET CliTopics]
    BY <1>1 DEF CleanupInv, TypeOK
  <1>3. CASE topic' = topic
    <2>1. TypeOK'
      BY <1>1, <1>2, <1>3 DEF CleanupInv, TypeOK
    <2>2. (ScopeKnown /\ HasTopic /\ NoApplyBeside)'
      BY <1>1, <1>2 DEF CleanupInv, ScopeKnown, HasTopic, NoApplyBeside
    <2>3. (TerraformUnnamed /\ OthersForeign /\ TodoIsOurs)'
      BY <1>1, <1>3 DEF CleanupInv, TerraformUnnamed, OthersForeign, TodoIsOurs
    <2>4. (CliTagged /\ ScopesTold)'
      BY <1>1, <1>2, <1>3 DEF CleanupInv, CliTagged, ScopesTold, Told, Exists
    <2>5. (SeenRemains /\ NothingLeft)'
      BY <1>1, <1>3 DEF CleanupInv, SeenRemains, NothingLeft, Exists
    <2> QED
      BY <2>1, <2>2, <2>3, <2>4, <2>5 DEF CleanupInv
  <1>4. CASE topic[t].state = "live" /\ topic' = [topic EXCEPT ![t].state = "deleting"]
    <2> DEFINE new == [topic[t] EXCEPT !.state = "deleting"]
    <2>1. /\ new \in Topic /\ new.state = "deleting" /\ new.scope = topic[t].scope
          /\ new.deployment = topic[t].deployment
          /\ topic' = [topic EXCEPT ![t] = new]
      BY <1>4 DEF CleanupInv, TypeOK, Topics, Topic, States
    <2>2. Exists(t) /\ new.deployment # "other"
      BY <1>4, <2>1 DEF Exists, CleanupInv, CliTagged
    <2> QED
      BY <1>1, <1>2, <2>1, <2>2, UserTopicSafe
  <1> QED
    BY <1>1, <1>3, <1>4

\* OCI finishes the deletion of a topic of a user, the only ones being deleted.
LEMMA FinishDeleteSafe ==
    ASSUME CleanupInv, NEW t \in Topics, FinishDelete(t)
    PROVE  CleanupInv'
  <1>1. /\ topic[t].state = "deleting" /\ topic' = [topic EXCEPT ![t] = Gone]
        /\ UNCHANGED <<registry, config, stack, add, run, faults, lost>>
    BY DEF FinishDelete
  <1>2. t \in CliTopics /\ t \notin TerraformTopics /\ t \notin OtherTopics
    BY <1>1, TopicsAssumption
    DEF CleanupInv, TerraformUnnamed, OthersForeign, Topics
  <1>3. Gone \in Topic /\ Gone.state = "gone"
    BY DEF Gone, Unused, Made, Topic, States
  <1>4. /\ topic' \in [Topics -> Topic] /\ topic'[t] = Gone
        /\ \A x \in Topics : x # t => topic'[x] = topic[x]
    BY <1>1, <1>3, OneTopic DEF CleanupInv
  <1>5. TypeOK'
    BY <1>1, <1>4 DEF CleanupInv, TypeOK
  <1>6. (ScopeKnown /\ HasTopic /\ NoApplyBeside)'
    BY <1>1 DEF CleanupInv, ScopeKnown, HasTopic, NoApplyBeside
  <1>7. (TerraformUnnamed /\ OthersForeign /\ TodoIsOurs)'
    BY <1>1, <1>2, <1>4
    DEF CleanupInv, TerraformUnnamed, OthersForeign, TodoIsOurs, Topics
  <1>8. \A x \in Topics : /\ Exists(x)' => Exists(x) /\ topic'[x] = topic[x]
                          /\ topic'[x].state = "unused" => topic[x].state = "unused"
    BY <1>3, <1>4 DEF Exists
  <1>9. (CliTagged /\ ScopesTold)'
    BY <1>1, <1>8 DEF CleanupInv, CliTagged, ScopesTold, Told, Topics
  <1>10. (SeenRemains /\ NothingLeft)'
    <2>1. run.seen \subseteq Topics
      BY DEF CleanupInv, TypeOK
    <2> QED
      BY <1>1, <1>8, <2>1 DEF CleanupInv, SeenRemains, NothingLeft
  <1> QED
    BY <1>5, <1>6, <1>7, <1>9, <1>10 DEF CleanupInv

\* Somebody edits the tags of a topic of this deployment, Terraform's included.
LEMMA EditTagsSafe ==
    ASSUME CleanupInv, NEW t \in Topics, EditTags(t)
    PROVE  CleanupInv'
  <1>1. PICK new \in {[topic[t] EXCEPT !.deployment = "none"],
                   [topic[t] EXCEPT !.managedBy = "terraform"],
                   [topic[t] EXCEPT !.managedBy = "cluster-cli"],
                   [topic[t] EXCEPT !.clusterTags = FALSE]} :
          topic' = [topic EXCEPT ![t] = new]
    BY DEF EditTags
  <1>2. /\ Exists(t) /\ t \notin OtherTopics /\ ~stack.destroyed
        /\ faults' \in 0..MaxFaults
        /\ UNCHANGED <<registry, config, stack, add, run, lost>>
    BY BoundsAssumption DEF EditTags, Fault, CleanupInv, TypeOK
  <1>3. topic[t] \in Topic
    BY DEF CleanupInv, TypeOK
  <1>4. /\ new \in Topic /\ new.state = topic[t].state
        /\ new.scope = topic[t].scope /\ new.named = topic[t].named
        /\ new.deployment \in {"none", topic[t].deployment}
    BY <1>3 DEF Topic
  <1>5. CASE t \in CliTopics
    <2>1. new.state \in {"live", "deleting"} /\ new.deployment # "other"
      BY <1>2, <1>4, <1>5 DEF Exists, CleanupInv, CliTagged
    <2>2. registry \in [deployment : {"none", "ours", "missing"},
                     scope : Scopes \cup {NoScope}, history : SUBSET Scopes,
                     known : SUBSET CliTopics]
      BY DEF CleanupInv, TypeOK
    <2> QED
      BY <1>1, <1>2, <1>4, <1>5, <2>1, <2>2, UserTopicSafe
  <1>6. CASE t \in TerraformTopics
    <2>1. /\ topic' \in [Topics -> Topic] /\ topic'[t] = new
          /\ \A x \in Topics : x # t => topic'[x] = topic[x]
      BY <1>1, <1>4, OneTopic DEF CleanupInv
    <2>2. t \notin CliTopics /\ t \notin OtherTopics
      BY <1>6, TopicsAssumption
    <2>3. TypeOK'
      BY <1>2, <2>1 DEF CleanupInv, TypeOK
    <2>4. (ScopeKnown /\ HasTopic /\ NoApplyBeside)'
      BY <1>2 DEF CleanupInv, ScopeKnown, HasTopic, NoApplyBeside
    <2>5. (TerraformUnnamed /\ OthersForeign /\ TodoIsOurs)'
      BY <1>2, <1>4, <2>1, <2>2
      DEF CleanupInv, TerraformUnnamed, OthersForeign, TodoIsOurs, Topics
    <2>6. (CliTagged /\ ScopesTold)'
      BY <1>2, <2>1, <2>2
      DEF CleanupInv, CliTagged, ScopesTold, Told, Topics, Exists
    <2>7. \A x \in Topics : topic'[x].state = topic[x].state
      BY <1>4, <2>1
    <2>8. (SeenRemains /\ NothingLeft)'
      BY <1>2, <2>7 DEF CleanupInv, TypeOK, SeenRemains, NothingLeft, Exists
    <2> QED
      BY <2>3, <2>4, <2>5, <2>6, <2>8 DEF CleanupInv
  <1> QED
    BY <1>2, <1>5, <1>6 DEF Topics

\* The operator restores the tags that Destroy reported.
LEMMA RestoreTagsSafe ==
    ASSUME CleanupInv, NEW t \in CliTopics, RestoreTags(t)
    PROVE  CleanupInv'
  <1> DEFINE new == [topic[t] EXCEPT !.deployment = "ours",
                       !.managedBy = "cluster-cli", !.clusterTags = TRUE]
  <1>1. /\ Exists(t) /\ ~stack.destroyed
        /\ UNCHANGED <<registry, config, stack, add, run, faults, lost>>
    BY DEF RestoreTags
  <1>2. topic' = [topic EXCEPT ![t] = new]
    BY DEF RestoreTags, CleanupInv, TypeOK, Topics, Topic
  <1>3. /\ new \in Topic /\ new.state = topic[t].state
        /\ new.scope = topic[t].scope /\ new.deployment = "ours"
    <2>1. topic[t] \in Topic
      BY DEF CleanupInv, TypeOK, Topics
    <2> QED
      BY <2>1 DEF Topic
  <1> HIDE DEF new
  <1>4. /\ registry \in [deployment : {"none", "ours", "missing"},
                     scope : Scopes \cup {NoScope}, history : SUBSET Scopes,
                     known : SUBSET CliTopics]
        /\ faults \in 0..MaxFaults
    BY DEF CleanupInv, TypeOK
  <1>5. new.state \in {"live", "deleting"}
    BY <1>1, <1>3 DEF Exists
  <1> QED
    BY <1>1, <1>2, <1>3, <1>4, <1>5, UserTopicSafe

\* Terraform tags its topic, destroys it or creates the next one.
LEMMA ReplaceTopicSafe ==
    ASSUME CleanupInv, ReplaceTopic
    PROVE  CleanupInv'
  <1>1. /\ stack.apply = "topic"
        /\ UNCHANGED <<registry, config, add, run, faults, lost>>
    BY DEF ReplaceTopic
  <1>2. run.pc = "idle" /\ ~stack.destroyed
    BY <1>1 DEF CleanupInv, NoApplyBeside
  <1>3. \E t \in TerraformTopics, new \in Topic :
          /\ topic' = [topic EXCEPT ![t] = new]
          /\ ~new.named /\ new.state # "deleting"
          /\ \/ stack' = [stack EXCEPT !.apply = "seed"] /\ stack.topic # NoTopic
             \/ stack' = [stack EXCEPT !.topic = NoTopic]
             \/ stack' = [stack EXCEPT !.topic = t]
    <2>1. CASE /\ stack.topic # NoTopic
               /\ topic' = [topic EXCEPT ![stack.topic].deployment = "ours",
                                    ![stack.topic].managedBy = "terraform",
                                    ![stack.topic].clusterTags = TRUE]
               /\ stack' = [stack EXCEPT !.apply = "seed"]
      <3> DEFINE t == stack.topic
                 new == [topic[t] EXCEPT !.deployment = "ours",
                           !.managedBy = "terraform", !.clusterTags = TRUE]
      <3>1. t \in TerraformTopics /\ t \in Topics /\ topic[t] \in Topic
        BY <2>1 DEF CleanupInv, TypeOK, Topics
      <3>2. ~topic[t].named /\ topic[t].state # "deleting"
        BY <3>1 DEF CleanupInv, TerraformUnnamed
      <3>3. new \in Topic /\ ~new.named /\ new.state # "deleting"
        BY <3>1, <3>2 DEF Topic
      <3>4. topic' = [topic EXCEPT ![t] = new]
        BY <2>1, <3>1 DEF CleanupInv, TypeOK, Topic
      <3> HIDE DEF t, new
      <3> QED
        BY <2>1, <3>1, <3>3, <3>4
    <2>2. CASE /\ stack.topic # NoTopic
               /\ topic' = [topic EXCEPT ![stack.topic] = Gone]
               /\ stack' = [stack EXCEPT !.topic = NoTopic]
      <3>1. stack.topic \in TerraformTopics
        BY <2>2 DEF CleanupInv, TypeOK
      <3>2. Gone \in Topic /\ ~Gone.named /\ Gone.state # "deleting"
        BY DEF Gone, Unused, Made, Topic, States
      <3> QED
        BY <2>2, <3>1, <3>2
    <2>3. CASE \E t \in TerraformTopics :
                 /\ topic' = [topic EXCEPT
                                ![t] = Made("ours", "terraform", stack.scope, FALSE)]
                 /\ stack' = [stack EXCEPT !.topic = t]
      <3> DEFINE new == Made("ours", "terraform", stack.scope, FALSE)
      <3>1. new \in Topic /\ ~new.named /\ new.state # "deleting"
        BY DEF Made, Topic, States, CleanupInv, TypeOK
      <3> HIDE DEF new
      <3> QED
        BY <2>3, <3>1 DEF new
    <2> QED
      BY <2>1, <2>2, <2>3 DEF ReplaceTopic
  <1>4. PICK t \in TerraformTopics, new \in Topic :
          /\ topic' = [topic EXCEPT ![t] = new]
          /\ ~new.named /\ new.state # "deleting"
          /\ \/ stack' = [stack EXCEPT !.apply = "seed"] /\ stack.topic # NoTopic
             \/ stack' = [stack EXCEPT !.topic = NoTopic]
             \/ stack' = [stack EXCEPT !.topic = t]
    BY <1>3
  <1>5. /\ topic' \in [Topics -> Topic] /\ topic'[t] = new
        /\ \A x \in Topics : x # t => topic'[x] = topic[x]
    BY <1>4, OneTopic DEF CleanupInv, Topics
  <1>6. t \notin CliTopics /\ t \notin OtherTopics
    BY TopicsAssumption
  <1>7. /\ stack'.destroyed = stack.destroyed
        /\ stack' \in [apply : {"idle", "topic", "seed", "sentinel"},
                       scope : Scopes, topic : TerraformTopics \cup {NoTopic},
                       renames : 0..MaxRenames, leaving : BOOLEAN,
                       destroyed : BOOLEAN]
        /\ stack'.apply = "topic" \/ stack'.topic # NoTopic
    BY <1>1, <1>4 DEF CleanupInv, TypeOK
  <1>8. TypeOK'
    BY <1>1, <1>5, <1>7 DEF CleanupInv, TypeOK
  <1>9. (ScopeKnown /\ HasTopic /\ NoApplyBeside)'
    BY <1>1, <1>2, <1>7 DEF CleanupInv, ScopeKnown, HasTopic, NoApplyBeside
  <1>10. (TerraformUnnamed /\ OthersForeign /\ TodoIsOurs)'
    BY <1>1, <1>4, <1>5, <1>6
    DEF CleanupInv, TerraformUnnamed, OthersForeign, TodoIsOurs, Topics
  <1>11. (CliTagged /\ ScopesTold)'
    BY <1>1, <1>5, <1>6 DEF CleanupInv, CliTagged, ScopesTold, Told, Topics, Exists
  <1>12. (SeenRemains /\ NothingLeft)'
    BY <1>1, <1>2, <1>7 DEF SeenRemains, NothingLeft
  <1> QED
    BY <1>8, <1>9, <1>10, <1>11, <1>12 DEF CleanupInv

-----------------------------------------------------------------------------
(* The steps of a Destroy *)

\* It reads the registry and the sentinel.
LEMMA StartDestroySafe ==
    ASSUME CleanupInv, StartDestroy
    PROVE  CleanupInv'
  <1>1. /\ config.scope # NoScope /\ ~stack.destroyed /\ stack.apply = "idle"
        /\ run' = LoadCleanupMetadata
        /\ stack' = [stack EXCEPT !.leaving = TRUE]
        /\ UNCHANGED <<topic, registry, config, add, faults, lost>>
    BY DEF StartDestroy
  <1>2. config.scope \in Scopes
    BY <1>1 DEF CleanupInv, TypeOK
  <1>3. /\ run' \in [pc : {"idle", "list", "delete"}, scopes : SUBSET Scopes,
                      known : SUBSET CliTopics, todo : SUBSET Topics,
                      requested : SUBSET Topics, remaining : SUBSET Topics,
                      seen : SUBSET Topics, attempt : 0..PollAttempts]
        /\ run'.todo = {} /\ run'.seen = {} /\ run'.pc # "idle"
        /\ registry.deployment # "missing" => Told \subseteq run'.scopes
    <2> DEFINE Listing(scopes, known) ==
                 [pc |-> "list", scopes |-> scopes, known |-> known, todo |-> {},
                  requested |-> {}, remaining |-> {}, seen |-> {}, attempt |-> 0]
    <2>1. PICK scopes \in SUBSET Scopes, known \in SUBSET CliTopics :
            /\ run' = Listing(scopes, known)
            /\ registry.deployment # "missing" => Told \subseteq scopes
      <3>1. CASE registry.deployment = "missing"
        <4>1. run' = Listing({config.scope}, {})
          BY <1>1, <3>1 DEF LoadCleanupMetadata, Idle
        <4> HIDE DEF Listing
        <4> QED
          BY <1>2, <3>1, <4>1
      <3>2. CASE registry.deployment # "missing"
        <4> DEFINE scopes == {config.scope, registry.scope} \cup registry.history
                   known  == registry.known \ config.protected
        <4>1. scopes \in SUBSET Scopes /\ known \in SUBSET CliTopics
          BY <1>2, <3>2 DEF CleanupInv, TypeOK, ScopeKnown
        <4>2. run' = Listing(scopes, known)
          BY <1>1, <3>2 DEF LoadCleanupMetadata, Idle
        <4>3. Told \subseteq scopes
          BY DEF Told
        <4> HIDE DEF scopes, known, Listing
        <4> QED
          BY <4>1, <4>2, <4>3
      <3> QED
        BY <3>1, <3>2
    <2>2. 0 \in 0..PollAttempts
      BY BoundsAssumption
    <2> QED
      BY <2>1, <2>2
  <1>4. /\ stack'.destroyed = stack.destroyed /\ stack'.apply = stack.apply
        /\ stack'.topic = stack.topic
        /\ stack' \in [apply : {"idle", "topic", "seed", "sentinel"},
                       scope : Scopes, topic : TerraformTopics \cup {NoTopic},
                       renames : 0..MaxRenames, leaving : BOOLEAN,
                       destroyed : BOOLEAN]
    BY <1>1 DEF CleanupInv, TypeOK
  <1>5. TypeOK'
    BY <1>1, <1>3, <1>4 DEF CleanupInv, TypeOK
  <1>6. (ScopeKnown /\ HasTopic /\ NoApplyBeside)'
    BY <1>1, <1>4 DEF CleanupInv, ScopeKnown, HasTopic, NoApplyBeside
  <1>7. (TerraformUnnamed /\ OthersForeign /\ TodoIsOurs)'
    BY <1>1, <1>3 DEF CleanupInv, TerraformUnnamed, OthersForeign, TodoIsOurs
  <1>8. (CliTagged /\ ScopesTold)'
    <2>1. Told' = Told
      BY <1>1 DEF Told
    <2> QED
      BY <1>1, <1>3, <2>1 DEF CleanupInv, CliTagged, ScopesTold, Exists
  <1>9. (SeenRemains /\ NothingLeft)'
    BY <1>1, <1>3, <1>4 DEF SeenRemains, NothingLeft
  <1> QED
    BY <1>5, <1>6, <1>7, <1>8, <1>9 DEF CleanupInv

\* A valid listing offers topics of users only: Terraform's topic is not named as
\* cluster-cli names its own, and another deployment's has its tag or its scope.
LEMMA OwnedAreUsers ==
    ASSUME CleanupInv, Valid
    PROVE  OwnedTopicIds \subseteq CliTopics
  <1> SUFFICES ASSUME NEW t \in OwnedTopicIds, t \notin CliTopics
               PROVE  FALSE
    OBVIOUS
  <1>1. t \in Topics /\ Claimed(t) /\ WellFormed(t)
    BY DEF Valid, OwnedTopicIds, Listed
  <1>2. CASE t \in TerraformTopics
    BY <1>1, <1>2 DEF WellFormed, CleanupInv, TerraformUnnamed
  <1>3. CASE t \in OtherTopics
    <2>1. Alien \notin run.scopes
      BY TopicsAssumption DEF CleanupInv, TypeOK
    <2> QED
      BY <1>1, <1>3, <2>1 DEF Claimed, CleanupInv, OthersForeign
  <1> QED
    BY <1>1, <1>2, <1>3 DEF Topics

\* A listing claims every topic that it recognises.
LEMMA RecognisedAreOwned ==
    ASSUME CleanupInv, run.pc # "idle", Valid
    PROVE  Recognised \subseteq OwnedTopicIds
  <1> SUFFICES ASSUME NEW t \in Recognised, t \notin OwnedTopicIds
               PROVE  FALSE
    OBVIOUS
  <1>1. t \in Listed /\ t \in CliTopics /\ t \in Topics /\ Exists(t)
    BY DEF Recognised, Listed
  <1>2. t \notin run.known /\ ~Unrecognisable(t)
    BY <1>1 DEF Recognised, Valid
  <1>3. t \notin config.protected
    BY <1>1, TopicsAssumption DEF CleanupInv, TypeOK
  <1>4. topic[t].deployment \in {"ours", "none"}
    BY <1>1 DEF CleanupInv, CliTagged, TypeOK, Topic
  <1>5. lost \/ topic[t].scope \in run.scopes
    BY <1>1 DEF CleanupInv, ScopesTold
  <1>6. Claimed(t)
    BY <1>2, <1>3, <1>4, <1>5 DEF Claimed, Unrecognisable
  <1> QED
    BY <1>1, <1>6 DEF OwnedTopicIds

\* Listing and validation: what is recognised is owned, so it remains.
LEMMA ListTopicsSafe ==
    ASSUME CleanupInv, ListTopics
    PROVE  CleanupInv'
  <1>1. /\ run.pc = "list" /\ ~stack.destroyed
        /\ UNCHANGED <<topic, registry, config, stack, add, faults, lost>>
    BY DEF ListTopics, CleanupInv, NoApplyBeside
  <1>2. /\ run' \in [pc : {"idle", "list", "delete"}, scopes : SUBSET Scopes,
                      known : SUBSET CliTopics, todo : SUBSET Topics,
                      requested : SUBSET Topics, remaining : SUBSET Topics,
                      seen : SUBSET Topics, attempt : 0..PollAttempts]
        /\ run'.todo \subseteq CliTopics
        /\ \/ run' = Idle
           \/ /\ run'.pc = "delete" /\ run'.scopes = run.scopes
              /\ run'.seen = run.seen \cup Recognised /\ run'.remaining = Remaining
              /\ Recognised \subseteq OwnedTopicIds
    <2>1. CASE Valid
      <3> DEFINE todo == {t \in OwnedTopicIds \ run.requested :
                              topic[t].state = "live"}
      <3>1. run' = [run EXCEPT !.pc = "delete", !.seen = @ \cup Recognised,
                               !.todo = todo, !.remaining = Remaining]
        BY <2>1 DEF ListTopics
      <3>2. todo \subseteq CliTopics /\ Recognised \subseteq OwnedTopicIds
        BY <1>1, <2>1, OwnedAreUsers, RecognisedAreOwned
      <3>3. Remaining \subseteq Topics /\ Recognised \subseteq Topics
        BY DEF Remaining, OwnedTopicIds, Listed, Recognised
      <3>4. todo \subseteq Topics
        BY <3>2 DEF Topics
      <3> HIDE DEF todo
      <3> QED
        BY <3>1, <3>2, <3>3, <3>4 DEF CleanupInv, TypeOK
    <2>2. CASE ~Valid
      <3>1. run' = Idle
        BY <2>2 DEF ListTopics
      <3> QED
        BY <3>1, BoundsAssumption DEF Idle
    <2> QED
      BY <2>1, <2>2
  <1>3. TypeOK'
    BY <1>1, <1>2 DEF CleanupInv, TypeOK
  <1>4. (ScopeKnown /\ HasTopic /\ NoApplyBeside)'
    BY <1>1 DEF CleanupInv, ScopeKnown, HasTopic, NoApplyBeside
  <1>5. (TerraformUnnamed /\ OthersForeign /\ TodoIsOurs)'
    BY <1>1, <1>2 DEF CleanupInv, TerraformUnnamed, OthersForeign, TodoIsOurs
  <1>6. (CliTagged /\ ScopesTold)'
    <2>1. Told' = Told
      BY <1>1 DEF Told
    <2>2. run'.pc = "idle" \/ run'.scopes = run.scopes
      BY <1>2 DEF Idle
    <2> QED
      BY <1>1, <2>1, <2>2 DEF CleanupInv, CliTagged, ScopesTold, Exists
  <1>7. (SeenRemains /\ NothingLeft)'
    <2>1. CASE run' = Idle
      BY <1>1, <2>1 DEF SeenRemains, NothingLeft, Idle
    <2>2. CASE /\ run'.seen = run.seen \cup Recognised /\ run'.remaining = Remaining
               /\ Recognised \subseteq OwnedTopicIds
      <3>1. \A t \in run.seen : Exists(t) => t \in Listed /\ t \in run.remaining
        BY <1>1 DEF CleanupInv, TypeOK, SeenRemains, Listed
      <3>2. \A t \in run'.seen : Exists(t) => t \in run'.remaining
        BY <2>2, <3>1 DEF Remaining
      <3>3. \A t \in run'.seen : topic[t].state # "unused"
        BY <1>1, <2>2 DEF CleanupInv, SeenRemains, Recognised, Listed, Exists
      <3> QED
        BY <1>1, <3>2, <3>3 DEF SeenRemains, NothingLeft, Exists
    <2> QED
      BY <1>2, <2>1, <2>2
  <1> QED
    BY <1>3, <1>4, <1>5, <1>6, <1>7 DEF CleanupInv

\* A run that ends without success.
LEMMA RunEndsSafe ==
    ASSUME CleanupInv, run' = Idle,
           UNCHANGED <<topic, registry, config, stack, add, lost>>,
           ~stack.destroyed, faults' \in 0..MaxFaults
    PROVE  CleanupInv'
  <1>1. run' \in [pc : {"idle", "list", "delete"}, scopes : SUBSET Scopes,
                      known : SUBSET CliTopics, todo : SUBSET Topics,
                      requested : SUBSET Topics, remaining : SUBSET Topics,
                      seen : SUBSET Topics, attempt : 0..PollAttempts]
    BY BoundsAssumption DEF Idle
  <1>2. TypeOK'
    BY <1>1 DEF CleanupInv, TypeOK
  <1>3. (ScopeKnown /\ HasTopic /\ NoApplyBeside)'
    BY DEF CleanupInv, ScopeKnown, HasTopic, NoApplyBeside, Idle
  <1>4. (TerraformUnnamed /\ OthersForeign /\ TodoIsOurs)'
    BY DEF CleanupInv, TerraformUnnamed, OthersForeign, TodoIsOurs, Idle
  <1>5. (CliTagged /\ ScopesTold)'
    BY DEF CleanupInv, CliTagged, ScopesTold, Told, Exists, Idle
  <1>6. (SeenRemains /\ NothingLeft)'
    BY DEF SeenRemains, NothingLeft, Idle
  <1> QED
    BY <1>2, <1>3, <1>4, <1>5, <1>6 DEF CleanupInv

\* A deletion, or one that finds the topic deleted.
LEMMA DeleteTopicSafe ==
    ASSUME CleanupInv, NEW t \in Topics, DeleteTopic(t)
    PROVE  CleanupInv'
  <1>1. /\ run.pc = "delete" /\ t \in run.todo
        /\ UNCHANGED <<registry, config, stack, add, faults, lost>>
    BY DEF DeleteTopic
  <1>2. ~stack.destroyed /\ t \in CliTopics /\ faults \in 0..MaxFaults
    BY <1>1 DEF CleanupInv, NoApplyBeside, TodoIsOurs, TypeOK
  <1>3. CASE run' = Idle /\ UNCHANGED topic
    BY <1>1, <1>2, <1>3, RunEndsSafe
  <1>4. CASE /\ topic[t].state = "live" /\ SetState(t, "deleting")
             /\ run' = [run EXCEPT !.todo = @ \ {t}, !.requested = @ \cup {t}]
    <2> DEFINE new == [topic[t] EXCEPT !.state = "deleting"]
    <2>1. topic[t] \in Topic
      BY DEF CleanupInv, TypeOK
    <2>2. /\ new \in Topic /\ new.state = "deleting" /\ new.scope = topic[t].scope
          /\ new.deployment = topic[t].deployment
      BY <2>1 DEF Topic, States
    <2>3. topic' = [topic EXCEPT ![t] = new] /\ Exists(t)
      BY <1>4 DEF SetState, Exists
    <2>4. new.deployment # "other"
      BY <1>2, <2>2, <2>3 DEF CleanupInv, CliTagged
    <2>5. registry \in [deployment : {"none", "ours", "missing"},
                     scope : Scopes \cup {NoScope}, history : SUBSET Scopes,
                     known : SUBSET CliTopics]
      BY DEF CleanupInv, TypeOK
    <2> HIDE DEF new
    <2> QED
      BY <1>1, <1>2, <1>4, <2>2, <2>3, <2>4, <2>5, UserTopicSafe
  <1> QED
    BY <1>3, <1>4 DEF DeleteTopic

\* The end of a round: what was seen is gone, or there is another listing.
LEMMA EndRoundSafe ==
    ASSUME CleanupInv, EndRound
    PROVE  CleanupInv'
  <1>1. /\ run.pc = "delete" /\ run.todo = {}
        /\ UNCHANGED <<topic, registry, config, add, faults, lost>>
    BY DEF EndRound
  <1>2. stack.apply = "idle" /\ ~stack.destroyed /\ faults \in 0..MaxFaults
    BY <1>1 DEF CleanupInv, NoApplyBeside, TypeOK
  <1>3. CASE /\ run.remaining = {}
             /\ stack' = [stack EXCEPT !.destroyed = TRUE]
             /\ run' = [run EXCEPT !.pc = "idle"]
    <2>1. /\ stack'.apply = "idle" /\ stack'.topic = stack.topic
          /\ stack' \in [apply : {"idle", "topic", "seed", "sentinel"},
                       scope : Scopes, topic : TerraformTopics \cup {NoTopic},
                       renames : 0..MaxRenames, leaving : BOOLEAN,
                       destroyed : BOOLEAN]
      BY <1>2, <1>3 DEF CleanupInv, TypeOK
    <2>2. /\ run'.pc = "idle" /\ run'.todo = run.todo /\ run'.seen = run.seen
          /\ run' \in [pc : {"idle", "list", "delete"}, scopes : SUBSET Scopes,
                      known : SUBSET CliTopics, todo : SUBSET Topics,
                      requested : SUBSET Topics, remaining : SUBSET Topics,
                      seen : SUBSET Topics, attempt : 0..PollAttempts]
      BY <1>3 DEF CleanupInv, TypeOK
    <2>3. TypeOK'
      BY <1>1, <2>1, <2>2 DEF CleanupInv, TypeOK
    <2>4. (ScopeKnown /\ HasTopic /\ NoApplyBeside)'
      BY <1>1, <2>1, <2>2 DEF CleanupInv, ScopeKnown, HasTopic, NoApplyBeside
    <2>5. (TerraformUnnamed /\ OthersForeign /\ TodoIsOurs)'
      BY <1>1, <2>2 DEF CleanupInv, TerraformUnnamed, OthersForeign, TodoIsOurs
    <2>6. (CliTagged /\ ScopesTold)'
      BY <1>1, <2>2 DEF CleanupInv, CliTagged, ScopesTold, Told, Exists
    <2>7. (SeenRemains /\ NothingLeft)'
      BY <1>1, <1>3, <2>2 DEF CleanupInv, SeenRemains, NothingLeft, Exists
    <2> QED
      BY <2>3, <2>4, <2>5, <2>6, <2>7 DEF CleanupInv
  <1>4. CASE /\ run.attempt < PollAttempts /\ UNCHANGED stack
             /\ run' = [run EXCEPT !.pc = "list", !.attempt = @ + 1]
    <2>1. /\ run'.pc = "list" /\ run'.todo = run.todo /\ run'.seen = run.seen
          /\ run'.scopes = run.scopes /\ run'.remaining = run.remaining
          /\ run' \in [pc : {"idle", "list", "delete"}, scopes : SUBSET Scopes,
                      known : SUBSET CliTopics, todo : SUBSET Topics,
                      requested : SUBSET Topics, remaining : SUBSET Topics,
                      seen : SUBSET Topics, attempt : 0..PollAttempts]
      <3>1. run.attempt \in 0..PollAttempts
        BY DEF CleanupInv, TypeOK
      <3>2. run.attempt + 1 \in 0..PollAttempts
        BY <1>4, <3>1, BoundsAssumption
      <3> QED
        BY <1>4, <3>2 DEF CleanupInv, TypeOK
    <2>2. TypeOK'
      BY <1>1, <1>4, <2>1 DEF CleanupInv, TypeOK
    <2>3. (ScopeKnown /\ HasTopic /\ NoApplyBeside)'
      BY <1>1, <1>2, <1>4 DEF CleanupInv, ScopeKnown, HasTopic, NoApplyBeside
    <2>4. (TerraformUnnamed /\ OthersForeign /\ TodoIsOurs)'
      BY <1>1, <2>1 DEF CleanupInv, TerraformUnnamed, OthersForeign, TodoIsOurs
    <2>5. (CliTagged /\ ScopesTold)'
      BY <1>1, <2>1 DEF CleanupInv, CliTagged, ScopesTold, Told, Exists
    <2>6. (SeenRemains /\ NothingLeft)'
      BY <1>1, <1>2, <1>4, <2>1 DEF CleanupInv, SeenRemains, NothingLeft, Exists
    <2> QED
      BY <2>2, <2>3, <2>4, <2>5, <2>6 DEF CleanupInv
  <1>5. CASE run' = Idle /\ UNCHANGED stack
    BY <1>1, <1>2, <1>5, RunEndsSafe
  <1> QED
    BY <1>3, <1>4, <1>5 DEF EndRound

\* A failing call ends the run; a deletion may have taken effect.
LEMMA FailRunSafe ==
    ASSUME CleanupInv, FailRun
    PROVE  CleanupInv'
  <1>1. /\ run.pc # "idle" /\ run' = Idle /\ faults' \in 0..MaxFaults
        /\ UNCHANGED <<registry, config, stack, add, lost>>
    BY BoundsAssumption DEF FailRun, Fault, CleanupInv, TypeOK
  <1>2. ~stack.destroyed
    BY <1>1 DEF CleanupInv, NoApplyBeside
  <1>3. CASE UNCHANGED topic
    BY <1>1, <1>2, <1>3, RunEndsSafe
  <1>4. ASSUME NEW t \in run.todo,
               topic[t].state = "live" /\ SetState(t, "deleting")
        PROVE  CleanupInv'
    <2> DEFINE new == [topic[t] EXCEPT !.state = "deleting"]
    <2>1. t \in CliTopics /\ topic[t] \in Topic
      BY DEF CleanupInv, TodoIsOurs, TypeOK, Topics
    <2>2. /\ new \in Topic /\ new.state = "deleting" /\ new.scope = topic[t].scope
          /\ new.deployment = topic[t].deployment
      BY <2>1 DEF Topic, States
    <2>3. topic' = [topic EXCEPT ![t] = new] /\ Exists(t)
      BY <1>4 DEF SetState, Exists
    <2>4. new.deployment # "other"
      BY <2>1, <2>2, <2>3 DEF CleanupInv, CliTagged
    <2>5. registry \in [deployment : {"none", "ours", "missing"},
                     scope : Scopes \cup {NoScope}, history : SUBSET Scopes,
                     known : SUBSET CliTopics]
      BY DEF CleanupInv, TypeOK
    <2> HIDE DEF new
    <2> QED
      BY <1>1, <1>2, <2>1, <2>2, <2>3, <2>4, <2>5, UserTopicSafe
  <1> QED
    BY <1>3, <1>4 DEF FailRun

-----------------------------------------------------------------------------
(* Theorems *)

LEMMA NextSafe ==
    ASSUME CleanupInv, [Next]_vars
    PROVE  CleanupInv'
  <1>1. CASE UNCHANGED vars
    <2>1. TypeOK'
      BY <1>1 DEF vars, CleanupInv, TypeOK
    <2>2. (ScopeKnown /\ HasTopic /\ NoApplyBeside)'
      BY <1>1 DEF vars, CleanupInv, ScopeKnown, HasTopic, NoApplyBeside
    <2>3. (TerraformUnnamed /\ OthersForeign /\ TodoIsOurs)'
      BY <1>1 DEF vars, CleanupInv, TerraformUnnamed, OthersForeign, TodoIsOurs
    <2>4. (CliTagged /\ ScopesTold)'
      BY <1>1 DEF vars, CleanupInv, CliTagged, ScopesTold, Told, Exists
    <2>5. (SeenRemains /\ NothingLeft)'
      BY <1>1 DEF vars, CleanupInv, SeenRemains, NothingLeft, Exists
    <2> QED
      BY <2>1, <2>2, <2>3, <2>4, <2>5 DEF CleanupInv
  <1>2. CASE UserAdd \/ StoreRouting \/ LoseRegistry
    BY <1>2, UserAddSafe, StoreRoutingSafe, LoseRegistrySafe
  <1>3. CASE \E t \in CliTopics : CreateTopic(t) \/ UserDelete(t) \/ RestoreTags(t)
    BY <1>3, CreateTopicSafe, UserDeleteSafe, RestoreTagsSafe
  <1>4. CASE \E t \in Topics : FinishDelete(t) \/ EditTags(t)
    BY <1>4, FinishDeleteSafe, EditTagsSafe
  <1>5. CASE (\E s \in Scopes : StartApply(s)) \/ Apply \/ FailApply
    BY <1>5, StartApplySafe, ReplaceTopicSafe, SeedRegistrySafe, EndApplySafe
    DEF Apply
  <1>6. CASE StartDestroy \/ Cleanup \/ FailRun
    BY <1>6, StartDestroySafe, ListTopicsSafe, DeleteTopicSafe, EndRoundSafe,
       FailRunSafe DEF Cleanup
  <1> QED
    BY <1>1, <1>2, <1>3, <1>4, <1>5, <1>6 DEF Next

LEMMA CleanupInvHolds == Spec => []CleanupInv
  <1>1. CleanupInv /\ [Next]_vars => CleanupInv'
    BY NextSafe
  <1> QED
    BY InitSafe, <1>1, PTL DEF Spec

\* While a Destroy runs, the topics of others keep their state.
LEMMA ForeignKept ==
    ASSUME CleanupInv, [Next]_vars, run.pc # "idle",
           NEW f \in TerraformTopics \cup OtherTopics
    PROVE  topic'[f].state = topic[f].state
  <1>1. f \in Topics /\ f \notin CliTopics
    BY TopicsAssumption DEF Topics
  <1>2. topic \in [Topics -> Topic]
    BY DEF CleanupInv, TypeOK
  <1>3. CASE UNCHANGED topic
    BY <1>3
  <1>4. ASSUME NEW t \in CliTopics, CreateTopic(t) \/ UserDelete(t) \/ RestoreTags(t)
        PROVE  topic'[f].state = topic[f].state
    <2>1. t # f
      BY <1>1
    <2> QED
      BY <1>1, <1>2, <1>4, <2>1 DEF CreateTopic, UserDelete, RestoreTags, SetState
  <1>5. ASSUME NEW t \in Topics, FinishDelete(t)
        PROVE  topic'[f].state = topic[f].state
    <2>1. topic[f].state # "deleting"
      BY DEF CleanupInv, TerraformUnnamed, OthersForeign
    <2> QED
      BY <1>1, <1>2, <1>5, <2>1 DEF FinishDelete
  <1>6. ASSUME NEW t \in Topics, EditTags(t)
        PROVE  topic'[f].state = topic[f].state
    <2>1. PICK new \in {[topic[t] EXCEPT !.deployment = "none"],
                   [topic[t] EXCEPT !.managedBy = "terraform"],
                   [topic[t] EXCEPT !.managedBy = "cluster-cli"],
                   [topic[t] EXCEPT !.clusterTags = FALSE]} :
            topic' = [topic EXCEPT ![t] = new]
      BY <1>6 DEF EditTags
    <2>2. new.state = topic[t].state
      BY <1>2 DEF Topic
    <2> QED
      BY <1>1, <1>2, <2>1, <2>2
  <1>7. ~ReplaceTopic
    BY DEF ReplaceTopic, CleanupInv, NoApplyBeside
  <1>8. ASSUME NEW t \in Topics, DeleteTopic(t)
        PROVE  topic'[f].state = topic[f].state
    <2>1. t # f
      BY <1>1, <1>8 DEF DeleteTopic, CleanupInv, TodoIsOurs
    <2> QED
      BY <1>1, <1>2, <1>8, <2>1 DEF DeleteTopic, SetState
  <1>9. CASE FailRun
    <2>1. \A t \in run.todo : t # f
      BY <1>1 DEF CleanupInv, TodoIsOurs
    <2> QED
      BY <1>1, <1>2, <1>9, <2>1 DEF FailRun, SetState
  <1>10. Next => \/ UNCHANGED topic \/ ReplaceTopic \/ FailRun
                 \/ \E t \in CliTopics : CreateTopic(t) \/ UserDelete(t) \/ RestoreTags(t)
                 \/ \E t \in Topics : FinishDelete(t) \/ EditTags(t) \/ DeleteTopic(t)
    BY DEF Next, Apply, Cleanup, UserAdd, StoreRouting, LoseRegistry, StartApply,
           SeedRegistry, UpdateSentinel, FailApply, StartDestroy, ListTopics, EndRound
  <1> QED
    BY <1>3, <1>4, <1>5, <1>6, <1>7, <1>8, <1>9, <1>10 DEF vars

\* The state of the topics, the registry, the applies and a Destroy.
THEOREM TypeCorrect == Spec => []TypeOK
  <1>1. CleanupInv => TypeOK
    BY DEF CleanupInv
  <1> QED
    BY CleanupInvHolds, <1>1, PTL

\* A Destroy that succeeds (cleanup_topics) has left no topic behind that one of
\* its listings recognised.
THEOREM NothingLeftHolds == Spec => []NothingLeft
  <1>1. CleanupInv => NothingLeft
    BY DEF CleanupInv
  <1> QED
    BY CleanupInvHolds, <1>1, PTL

\* A Destroy deletes neither Terraform's topic nor another deployment's
\* (_owned_topic_ids).
THEOREM OnlyOwnTopicsDeletedHolds == Spec => OnlyOwnTopicsDeleted
  <1>1. CleanupInv /\ [Next]_vars =>
          [run.pc # "idle" =>
             \A t \in TerraformTopics \cup OtherTopics :
                 topic'[t].state = topic[t].state]_vars
    BY ForeignKept
  <1> QED
    BY CleanupInvHolds, <1>1, PTL DEF Spec, OnlyOwnTopicsDeleted

=============================================================================

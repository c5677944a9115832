---------------------------- MODULE TopicMetrics ----------------------------
(***************************************************************************)
(* The metrics of admin mode's topic list: what a refresh loads with       *)
(* kaskade/topic_service.py, in which order kaskade/admin/topics.py takes  *)
(* it over, and what is kept of earlier refreshes when requests fail.      *)
(*                                                                         *)
(* Offsets are told apart by the refresh that loaded them, not by value.   *)
(* That one refresh runs at a time is AdminRefresh's subject.              *)
(***************************************************************************)
EXTENDS Naturals, FiniteSets

CONSTANTS
  Topics,
  Groups,
  MaxPartitions,   \* bound: partitions of a topic
  MaxRefreshes     \* bound: refreshes

ASSUME MetricsAssumption ==
  /\ Topics # {} /\ IsFiniteSet(Topics)
  /\ MaxPartitions \in Nat \ {0}
  /\ MaxRefreshes \in Nat \ {0}

VARIABLES
  topics,    \* TopicsPanel.topics
  refresh,   \* the number of the last refresh
  stage,     \* what it awaits
  groups     \* the answers load_groups() has got

vars == <<topics, refresh, stage, groups>>

Partitions == 1..MaxPartitions
Load == 0..MaxRefreshes
Never == [p \in Partitions |-> 0]

MetricState == {"LOADING", "READY", "UNAVAILABLE"}

\* A group of a topic: the ends its lag is counted from, for the partitions
\* it has committed offsets of.
ShownGroup == [id : Groups, committed : SUBSET Partitions, high : [Partitions -> Load]]

\* count: how many partitions; 0 when the topic is not listed. low, high: the
\* refresh that loaded a partition's offset; 0 for never.
Topic ==
  [count : 0..MaxPartitions, low : [Partitions -> Load], high : [Partitions -> Load],
   recordsState : MetricState, groups : SUBSET ShownGroup, groupsState : MetricState]

NewTopic(count) ==
  [count |-> count, low |-> Never, high |-> Never, recordsState |-> "LOADING",
   groups |-> {}, groupsState |-> "LOADING"]

Of(topic) == 1..topic.count

\* Kafka's answers to the requests about groups; "denied" is
\* GROUP_AUTHORIZATION_FAILED.
Answer == {"ok", "denied", "error"}
Answers ==
  [listed : BOOLEAN, description : [Groups -> Answer], offsets : [Groups -> Answer],
   commits : [Groups -> SUBSET (Topics \X Partitions)]]
NoAnswers ==
  [listed |-> FALSE, description |-> [g \in Groups |-> "error"],
   offsets |-> [g \in Groups |-> "error"], commits |-> [g \in Groups |-> {}]]

\* The answers when the groups could not be listed.
NoGroups == [NoAnswers EXCEPT !.description = [g \in Groups |-> "ok"]]
----------------------------------------------------------------------------
Init ==
  /\ topics = [t \in Topics |-> NewTopic(0)]
  /\ refresh = 0
  /\ stage = "idle"
  /\ groups = NoAnswers

Start ==
  /\ stage = "idle"
  /\ refresh < MaxRefreshes
  /\ refresh' = refresh + 1
  /\ stage' = "metadata"
  /\ UNCHANGED <<topics, groups>>

\* A defect: the number of partitions is not compared.
PreservedAlways(old, new) ==
  IF old.count = 0 THEN new
  ELSE [new EXCEPT
    !.low = IF old.recordsState = "READY" THEN old.low ELSE @,
    !.high = IF old.recordsState = "READY" THEN old.high ELSE @,
    !.recordsState = IF old.recordsState = "READY" THEN "READY" ELSE @,
    !.groups = IF old.groupsState = "READY" THEN old.groups ELSE @,
    !.groupsState = IF old.groupsState = "READY" THEN "READY" ELSE @]

\* _preserve_completed_metrics(): what was complete stays while the partitions
\* are the same.
Preserved(old, new) ==
  IF old.count = 0 \/ old.count # new.count THEN new
  ELSE [new EXCEPT
    !.low = IF old.recordsState = "READY" THEN old.low ELSE @,
    !.high = IF old.recordsState = "READY" THEN old.high ELSE @,
    !.recordsState = IF old.recordsState = "READY" THEN "READY" ELSE @,
    !.groups = IF old.groupsState = "READY" THEN old.groups ELSE @,
    !.groupsState = IF old.groupsState = "READY" THEN "READY" ELSE @]

\* metadata() returns, whatever topics there are, and both stages start.
MetadataReturns ==
  /\ stage = "metadata"
  /\ \E counts \in [Topics -> 0..MaxPartitions] :
       topics' = [t \in Topics |-> Preserved(topics[t], NewTopic(counts[t]))]
  /\ stage' = "loading"
  /\ UNCHANGED <<refresh, groups>>

\* load_groups() gets its answers, before or after the offsets.
GroupsAnswer ==
  /\ stage \in {"loading", "groups"}
  /\ groups = NoAnswers
  /\ groups' \in Answers
  /\ ~groups'.listed => groups' = NoGroups
  /\ UNCHANGED <<topics, refresh, stage>>

\* _apply_partition_offsets() for a topic, with the partitions whose offsets
\* were loaded: all or nothing.
WithOffsets(topic, low, high) ==
  IF Of(topic) \subseteq low \cap high
  THEN [topic EXCEPT !.low = [p \in Partitions |-> IF p \in Of(topic) THEN refresh ELSE 0],
                     !.high = [p \in Partitions |-> IF p \in Of(topic) THEN refresh ELSE 0],
                     !.recordsState = "READY"]
  ELSE [topic EXCEPT !.recordsState = IF @ = "READY" THEN @ ELSE "UNAVAILABLE"]

\* enrich_offsets(): each of the requests may fail, and all of them at once.
OffsetsReturn ==
  /\ stage = "loading"
  /\ \E low, high \in [Topics -> SUBSET Partitions] :
       /\ \A t \in Topics : low[t] \cup high[t] \subseteq Of(topics[t])
       /\ topics' = [t \in Topics |->
                       IF topics[t].count = 0 THEN topics[t]
                       ELSE WithOffsets(topics[t], low[t], high[t])]
  /\ stage' = "groups"
  /\ UNCHANGED <<refresh, groups>>

\* A defect: a failed request for a group's offsets is no error.
HasOtherErrors ==
  ~groups.listed \/ \E g \in Groups : groups.description[g] = "error"

\* The groups the user may not see.
Hidden == {g \in Groups : "denied" \in {groups.description[g], groups.offsets[g]}}

\* Has the snapshot any other error?
HasErrors ==
  ~groups.listed \/ \E g \in Groups : "error" \in {groups.description[g], groups.offsets[g]}

\* _map_group_partitions(): committed offsets of partitions that are not
\* listed are left out. None are known of a group whose request failed.
Committed(topic, t, g) ==
  {p \in Of(topic) : groups.offsets[g] = "ok" /\ <<t, p>> \in groups.commits[g]}

\* The groups with a description that the user may see.
Described == {g \in Groups \ Hidden : groups.description[g] = "ok"}

\* A defect: a failure also hides groups that were complete.
WithoutAnyGroups(topic) == [topic EXCEPT !.groupsState = "UNAVAILABLE"]

\* A defect: groups are complete whether or not the ends are known.
WithGroupsAnyway(topic, t) ==
  [topic EXCEPT
    !.groups = {[id |-> g, committed |-> Committed(topic, t, g),
                 high |-> [p \in Partitions |->
                             IF p \in Committed(topic, t, g) THEN topic.high[p] ELSE 0]] :
                  g \in {h \in Described : Committed(topic, t, h) # {}}},
    !.groupsState = "READY"]

\* apply_groups() of a snapshot with errors, and of one without.
WithoutGroups(topic) ==
  [topic EXCEPT !.groupsState = IF @ = "READY" THEN @ ELSE "UNAVAILABLE"]

WithGroups(topic, t) ==
  [topic EXCEPT
    !.groups = {[id |-> g, committed |-> Committed(topic, t, g),
                 high |-> [p \in Partitions |->
                             IF p \in Committed(topic, t, g) THEN topic.high[p] ELSE 0]] :
                  g \in {h \in Described : Committed(topic, t, h) # {}}},
    !.groupsState = IF topic.recordsState = "READY" THEN "READY" ELSE "UNAVAILABLE"]

ApplyGroups ==
  /\ stage = "groups"
  /\ groups # NoAnswers
  /\ topics' = [t \in Topics |->
                  IF topics[t].count = 0 THEN topics[t]
                  ELSE IF HasErrors THEN WithoutGroups(topics[t])
                  ELSE WithGroups(topics[t], t)]
  /\ stage' = "idle"
  /\ groups' = NoAnswers
  /\ UNCHANGED refresh

\* metadata() or the request of descriptions raises: the refresh ends there.
RefreshFails ==
  /\ stage \in {"metadata", "groups"}
  /\ groups = NoAnswers
  /\ stage' = "idle"
  /\ UNCHANGED <<topics, refresh, groups>>

Next ==
  \/ Start \/ MetadataReturns \/ GroupsAnswer \/ OffsetsReturn \/ ApplyGroups
  \/ RefreshFails

Spec == Init /\ [][Next]_vars
----------------------------------------------------------------------------
TypeOK ==
  /\ topics \in [Topics -> Topic]
  /\ refresh \in Load
  /\ stage \in {"idle", "metadata", "loading", "groups"}
  /\ groups \in Answers

\* Records are counted from offsets of one load, with no partition missing,
\* although each partition's start and end are requests that fail on their own.
RecordsFromOneLoad ==
  \A t \in Topics :
    topics[t].recordsState = "READY" /\ topics[t].count > 0
      => \E n \in 1..MaxRefreshes : \A p \in Of(topics[t]) :
           topics[t].low[p] = n /\ topics[t].high[p] = n

\* A lag is shown only when the ends it is counted from have been loaded: an
\* end that is not known would show as a lag of zero.
LagFromLoadedEnds ==
  \A t \in Topics :
    topics[t].groupsState = "READY"
      => \A group \in topics[t].groups : \A p \in group.committed : group.high[p] > 0

\* Complete metrics are never lost, or replaced by older ones, while the topic
\* keeps its partitions: "Preserve the last complete metrics during refresh."
MetricsAreKept ==
  [][\A t \in Topics :
       topics[t].count > 0 /\ topics'[t].count = topics[t].count
         => /\ topics[t].recordsState = "READY"
                 => /\ topics'[t].recordsState = "READY"
                    /\ \A p \in Of(topics[t]) : topics'[t].high[p] >= topics[t].high[p]
            /\ topics[t].groupsState = "READY" => topics'[t].groupsState = "READY"]_vars

\* New groups are taken over whole: every group Kafka lists is there with all
\* it has committed in the topic, except those the user may not see.
GroupsAreComplete ==
  [][\A t \in Topics :
       topics'[t].groups # topics[t].groups /\ stage = "groups"
         => \A g \in Groups : \A p \in Of(topics[t]) :
              <<t, p>> \in groups.commits[g] /\ g \notin Hidden
                => \E group \in topics'[t].groups : group.id = g /\ p \in group.committed]_vars
=============================================================================

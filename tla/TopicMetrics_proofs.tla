------------------------- MODULE TopicMetrics_proofs -------------------------
(***************************************************************************)
(* What TopicMetrics shows is typed and complete, for any topics, groups,  *)
(* numbers of partitions and refreshes.                                    *)
(***************************************************************************)
EXTENDS TopicMetrics, TLAPS

LEMMA NewTopicType ==
  ASSUME NEW count \in 0..MaxPartitions
  PROVE  NewTopic(count) \in Topic
<1>1. Never \in [Partitions -> Load]
  BY MetricsAssumption DEF Never, Load
<1>. QED
  BY <1>1 DEF NewTopic, Topic, MetricState

LEMMA PreservedType ==
  ASSUME NEW old \in Topic, NEW new \in Topic
  PROVE  Preserved(old, new) \in Topic
BY DEF Preserved, Topic

LEMMA WithOffsetsType ==
  ASSUME NEW topic \in Topic, NEW low, NEW high, refresh \in Load
  PROVE  WithOffsets(topic, low, high) \in Topic
<1>1. [p \in Partitions |-> IF p \in Of(topic) THEN refresh ELSE 0] \in [Partitions -> Load]
  BY MetricsAssumption DEF Load
<1>. QED
  BY <1>1 DEF WithOffsets, Topic, MetricState

LEMMA WithGroupsType ==
  ASSUME NEW topic \in Topic, NEW t \in Topics
  PROVE  WithGroups(topic, t) \in Topic
<1>. DEFINE shown == {[id |-> g, committed |-> Committed(topic, t, g),
                       high |-> [p \in Partitions |->
                                   IF p \in Committed(topic, t, g) THEN topic.high[p] ELSE 0]] :
                        g \in {h \in Described : Committed(topic, t, h) # {}}}
<1>1. \A g \in Groups : Committed(topic, t, g) \subseteq Partitions
  BY MetricsAssumption DEF Committed, Of, Topic, Partitions
<1>2. \A g \in Groups : [p \in Partitions |-> IF p \in Committed(topic, t, g)
                                              THEN topic.high[p] ELSE 0] \in [Partitions -> Load]
  BY MetricsAssumption DEF Load, Topic
<1>3. shown \subseteq ShownGroup
  BY <1>1, <1>2 DEF ShownGroup, Described
<1>. QED
  BY <1>3 DEF WithGroups, Topic, MetricState

LEMMA WithoutGroupsType ==
  ASSUME NEW topic \in Topic
  PROVE  WithoutGroups(topic) \in Topic
BY DEF WithoutGroups, Topic, MetricState

LEMMA NoAnswersType == NoAnswers \in Answers
BY DEF NoAnswers, Answers, Answer

LEMMA InitType == Init => TypeOK
<1>. SUFFICES ASSUME Init PROVE TypeOK
  OBVIOUS
<1>1. 0 \in 0..MaxPartitions /\ 0 \in Load
  BY MetricsAssumption DEF Load
<1>2. topics \in [Topics -> Topic]
  BY <1>1, NewTopicType DEF Init
<1>. QED
  BY <1>1, <1>2, NoAnswersType DEF Init, TypeOK

LEMMA NextType == TypeOK /\ [Next]_vars => TypeOK'
<1>. SUFFICES ASSUME TypeOK, [Next]_vars PROVE TypeOK'
  OBVIOUS
<1>1. CASE Start
  <2>1. refresh' \in Load
    BY <1>1, MetricsAssumption DEF Start, TypeOK, Load
  <2>. QED
    BY <1>1, <2>1 DEF Start, TypeOK
<1>2. CASE MetadataReturns
  <2>1. PICK counts \in [Topics -> 0..MaxPartitions] :
          topics' = [t \in Topics |-> Preserved(topics[t], NewTopic(counts[t]))]
    BY <1>2 DEF MetadataReturns
  <2>2. \A t \in Topics : NewTopic(counts[t]) \in Topic
    BY NewTopicType
  <2>3. topics' \in [Topics -> Topic]
    BY <2>1, <2>2, PreservedType DEF TypeOK
  <2>. QED
    BY <1>2, <2>3 DEF MetadataReturns, TypeOK
<1>3. CASE GroupsAnswer
  BY <1>3 DEF GroupsAnswer, TypeOK
<1>4. CASE OffsetsReturn
  <2>1. topics' \in [Topics -> Topic]
    BY <1>4, WithOffsetsType DEF OffsetsReturn, TypeOK
  <2>. QED
    BY <1>4, <2>1 DEF OffsetsReturn, TypeOK
<1>5. CASE ApplyGroups
  <2>1. topics' \in [Topics -> Topic]
    BY <1>5, WithoutGroupsType, WithGroupsType DEF ApplyGroups, TypeOK
  <2>. QED
    BY <1>5, <2>1, NoAnswersType DEF ApplyGroups, TypeOK
<1>6. CASE RefreshFails
  BY <1>6 DEF RefreshFails, TypeOK
<1>7. CASE UNCHANGED vars
  BY <1>7 DEF vars, TypeOK
<1>. QED
  BY <1>1, <1>2, <1>3, <1>4, <1>5, <1>6, <1>7 DEF Next

\* TopicsPanel.topics and the snapshot of load_groups() keep their types: in
\* particular every offset is of a refresh that has begun, or of none.
THEOREM MetricsTypeCorrect == Spec => []TypeOK
<1>. QED
  BY InitType, NextType, PTL DEF Spec
-----------------------------------------------------------------------------
\* The two invariants, for one topic.
OneLoad(topic) ==
  topic.recordsState = "READY" /\ topic.count > 0
    => \E n \in 1..MaxRefreshes : \A p \in Of(topic) : topic.low[p] = n /\ topic.high[p] = n

LoadedEnds(topic) ==
  topic.groupsState = "READY"
    => \A group \in topic.groups : \A p \in group.committed : group.high[p] > 0

\* Without this, apply_groups() could take complete groups away again.
GroupsNeedRecords(topic) == topic.groupsState = "READY" => topic.recordsState = "READY"

Complete(topic) == OneLoad(topic) /\ LoadedEnds(topic) /\ GroupsNeedRecords(topic)

\* A lag is counted from the ends of records that are complete; no offset is
\* of a refresh to come.
IInv ==
  /\ TypeOK
  /\ stage # "idle" => refresh > 0
  /\ \A t \in Topics : Complete(topics[t])
  /\ \A t \in Topics : \A p \in Partitions : topics[t].high[p] <= refresh

LEMMA NewTopicComplete == ASSUME NEW count PROVE Complete(NewTopic(count))
BY DEF NewTopic, Complete, OneLoad, LoadedEnds, GroupsNeedRecords

\* Carried over only to the same partitions, what was complete is so still.
LEMMA PreservedComplete ==
  ASSUME NEW old \in Topic, NEW count \in 0..MaxPartitions, Complete(old)
  PROVE  Complete(Preserved(old, NewTopic(count)))
<1>. DEFINE new == NewTopic(count)
            kept == Preserved(old, new)
<1>1. new \in Topic /\ Complete(new) /\ new.count = count
      /\ new.recordsState # "READY" /\ new.groupsState # "READY"
  BY NewTopicType, NewTopicComplete DEF NewTopic
<1>2. CASE old.count = 0 \/ old.count # new.count
  BY <1>1, <1>2 DEF Preserved
<1>3. CASE ~(old.count = 0 \/ old.count # new.count)
  <2>1. /\ kept.count = old.count
        /\ kept.low = IF old.recordsState = "READY" THEN old.low ELSE new.low
        /\ kept.high = IF old.recordsState = "READY" THEN old.high ELSE new.high
        /\ kept.recordsState = IF old.recordsState = "READY" THEN "READY" ELSE new.recordsState
        /\ kept.groups = IF old.groupsState = "READY" THEN old.groups ELSE new.groups
        /\ kept.groupsState = IF old.groupsState = "READY" THEN "READY" ELSE new.groupsState
    BY <1>1, <1>3 DEF Preserved, Topic
  <2>2. OneLoad(kept)
    BY <1>1, <2>1 DEF Complete, OneLoad, Of
  <2>3. LoadedEnds(kept)
    BY <1>1, <2>1 DEF Complete, LoadedEnds
  <2>4. GroupsNeedRecords(kept)
    BY <1>1, <2>1 DEF Complete, GroupsNeedRecords
  <2>. QED
    BY <2>2, <2>3, <2>4 DEF Complete
<1>. QED
  BY <1>2, <1>3

LEMMA WithOffsetsComplete ==
  ASSUME NEW topic \in Topic, NEW low, NEW high, refresh \in Load, refresh > 0, Complete(topic)
  PROVE  Complete(WithOffsets(topic, low, high))
<1>. DEFINE loaded == [p \in Partitions |-> IF p \in Of(topic) THEN refresh ELSE 0]
            new == WithOffsets(topic, low, high)
<1>1. CASE Of(topic) \subseteq low \cap high
  <2>1. /\ new.count = topic.count /\ new.low = loaded /\ new.high = loaded
        /\ new.recordsState = "READY"
        /\ new.groups = topic.groups /\ new.groupsState = topic.groupsState
    BY <1>1 DEF WithOffsets, Topic
  <2>2. Of(topic) \subseteq Partitions /\ refresh \in 1..MaxRefreshes
    BY MetricsAssumption DEF Of, Partitions, Topic, Load
  <2>3. OneLoad(new)
    BY <2>1, <2>2 DEF OneLoad, Of
  <2>4. LoadedEnds(new)
    BY <2>1 DEF Complete, LoadedEnds
  <2>. QED
    BY <2>1, <2>3, <2>4 DEF Complete, GroupsNeedRecords
<1>2. CASE ~(Of(topic) \subseteq low \cap high)
  <2>1. /\ new.count = topic.count /\ new.low = topic.low /\ new.high = topic.high
        /\ new.groups = topic.groups /\ new.groupsState = topic.groupsState
        /\ new.recordsState = "READY" <=> topic.recordsState = "READY"
    BY <1>2 DEF WithOffsets, Topic
  <2>. QED
    BY <2>1 DEF Complete, OneLoad, LoadedEnds, GroupsNeedRecords, Of
<1>. QED
  BY <1>1, <1>2

LEMMA WithoutGroupsComplete ==
  ASSUME NEW topic \in Topic, Complete(topic)
  PROVE  Complete(WithoutGroups(topic))
<1>. DEFINE new == WithoutGroups(topic)
<1>1. /\ new.count = topic.count /\ new.low = topic.low /\ new.high = topic.high
      /\ new.recordsState = topic.recordsState /\ new.groups = topic.groups
      /\ new.groupsState = "READY" => topic.groupsState = "READY"
  BY DEF WithoutGroups, Topic
<1>. QED
  BY <1>1 DEF Complete, OneLoad, LoadedEnds, GroupsNeedRecords, Of

\* Groups count as complete only with records that are: their ends are loaded.
LEMMA WithGroupsComplete ==
  ASSUME NEW topic \in Topic, NEW t \in Topics, Complete(topic)
  PROVE  Complete(WithGroups(topic, t))
<1>. DEFINE new == WithGroups(topic, t)
<1>1. /\ new.count = topic.count /\ new.low = topic.low /\ new.high = topic.high
      /\ new.recordsState = topic.recordsState
      /\ new.groupsState = "READY" => topic.recordsState = "READY"
  BY DEF WithGroups, Topic
<1>2. \A group \in new.groups :
        /\ group.committed \subseteq Of(topic) \cap Partitions
        /\ \A p \in group.committed : group.high[p] = topic.high[p]
  <2>1. \A g \in Groups : Committed(topic, t, g) \subseteq Of(topic) \cap Partitions
    BY MetricsAssumption DEF Committed, Of, Topic, Partitions
  <2>2. new.groups = {[id |-> g, committed |-> Committed(topic, t, g),
                       high |-> [p \in Partitions |->
                                   IF p \in Committed(topic, t, g) THEN topic.high[p] ELSE 0]] :
                        g \in {h \in Described : Committed(topic, t, h) # {}}}
    BY DEF WithGroups, Topic
  <2>3. SUFFICES ASSUME NEW group \in new.groups
                 PROVE  /\ group.committed \subseteq Of(topic) \cap Partitions
                        /\ \A p \in group.committed : group.high[p] = topic.high[p]
    OBVIOUS
  <2>4. PICK g \in Groups :
          group = [id |-> g, committed |-> Committed(topic, t, g),
                   high |-> [p \in Partitions |->
                               IF p \in Committed(topic, t, g) THEN topic.high[p] ELSE 0]]
    BY <2>2 DEF Described
  <2>. QED
    BY <2>1, <2>4
<1>3. LoadedEnds(new)
  <2>. SUFFICES ASSUME new.groupsState = "READY", NEW group \in new.groups,
                       NEW p \in group.committed
                PROVE  group.high[p] > 0
    BY DEF LoadedEnds
  <2>1. p \in Of(topic) /\ group.high[p] = topic.high[p]
    BY <1>2
  <2>2. topic.count > 0
    BY <2>1, MetricsAssumption DEF Of, Topic
  <2>3. PICK n \in 1..MaxRefreshes : topic.high[p] = n
    BY <1>1, <2>1, <2>2 DEF Complete, OneLoad
  <2>. QED
    BY <2>1, <2>3
<1>. QED
  BY <1>1, <1>3 DEF Complete, OneLoad, GroupsNeedRecords, Of
-----------------------------------------------------------------------------
LEMMA InitComplete == Init => IInv
<1>. SUFFICES ASSUME Init PROVE IInv
  OBVIOUS
<1>1. TypeOK
  BY InitType
<1>2. \A t \in Topics : Complete(topics[t])
  BY NewTopicComplete DEF Init
<1>3. \A t \in Topics : \A p \in Partitions : topics[t].high[p] <= refresh
  BY DEF Init, NewTopic, Never
<1>. QED
  BY <1>1, <1>2, <1>3 DEF Init, IInv

\* The ends a step leaves behind are the old ones or of this refresh.
LEMMA HighBounded ==
  /\ \A old \in Topic, count \in 0..MaxPartitions : \A p \in Partitions :
       Preserved(old, NewTopic(count)).high[p] \in {0, old.high[p]}
  /\ \A topic \in Topic : \A low, high : \A p \in Partitions :
       WithOffsets(topic, low, high).high[p] \in {0, refresh, topic.high[p]}
  /\ \A topic \in Topic : WithoutGroups(topic).high = topic.high
  /\ \A topic \in Topic, t \in Topics : WithGroups(topic, t).high = topic.high
<1>1. ASSUME NEW old \in Topic, NEW count \in 0..MaxPartitions, NEW p \in Partitions
      PROVE  Preserved(old, NewTopic(count)).high[p] \in {0, old.high[p]}
  <2>1. NewTopic(count).high[p] = 0
    BY DEF NewTopic, Never
  <2>. QED
    BY <2>1, NewTopicType DEF Preserved, Topic
<1>2. ASSUME NEW topic \in Topic, NEW low, NEW high, NEW p \in Partitions
      PROVE  WithOffsets(topic, low, high).high[p] \in {0, refresh, topic.high[p]}
  BY DEF WithOffsets, Topic
<1>3. ASSUME NEW topic \in Topic, NEW t \in Topics
      PROVE  WithoutGroups(topic).high = topic.high /\ WithGroups(topic, t).high = topic.high
  BY DEF WithoutGroups, WithGroups, Topic
<1>4. ASSUME NEW topic \in Topic PROVE WithoutGroups(topic).high = topic.high
  BY DEF WithoutGroups, Topic
<1>. QED
  BY <1>1, <1>2, <1>3, <1>4

LEMMA NextComplete == IInv /\ [Next]_vars => IInv'
<1>. SUFFICES ASSUME IInv, [Next]_vars PROVE IInv'
  OBVIOUS
<1>1. TypeOK' /\ TypeOK
  BY NextType DEF IInv
<1>2. refresh \in Nat /\ refresh \in Load /\ \A t \in Topics : topics[t] \in Topic
  BY <1>1, MetricsAssumption DEF TypeOK, Load
<1>3. \A t \in Topics, p \in Partitions : topics[t].high[p] \in Nat
  BY <1>2, MetricsAssumption DEF Topic, Load
<1>4. CASE Start
  BY <1>1, <1>2, <1>3, <1>4 DEF Start, IInv
<1>5. CASE MetadataReturns
  <2>1. PICK counts \in [Topics -> 0..MaxPartitions] :
          topics' = [t \in Topics |-> Preserved(topics[t], NewTopic(counts[t]))]
    BY <1>5 DEF MetadataReturns
  <2>2. \A t \in Topics : Complete(topics'[t])
    BY <1>2, <2>1, PreservedComplete DEF IInv
  <2>3. \A t \in Topics : \A p \in Partitions : topics'[t].high[p] <= refresh
    BY <1>2, <1>3, <2>1, HighBounded DEF IInv
  <2>4. \A t \in Topics : Complete(topics[t])'
    BY <2>2 DEF Complete, OneLoad, LoadedEnds, GroupsNeedRecords, Of
  <2>. QED
    BY <1>1, <1>5, <2>3, <2>4 DEF MetadataReturns, IInv
<1>6. CASE OffsetsReturn
  <2>1. PICK low \in [Topics -> SUBSET Partitions], high \in [Topics -> SUBSET Partitions] :
          topics' = [t \in Topics |-> IF topics[t].count = 0 THEN topics[t]
                                      ELSE WithOffsets(topics[t], low[t], high[t])]
    BY <1>6 DEF OffsetsReturn
  <2>2. refresh > 0
    BY <1>6 DEF OffsetsReturn, IInv
  <2>3. \A t \in Topics : Complete(topics'[t])
    BY <1>2, <2>1, <2>2, WithOffsetsComplete DEF IInv
  <2>4. ASSUME NEW t \in Topics, NEW p \in Partitions PROVE topics'[t].high[p] <= refresh
    <3>1. topics'[t].high[p] \in {0, refresh, topics[t].high[p]}
      BY <1>2, <2>1, HighBounded
    <3>. QED
      BY <1>2, <1>3, <3>1 DEF IInv
  <2>5. \A t \in Topics : Complete(topics[t])'
    BY <2>3 DEF Complete, OneLoad, LoadedEnds, GroupsNeedRecords, Of
  <2>. QED
    BY <1>1, <1>6, <2>4, <2>5 DEF OffsetsReturn, IInv
<1>7. CASE ApplyGroups
  <2>1. topics' = [t \in Topics |-> IF topics[t].count = 0 THEN topics[t]
                                    ELSE IF HasErrors THEN WithoutGroups(topics[t])
                                    ELSE WithGroups(topics[t], t)]
    BY <1>7 DEF ApplyGroups
  <2>2. \A t \in Topics : Complete(topics'[t])
    BY <1>2, <2>1, WithoutGroupsComplete, WithGroupsComplete DEF IInv
  <2>3. \A t \in Topics : topics'[t].high = topics[t].high
    BY <1>2, <2>1, HighBounded
  <2>4. \A t \in Topics : Complete(topics[t])'
    BY <2>2 DEF Complete, OneLoad, LoadedEnds, GroupsNeedRecords, Of
  <2>. QED
    BY <1>1, <1>7, <2>3, <2>4 DEF ApplyGroups, IInv
<1>8. CASE GroupsAnswer \/ RefreshFails \/ UNCHANGED vars
  <2>1. topics' = topics /\ refresh' = refresh /\ (stage' # "idle" => stage # "idle")
    BY <1>8 DEF GroupsAnswer, RefreshFails, vars
  <2>. QED
    BY <1>1, <2>1 DEF IInv, Complete, OneLoad, LoadedEnds, GroupsNeedRecords, Of
<1>. QED
  BY <1>4, <1>5, <1>6, <1>7, <1>8 DEF Next

LEMMA InvariantHolds == Spec => []IInv
<1>. QED
  BY InitComplete, NextComplete, PTL DEF Spec

\* Records are counted from one load of all partitions, whichever of the
\* requests for offsets fail and however topics change between refreshes.
THEOREM CountsAreOfOneLoad == Spec => []RecordsFromOneLoad
<1>1. IInv => RecordsFromOneLoad
  BY DEF IInv, Complete, OneLoad, RecordsFromOneLoad
<1>. QED
  BY <1>1, InvariantHolds, PTL

\* No lag is counted from an end that was never loaded, although groups and
\* offsets are loaded by concurrent tasks that fail on their own.
THEOREM LagsAreOfLoadedEnds == Spec => []LagFromLoadedEnds
<1>1. IInv => LagFromLoadedEnds
  BY DEF IInv, Complete, LoadedEnds, LagFromLoadedEnds
<1>. QED
  BY <1>1, InvariantHolds, PTL
-----------------------------------------------------------------------------
\* What MetricsAreKept says of a step, with its primes made parameters.
Kept(old, new) ==
  old.count > 0 /\ new.count = old.count
    => /\ old.recordsState = "READY"
            => /\ new.recordsState = "READY"
               /\ \A p \in Of(old) : new.high[p] >= old.high[p]
       /\ old.groupsState = "READY" => new.groupsState = "READY"

LEMMA PreservedKept ==
  ASSUME NEW old \in Topic, NEW count \in 0..MaxPartitions
  PROVE  Kept(old, Preserved(old, NewTopic(count)))
<1>. DEFINE kept == Preserved(old, NewTopic(count))
<1>. SUFFICES ASSUME old.count > 0, kept.count = old.count
              PROVE  /\ old.recordsState = "READY"
                          => /\ kept.recordsState = "READY"
                             /\ \A p \in Of(old) : kept.high[p] >= old.high[p]
                     /\ old.groupsState = "READY" => kept.groupsState = "READY"
  BY DEF Kept
<1>1. NewTopic(count) \in Topic /\ NewTopic(count).count = count
  BY NewTopicType DEF NewTopic
<1>2. kept.count = count
  BY <1>1 DEF Preserved, Topic
<1>3. ~(old.count = 0 \/ old.count # NewTopic(count).count)
  BY <1>1, <1>2
<1>4. /\ old.recordsState = "READY" => kept.recordsState = "READY" /\ kept.high = old.high
      /\ old.groupsState = "READY" => kept.groupsState = "READY"
  BY <1>1, <1>3 DEF Preserved, Topic
<1>5. \A p \in Of(old) : old.high[p] \in Nat
  BY MetricsAssumption DEF Of, Topic, Load, Partitions
<1>. QED
  BY <1>4, <1>5

LEMMA WithOffsetsKept ==
  ASSUME NEW topic \in Topic, NEW low, NEW high, refresh \in Nat,
         \A p \in Partitions : topic.high[p] <= refresh
  PROVE  Kept(topic, WithOffsets(topic, low, high))
<1>. DEFINE new == WithOffsets(topic, low, high)
<1>1. \A p \in Of(topic) : p \in Partitions /\ topic.high[p] \in Nat
  BY MetricsAssumption DEF Of, Topic, Load, Partitions
<1>2. new.groupsState = topic.groupsState
  BY DEF WithOffsets, Topic
<1>3. topic.recordsState = "READY" => new.recordsState = "READY"
  BY DEF WithOffsets, Topic
<1>4. CASE Of(topic) \subseteq low \cap high
  <2>1. new.high = [p \in Partitions |-> IF p \in Of(topic) THEN refresh ELSE 0]
    BY <1>4 DEF WithOffsets, Topic
  <2>. QED
    BY <1>1, <1>2, <1>3, <2>1 DEF Kept
<1>5. CASE ~(Of(topic) \subseteq low \cap high)
  <2>1. new.high = topic.high
    BY <1>5 DEF WithOffsets, Topic
  <2>. QED
    BY <1>1, <1>2, <1>3, <2>1 DEF Kept
<1>. QED
  BY <1>4, <1>5

LEMMA GroupsKept ==
  ASSUME NEW topic \in Topic, NEW t \in Topics, GroupsNeedRecords(topic)
  PROVE  Kept(topic, WithoutGroups(topic)) /\ Kept(topic, WithGroups(topic, t))
<1>1. \A p \in Of(topic) : topic.high[p] \in Nat
  BY MetricsAssumption DEF Of, Topic, Load, Partitions
<1>2. /\ WithoutGroups(topic).recordsState = topic.recordsState
      /\ WithoutGroups(topic).high = topic.high
      /\ topic.groupsState = "READY" => WithoutGroups(topic).groupsState = "READY"
  BY DEF WithoutGroups, Topic
<1>3. /\ WithGroups(topic, t).recordsState = topic.recordsState
      /\ WithGroups(topic, t).high = topic.high
      /\ topic.recordsState = "READY" => WithGroups(topic, t).groupsState = "READY"
  BY DEF WithGroups, Topic
<1>. QED
  BY <1>1, <1>2, <1>3 DEF Kept, GroupsNeedRecords

LEMMA SameKept ==
  ASSUME NEW topic \in Topic
  PROVE  Kept(topic, topic)
<1>1. \A p \in Of(topic) : topic.high[p] \in Nat
  BY MetricsAssumption DEF Of, Topic, Load, Partitions
<1>. QED
  BY <1>1 DEF Kept

LEMMA StepKept == IInv /\ [Next]_vars => \A t \in Topics : Kept(topics[t], topics'[t])
<1>. SUFFICES ASSUME IInv, [Next]_vars, NEW t \in Topics PROVE Kept(topics[t], topics'[t])
  OBVIOUS
<1>1. topics[t] \in Topic /\ refresh \in Nat /\ GroupsNeedRecords(topics[t])
  BY MetricsAssumption DEF IInv, TypeOK, Load, Complete
<1>2. CASE MetadataReturns
  <2>1. PICK count \in 0..MaxPartitions : topics'[t] = Preserved(topics[t], NewTopic(count))
    BY <1>2 DEF MetadataReturns
  <2>. QED
    BY <1>1, <2>1, PreservedKept
<1>3. CASE OffsetsReturn
  <2>1. PICK low, high : topics'[t] \in {topics[t], WithOffsets(topics[t], low, high)}
    BY <1>3 DEF OffsetsReturn
  <2>2. \A p \in Partitions : topics[t].high[p] <= refresh
    BY DEF IInv
  <2>. QED
    BY <1>1, <2>1, <2>2, SameKept, WithOffsetsKept
<1>4. CASE ApplyGroups
  <2>1. topics'[t] \in {topics[t], WithoutGroups(topics[t]), WithGroups(topics[t], t)}
    BY <1>4 DEF ApplyGroups
  <2>. QED
    BY <1>1, <2>1, SameKept, GroupsKept
<1>5. CASE Start \/ GroupsAnswer \/ RefreshFails \/ UNCHANGED vars
  <2>1. topics'[t] = topics[t]
    BY <1>5 DEF Start, GroupsAnswer, RefreshFails, vars
  <2>. QED
    BY <1>1, <2>1, SameKept
<1>. QED
  BY <1>2, <1>3, <1>4, <1>5 DEF Next

\* Complete metrics are neither lost nor replaced by older ones while a topic
\* keeps its partitions, whatever fails in the refreshes that follow.
THEOREM CompleteMetricsAreKept == Spec => MetricsAreKept
<1>1. IInv /\ [Next]_vars
        => [\A t \in Topics :
              topics[t].count > 0 /\ topics'[t].count = topics[t].count
                => /\ topics[t].recordsState = "READY"
                        => /\ topics'[t].recordsState = "READY"
                           /\ \A p \in Of(topics[t]) : topics'[t].high[p] >= topics[t].high[p]
                   /\ topics[t].groupsState = "READY" => topics'[t].groupsState = "READY"]_vars
  BY StepKept DEF Kept
<1>. QED
  BY <1>1, InvariantHolds, PTL DEF Spec, MetricsAreKept
-----------------------------------------------------------------------------
\* Without errors, every group that is not hidden has answered.
LEMMA AllAnswered ==
  ASSUME TypeOK, ~HasErrors, NEW g \in Groups \ Hidden
  PROVE  groups.offsets[g] = "ok" /\ g \in Described
<1>1. groups.description[g] \in Answer /\ groups.offsets[g] \in Answer
  BY DEF TypeOK, Answers
<1>. QED
  BY <1>1 DEF HasErrors, Hidden, Described, Answer

LEMMA WithGroupsShowsAll ==
  ASSUME TypeOK, ~HasErrors, NEW t \in Topics, NEW topic \in Topic,
         NEW g \in Groups \ Hidden, NEW p \in Of(topic), <<t, p>> \in groups.commits[g]
  PROVE  \E group \in WithGroups(topic, t).groups : group.id = g /\ p \in group.committed
<1>. DEFINE group == [id |-> g, committed |-> Committed(topic, t, g),
                      high |-> [q \in Partitions |->
                                  IF q \in Committed(topic, t, g) THEN topic.high[q] ELSE 0]]
<1>1. g \in Described /\ p \in Committed(topic, t, g)
  BY AllAnswered DEF Committed
<1>2. WithGroups(topic, t).groups =
        {[id |-> h, committed |-> Committed(topic, t, h),
          high |-> [q \in Partitions |->
                      IF q \in Committed(topic, t, h) THEN topic.high[q] ELSE 0]] :
           h \in {h \in Described : Committed(topic, t, h) # {}}}
  BY DEF WithGroups, Topic
<1>3. group \in WithGroups(topic, t).groups
  BY <1>1, <1>2
<1>4. group.id = g /\ p \in group.committed
  BY <1>1
<1>. QED
  BY <1>3, <1>4

LEMMA StepComplete ==
  ASSUME TypeOK, [Next]_vars, NEW t \in Topics,
         topics'[t].groups # topics[t].groups, stage = "groups",
         NEW g \in Groups, NEW p \in Of(topics[t]),
         <<t, p>> \in groups.commits[g], g \notin Hidden
  PROVE  \E group \in topics'[t].groups : group.id = g /\ p \in group.committed
<1>1. topics[t] \in Topic
  BY DEF TypeOK
<1>2. ApplyGroups
  BY DEF Next, Start, MetadataReturns, GroupsAnswer, OffsetsReturn, RefreshFails, vars
<1>3. WithoutGroups(topics[t]).groups = topics[t].groups
  BY <1>1 DEF WithoutGroups, Topic
<1>4. topics'[t] = WithGroups(topics[t], t) /\ ~HasErrors
  BY <1>2, <1>3 DEF ApplyGroups
<1>. QED
  BY <1>1, <1>4, WithGroupsShowsAll

\* A group whose request failed is never simply missing from a list of groups
\* that is shown as complete.
THEOREM NoGroupIsMissing == Spec => GroupsAreComplete
<1>1. TypeOK /\ [Next]_vars
        => [\A t \in Topics :
              topics'[t].groups # topics[t].groups /\ stage = "groups"
                => \A g \in Groups : \A p \in Of(topics[t]) :
                     <<t, p>> \in groups.commits[g] /\ g \notin Hidden
                       => \E group \in topics'[t].groups :
                            group.id = g /\ p \in group.committed]_vars
  BY StepComplete
<1>. QED
  BY <1>1, MetricsTypeCorrect, PTL DEF Spec, GroupsAreComplete
==============================================================================

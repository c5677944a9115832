------------------------ MODULE AdminRefresh_proofs ------------------------
(***************************************************************************)
(* Proofs about AdminRefresh, for every number of generations, mutation    *)
(* workers and screens.  Typing comes first, then the invariant that one   *)
(* refresh runs at a time, then the timer's, then the step simulation of   *)
(* CoalescedRefresh, and last which mutations a refresh follows.           *)
(***************************************************************************)
EXTENDS AdminRefresh, SequenceTheorems, TLAPS

\* The variables of the mutations are always seen one by one.
USE DEF mutationVars

\* The label a started worker gets is one of the labels.
LEMMA NextGenerationType ==
  ASSUME NEW g \in 0..Generations
  PROVE  NextGeneration(g) \in Generation
BY GenerationsAssumption DEF NextGeneration, Generation

\* Every coordinator method returns a coordinator.
LEMMA CoordinatorType ==
  ASSUME NEW c \in Coordinator, NEW reason, NEW g
  PROVE  /\ request(c, reason) \in Coordinator
         /\ complete(c, g) \in Coordinator
         /\ take_pending(c) \in Coordinator
         /\ begin_mutation(c) \in Coordinator
         /\ end_mutation(c) \in Coordinator
         /\ discard_pending(c) \in Coordinator
<1>1. NextGeneration(c.generation) \in 0..Generations
  BY NextGenerationType, GenerationsAssumption DEF Coordinator, Generation
<1>2. request(c, reason) \in Coordinator
  BY <1>1 DEF request, Coordinator
<1>3. QED
  BY <1>2 DEF Coordinator, complete, take_pending, begin_mutation, end_mutation,
              discard_pending

\* A screen stack stays one when a screen is pushed or popped.
LEMMA ScreensType ==
  ASSUME NEW s \in Seq(Screen), NEW kind \in Screen
  PROVE  /\ Append(s, kind) \in Seq(Screen)
         /\ Append(s, kind) # <<>>
         /\ s # <<>> => SubSeq(s, 1, Len(s) - 1) \in Seq(Screen)
<1>1. s # <<>> => Len(s) >= 1
  BY EmptySeq, LenProperties
<1>2. \A i \in 1..(Len(s) - 1) : s[i] \in Screen
  BY ElementOfSeq, LenProperties
<1>3. QED
  BY <1>1, <1>2, AppendProperties, SubSeqProperties, LenProperties

\* What every request leaves behind: typed state, and a worker started if
\* and only if the coordinator accepted.
LEMMA RequestType ==
  ASSUME TypeOK, NEW reason \in RefreshReason, RequestRefresh(reason)
  PROVE  /\ coordinator' \in Coordinator
         /\ refreshes' \in [Generation -> Refresh]
         /\ loading' \in BOOLEAN
<1>1. coordinator' \in Coordinator
  BY CoordinatorType DEF TypeOK, RequestRefresh
<1>2. \A g \in Generation : Started(g) \in [Generation -> Refresh]
  BY DEF Started, TypeOK, Refresh, RefreshStage
<1>3. refreshes' \in [Generation -> Refresh]
  BY <1>2, NextGenerationType DEF RequestRefresh, TypeOK, Coordinator
<1>4. QED
  BY <1>1, <1>3 DEF RequestRefresh, TypeOK

\* The same for the refresh worker's finally clause.
LEMMA FinishRefreshType ==
  ASSUME TypeOK, NEW g \in Generation, FinishRefresh(g)
  PROVE  /\ coordinator' \in Coordinator
         /\ refreshes' \in [Generation -> Refresh]
         /\ loading' \in BOOLEAN
         /\ completedPosted' \in BOOLEAN
         /\ pendingCallbacks' \in Nat
<1>1. complete(coordinator, g) \in Coordinator
  BY CoordinatorType DEF TypeOK
<1>2. take_pending(complete(coordinator, g)) \in Coordinator
  BY <1>1, CoordinatorType
<1>3. refreshes' \in [Generation -> Refresh]
  BY DEF FinishRefresh, TypeOK, NoRefresh, Refresh, RefreshStage
<1>4. coordinator' \in Coordinator /\ pendingCallbacks' \in Nat
  BY <1>2 DEF FinishRefresh, TypeOK
<1>5. loading' \in BOOLEAN /\ completedPosted' \in BOOLEAN
  <2>1. CASE is_current(coordinator, g)
    BY <2>1 DEF FinishRefresh
  <2>2. CASE ~is_current(coordinator, g)
    BY <2>2 DEF FinishRefresh, TypeOK
  <2>3. QED
    BY <2>1, <2>2
<1>6. QED
  BY <1>3, <1>4, <1>5

\* ... and for the finally clause of a mutation.
LEMMA FinishMutationType ==
  ASSUME TypeOK, NEW m \in Mutations, NEW changed \in BOOLEAN,
         FinishMutation(m, changed), lateCalls' \in Nat
  PROVE  TypeOK'
<1>1. end_mutation(coordinator) \in Coordinator
  BY CoordinatorType DEF TypeOK
<1>2. /\ discard_pending(end_mutation(coordinator)) \in Coordinator
      /\ take_pending(end_mutation(coordinator)) \in Coordinator
  BY <1>1, CoordinatorType
<1>3. coordinator' \in Coordinator
  BY <1>2 DEF FinishMutation
<1>4. mutations' \in [Mutations -> Mutation]
  BY DEF FinishMutation, TypeOK, NoMutation, Mutation, MutationStage
<1>5. pendingCallbacks' \in Nat /\ mutationTimers' \in Nat
  BY DEF FinishMutation, TypeOK
<1>6. QED
  BY <1>3, <1>4, <1>5 DEF FinishMutation, TypeOK, screenVars

LEMMA InitType == Init => TypeOK
<1>1. NewCoordinator \in Coordinator
  BY GenerationsAssumption DEF NewCoordinator, Coordinator
<1>2. request(NewCoordinator, "INITIAL") \in Coordinator
  BY <1>1, CoordinatorType
<1> SUFFICES ASSUME Init PROVE TypeOK
  OBVIOUS
<1>3. refreshes \in [Generation -> Refresh]
  BY DEF Init, NoRefresh, Refresh, RefreshStage
<1>4. mutations \in [Mutations -> Mutation]
  BY DEF Init, NoMutation, Mutation, MutationStage
<1>5. detailsLoads \in [LoadWorker -> Load]
  BY DEF Init, NoLoad, Load
<1>6. screens \in Seq(Screen)
  BY DEF Init
<1>7. QED
  BY <1>2, <1>3, <1>4, <1>5, <1>6 DEF Init, TypeOK, Listing

LEMMA RefreshStepType ==
  ASSUME TypeOK, NEW g \in Generation, RefreshStep(g)
  PROVE  TypeOK'
<1>1. CASE BrokerAnswers(g)
  BY <1>1 DEF BrokerAnswers, TypeOK, Refresh, RefreshStage, listVars, screenVars, queueVars
<1>2. CASE ShowMetadata(g)
  <2>1. CASE is_current(coordinator, g)
    <3>1. refreshes' \in [Generation -> Refresh]
      BY <1>2, <2>1 DEF ShowMetadata, TypeOK, Refresh, RefreshStage
    <3>2. listed' \in Listing /\ missed' \in BOOLEAN
      <4>1. listed' \in {"none", "topics"} \cup {listed} /\ listed \in Listing
        BY <1>2, <2>1 DEF ShowMetadata, TypeOK
      <4>2. listed' \in Listing
        BY <4>1 DEF Listing
      <4>3. refreshes[g].fresh \in BOOLEAN /\ missed \in BOOLEAN
        BY DEF TypeOK, Refresh
      <4>4. QED
        BY <1>2, <2>1, <4>2, <4>3 DEF ShowMetadata
    <3>3. QED
      BY <1>2, <2>1, <3>1, <3>2 DEF ShowMetadata, TypeOK, screenVars
  <2>2. CASE ~is_current(coordinator, g)
    <3>1. FinishRefresh(g)
      BY <1>2, <2>2 DEF ShowMetadata
    <3>2. QED
      BY <1>2, <2>2, <3>1, FinishRefreshType DEF ShowMetadata, TypeOK, Listing, screenVars
  <2>3. QED
    BY <2>1, <2>2
<1>3. CASE OffsetsLoaded(g)
  <2>1. CASE is_current(coordinator, g)
    <3>1. refreshes' \in [Generation -> Refresh]
      BY <1>3, <2>1 DEF OffsetsLoaded, TypeOK, Refresh, RefreshStage
    <3>2. QED
      BY <1>3, <2>1, <3>1 DEF OffsetsLoaded, TypeOK, screenVars
  <2>2. CASE ~is_current(coordinator, g)
    <3>1. FinishRefresh(g)
      BY <1>3, <2>2 DEF OffsetsLoaded
    <3>2. QED
      BY <1>3, <3>1, FinishRefreshType DEF OffsetsLoaded, TypeOK, screenVars
  <2>3. QED
    BY <2>1, <2>2
<1>4. CASE MetadataFails(g)
  <2>1. FinishRefresh(g)
    BY <1>4 DEF MetadataFails
  <2>2. QED
    BY <1>4, <2>1, FinishRefreshType DEF MetadataFails, TypeOK, screenVars
<1>5. CASE GroupsLoaded(g)
  <2>1. FinishRefresh(g)
    BY <1>5 DEF GroupsLoaded
  <2>2. QED
    BY <1>5, <2>1, FinishRefreshType DEF GroupsLoaded, TypeOK, Listing, screenVars
<1>6. QED
  BY <1>1, <1>2, <1>3, <1>4, <1>5 DEF RefreshStep

\* What the cluster executes only makes what was read out of date.
LEMMA ClusterChangesType ==
  ASSUME TypeOK, ClusterChanges,
         mutations' \in [Mutations -> Mutation], lateCalls' \in Nat
  PROVE  TypeOK'
<1>1. refreshes' \in [Generation -> Refresh]
  BY DEF ClusterChanges, TypeOK, Refresh
<1>2. QED
  BY <1>1 DEF ClusterChanges, TypeOK, screenVars, queueVars

LEMMA LateCallType ==
  ASSUME TypeOK, LateCallApplies
  PROVE  TypeOK'
<1>1. mutations' \in [Mutations -> Mutation] /\ lateCalls' \in Nat /\ ClusterChanges
  BY DEF LateCallApplies, TypeOK
<1>2. QED
  BY <1>1, ClusterChangesType

LEMMA CallErrsType ==
  ASSUME TypeOK, NEW m \in Mutations, CallErrs(m)
  PROVE  lateCalls' \in Nat
BY DEF CallErrs, TypeOK

LEMMA MutationStepType ==
  ASSUME TypeOK, NEW m \in Mutations, MutationStep(m)
  PROVE  TypeOK'
<1> USE DEF refreshVars, listVars, screenVars, queueVars
<1>1. CASE ClusterApplies(m)
  <2>1. mutations' \in [Mutations -> Mutation]
    BY <1>1 DEF ClusterApplies, TypeOK, Mutation
  <2>2. lateCalls' \in Nat /\ ClusterChanges
    BY <1>1 DEF ClusterApplies, TypeOK
  <2>3. QED
    BY <2>1, <2>2, ClusterChangesType
<1>2. CASE FirstCallReturns(m)
  BY <1>2 DEF FirstCallReturns, TypeOK, Mutation
<1>3. CASE LastCallReturns(m)
  <2>1. FinishMutation(m, TRUE) /\ lateCalls' \in Nat
    BY <1>3 DEF LastCallReturns, TypeOK
  <2>2. QED
    BY <2>1, FinishMutationType
<1>4. mutations[m].changed \in BOOLEAN
  BY DEF TypeOK, Mutation
<1>5. CASE CallFails(m)
  BY <1>4, <1>5, FinishMutationType, CallErrsType DEF CallFails
<1>6. CASE SupersededCallReturns(m)
  BY <1>6 DEF SupersededCallReturns, TypeOK, Mutation, MutationStage
<1>7. CASE SupersededMutationEnds(m)
  BY <1>4, <1>7, FinishMutationType, CallErrsType DEF SupersededMutationEnds
<1>8. QED
  BY <1>1, <1>2, <1>3, <1>5, <1>6, <1>7 DEF MutationStep

LEMMA LoadStepType ==
  ASSUME TypeOK, NEW w \in LoadWorker, LoadStep(w)
  PROVE  TypeOK'
<1> USE DEF refreshVars, screenVars, queueVars
<1>1. NoLoad \in Load
  BY DEF NoLoad, Load
<1>2. CASE LoadingDelayPasses(w)
  <2>1. [detailsLoads[w] EXCEPT !.timer = FALSE] \in Load
    <3>1. detailsLoads[w] \in Load /\ detailsLoads[w].timer
      BY <1>2 DEF LoadingDelayPasses, TypeOK
    <3>2. detailsLoads[w] # NoLoad
      BY <3>1 DEF NoLoad
    <3>3. detailsLoads[w] \in [screen : {"form", "details"}, timer : BOOLEAN]
      BY <3>1, <3>2 DEF Load
    <3>4. QED
      BY <3>3 DEF Load
  <2>2. detailsLoads' \in [LoadWorker -> Load]
    BY <1>2, <2>1 DEF LoadingDelayPasses, TypeOK
  <2>3. QED
    BY <1>2, <2>2 DEF LoadingDelayPasses, TypeOK
<1>3. CASE DetailsLoadFails(w)
  <2>1. detailsLoads' \in [LoadWorker -> Load]
    BY <1>1, <1>3 DEF DetailsLoadFails, TypeOK
  <2>2. QED
    BY <1>3, <2>1 DEF DetailsLoadFails, TypeOK
<1>4. QED
  BY <1>2, <1>3 DEF LoadStep

LEMMA PushScreenType ==
  ASSUME TypeOK, NEW kind \in Screen, PushScreen(kind)
  PROVE  /\ screens' \in Seq(Screen)
         /\ periodicTimer' \in {"off", "paused", "running"}
BY ScreensType DEF PushScreen, TypeOK

LEMMA PopScreenType ==
  ASSUME TypeOK, PopScreen
  PROVE  screens' \in Seq(Screen) /\ resumeTimers' \in Nat
<1>1. "form" \in Screen
  BY DEF Screen
<1>2. QED
  BY <1>1, ScreensType DEF PopScreen, TypeOK, OnRootScreen

LEMMA LoopStepType ==
  ASSUME TypeOK, LoopStep
  PROVE  TypeOK'
<1> USE DEF refreshVars, listVars, screenVars, queueVars
<1>1. CASE RunPendingCallback
  <2>1. RequestRefresh("PENDING")
    BY <1>1 DEF RunPendingCallback
  <2>2. QED
    BY <1>1, <2>1, RequestType DEF RunPendingCallback, TypeOK, RefreshReason
<1>2. CASE MutationTimerFires
  <2>1. RequestRefresh("MUTATION")
    BY <1>2 DEF MutationTimerFires
  <2>2. QED
    BY <1>2, <2>1, RequestType DEF MutationTimerFires, TypeOK, RefreshReason
<1>3. CASE ResumeAutoRefresh
  <2>1. CASE AutoRefresh /\ OnRootScreen
    <3>1. RequestRefresh("RESUME")
      BY <1>3, <2>1 DEF ResumeAutoRefresh
    <3>2. QED
      BY <1>3, <2>1, <3>1, RequestType DEF ResumeAutoRefresh, TypeOK, RefreshReason
  <2>2. CASE ~(AutoRefresh /\ OnRootScreen)
    BY <1>3, <2>2 DEF ResumeAutoRefresh, TypeOK
  <2>3. QED
    BY <2>1, <2>2
<1>4. CASE PeriodicTick
  <2>1. RequestRefresh("PERIODIC")
    BY <1>4 DEF PeriodicTick
  <2>2. QED
    BY <1>4, <2>1, RequestType DEF PeriodicTick, TypeOK, RefreshReason
<1>5. CASE HandleRefreshCompleted
  BY <1>5 DEF HandleRefreshCompleted, TypeOK
<1>6. CASE DetailsLoaded
  <2>1. detailsLoads["current"].screen \in Screen
    BY <1>6 DEF DetailsLoaded, TypeOK, LoadWorker, Load, NoLoad, Screen
  <2>2. /\ screens' \in Seq(Screen)
        /\ periodicTimer' \in {"off", "paused", "running"}
    BY <1>6, <2>1, PushScreenType DEF DetailsLoaded
  <2>3. detailsLoads' \in [LoadWorker -> Load]
    <3>1. NoLoad \in Load
      BY DEF NoLoad, Load
    <3>2. QED
      BY <1>6, <3>1 DEF DetailsLoaded, TypeOK
  <2>4. QED
    BY <1>6, <2>2, <2>3 DEF DetailsLoaded, TypeOK
<1>7. QED
  BY <1>1, <1>2, <1>3, <1>4, <1>5, <1>6 DEF LoopStep

LEMMA UserStepType ==
  ASSUME TypeOK, UserStep
  PROVE  TypeOK'
<1> USE DEF refreshVars, listVars, screenVars, queueVars
<1>1. CASE OpenOther
  BY <1>1, PushScreenType DEF OpenOther, TypeOK, Screen
<1>2. CASE OpenForm
  BY <1>2, PushScreenType DEF OpenForm, TypeOK, Screen
<1>3. CASE CloseScreen
  BY <1>3, PopScreenType DEF CloseScreen, TypeOK, PopScreen
<1>8. CASE OpenFilter
  BY <1>8, PushScreenType DEF OpenFilter, TypeOK, Screen
<1>9. CASE CloseFilter
  <2>1. listed' \in Listing
    BY <1>9 DEF CloseFilter, TypeOK, Listing
  <2>2. screens' \in Seq(Screen) /\ resumeTimers' \in Nat
    BY <1>9, PopScreenType DEF CloseFilter
  <2>3. QED
    BY <1>9, <2>1, <2>2 DEF CloseFilter, TypeOK, PopScreen
<1>4. CASE ManualRefresh
  <2>1. RequestRefresh("MANUAL")
    BY <1>4 DEF ManualRefresh
  <2>2. QED
    BY <1>4, <2>1, RequestType DEF ManualRefresh, TypeOK, RefreshReason
<1>5. ASSUME NEW kind \in ScreensUsed \cap {"form", "details"}, LoadDetails(kind)
      PROVE  TypeOK'
  <2>1. kind \in {"form", "details"}
    BY AdminRefreshAssumption
  <2>2. detailsLoads' \in [LoadWorker -> Load]
    BY <1>5, <2>1 DEF LoadDetails, TypeOK, LoadWorker, Load
  <2>3. QED
    BY <1>5, <2>2 DEF LoadDetails, TypeOK
<1>6. ASSUME NEW m \in Mutations, NEW calls \in 1..MaxCalls, BeginMutation(m, calls)
      PROVE  TypeOK'
  <2>1. PopScreen
    BY <1>6 DEF BeginMutation
  <2>2. coordinator' \in Coordinator
    BY <1>6, CoordinatorType DEF BeginMutation, TypeOK
  <2>3. mutations' \in [Mutations -> Mutation]
    <3>1. [stage |-> "calling", left |-> calls - 1, applied |-> FALSE,
           succeeded |-> FALSE, changed |-> FALSE] \in Mutation
      <4>1. calls - 1 \in 0..1
        BY <1>6, AdminRefreshAssumption
      <4>2. QED
        BY <4>1 DEF Mutation, MutationStage
    <3>2. \A n \in Mutations :
            [mutations[n] EXCEPT !.stage = "superseded"] \in Mutation
      BY DEF TypeOK, Mutation, MutationStage
    <3>3. QED
      BY <1>6, <3>1, <3>2 DEF BeginMutation, TypeOK
  <2>4. QED
    BY <1>6, <2>1, <2>2, <2>3, PopScreenType DEF BeginMutation, TypeOK, PopScreen
<1>7. QED
  BY <1>1, <1>2, <1>3, <1>4, <1>5, <1>6, <1>8, <1>9 DEF UserStep

\* The state always has the shape the code gives it: no queue counter goes
\* below zero, no worker is in a stage the code has not.
THEOREM TypeCorrect == Spec => []TypeOK
<1>1. TypeOK /\ [Next]_vars => TypeOK'
  <2> SUFFICES ASSUME TypeOK, [Next]_vars
               PROVE  TypeOK'
    OBVIOUS
  <2>1. CASE UNCHANGED vars
    BY <2>1 DEF vars, refreshVars, listVars, screenVars, queueVars, TypeOK
  <2>2. CASE Next
    BY <2>2, RefreshStepType, MutationStepType, LateCallType, LoadStepType, LoopStepType,
       UserStepType DEF Next
  <2>3. QED
    BY <2>1, <2>2
<1>2. QED
  BY InitType, <1>1, PTL DEF Spec
-----------------------------------------------------------------------------
\* SingleRefresh with the label of an active coordinator added: what a step
\* needs to know to preserve it.
OneRefresh ==
  /\ SingleRefresh
  /\ coordinator.active => coordinator.generation \in Generation

IInv == TypeOK /\ OneRefresh

\* A step that starts and ends no worker and leaves the coordinator's claim
\* alone preserves the invariant.
LEMMA OneRefreshFrame ==
  ASSUME OneRefresh,
         coordinator'.active = coordinator.active,
         coordinator'.generation = coordinator.generation,
         \A g \in Generation : Running(g)' <=> Running(g)
  PROVE  OneRefresh'
BY DEF OneRefresh, SingleRefresh, is_current

\* A request starts a worker only when none runs, and then only that one.
LEMMA RequestOneRefresh ==
  ASSUME IInv, NEW reason, RequestRefresh(reason)
  PROVE  OneRefresh'
<1>1. CASE Accepts(coordinator)
  <2> DEFINE new == NextGeneration(coordinator.generation)
  <2>1. new \in Generation
    BY NextGenerationType DEF IInv, TypeOK, Coordinator
  <2>2. \A g \in Generation : ~Running(g)
    BY <1>1 DEF IInv, OneRefresh, SingleRefresh, is_current, Accepts
  <2>3. refreshes' = Started(new)
    BY <1>1 DEF RequestRefresh
  <2>4. \A g \in Generation : Running(g)' <=> g = new
    BY <2>1, <2>2, <2>3 DEF Started, Running, IInv, TypeOK
  <2>5. coordinator'.active = TRUE /\ coordinator'.generation = new
    BY <1>1 DEF RequestRefresh, request, IInv, TypeOK, Coordinator
  <2>6. QED
    BY <2>1, <2>4, <2>5 DEF OneRefresh, SingleRefresh, is_current
<1>2. CASE ~Accepts(coordinator)
  <2>1. /\ coordinator'.active = coordinator.active
        /\ coordinator'.generation = coordinator.generation
    BY <1>2 DEF RequestRefresh, request, IInv, TypeOK, Coordinator
  <2>2. \A g \in Generation : Running(g)' <=> Running(g)
    BY <1>2 DEF RequestRefresh, Running
  <2>3. QED
    BY <2>1, <2>2, OneRefreshFrame DEF IInv
<1>3. QED
  BY <1>1, <1>2

\* When the running worker ends, none runs and the coordinator knows it.
LEMMA FinishOneRefresh ==
  ASSUME IInv, NEW g \in Generation, Running(g), FinishRefresh(g)
  PROVE  /\ is_current(coordinator, g)
         /\ ~coordinator'.active
         /\ OneRefresh'
<1>1. is_current(coordinator, g)
  BY DEF IInv, OneRefresh, SingleRefresh
<1>2. \A h \in Generation : ~Running(h)'
  BY <1>1 DEF IInv, TypeOK, OneRefresh, SingleRefresh, is_current, FinishRefresh,
              NoRefresh, Running
<1>3. ~complete(coordinator, g).active
  BY <1>1 DEF complete, IInv, TypeOK, Coordinator
<1>4. ~coordinator'.active
  BY <1>1, <1>3, CoordinatorType DEF FinishRefresh, take_pending, IInv, TypeOK, Coordinator
<1>5. QED
  BY <1>1, <1>2, <1>4 DEF OneRefresh, SingleRefresh

LEMMA RefreshStepOneRefresh ==
  ASSUME IInv, NEW g \in Generation, RefreshStep(g)
  PROVE  OneRefresh'
<1>1. CASE BrokerAnswers(g)
  <2>1. \A h \in Generation : Running(h)' <=> Running(h)
    BY <1>1 DEF BrokerAnswers, Running, IInv, TypeOK
  <2>2. QED
    BY <1>1, <2>1, OneRefreshFrame DEF BrokerAnswers, IInv
<1>2. CASE FinishRefresh(g) /\ Running(g)
  BY <1>2, FinishOneRefresh
<1>3. ASSUME NEW stage \in {"offsets", "groups"}, Running(g), UNCHANGED coordinator,
             refreshes' = [refreshes EXCEPT ![g].stage = stage]
      PROVE  OneRefresh'
  <2>1. \A h \in Generation : Running(h)' <=> Running(h)
    BY <1>3 DEF Running, IInv, TypeOK, Refresh
  <2>2. QED
    BY <1>3, <2>1, OneRefreshFrame DEF IInv
<1>4. CASE ShowMetadata(g)
  BY <1>2, <1>3, <1>4 DEF ShowMetadata, Running
<1>5. CASE OffsetsLoaded(g)
  BY <1>2, <1>3, <1>5 DEF OffsetsLoaded, Running
<1>6. CASE MetadataFails(g)
  BY <1>2, <1>6 DEF MetadataFails, Running
<1>7. CASE GroupsLoaded(g)
  BY <1>2, <1>7 DEF GroupsLoaded, Running
<1>8. QED
  BY <1>1, <1>4, <1>5, <1>6, <1>7 DEF RefreshStep

\* Ending a mutation touches the coordinator's mutation and pending bits only.
LEMMA FinishMutationFrame ==
  ASSUME IInv, NEW m \in Mutations, NEW changed \in BOOLEAN,
         FinishMutation(m, changed)
  PROVE  /\ coordinator'.active = coordinator.active
         /\ coordinator'.generation = coordinator.generation
         /\ refreshes' = refreshes
BY DEF FinishMutation, discard_pending, take_pending, end_mutation, IInv, TypeOK,
       Coordinator

LEMMA ClusterChangesOneRefresh ==
  ASSUME IInv, ClusterChanges
  PROVE  OneRefresh'
<1>1. \A g \in Generation : Running(g)' <=> Running(g)
  BY DEF ClusterChanges, Running, IInv, TypeOK, Refresh
<1>2. QED
  BY <1>1, OneRefreshFrame DEF ClusterChanges, IInv

LEMMA MutationStepOneRefresh ==
  ASSUME IInv, NEW m \in Mutations, MutationStep(m)
  PROVE  OneRefresh'
<1>1. CASE ClusterApplies(m)
  BY <1>1, ClusterChangesOneRefresh DEF ClusterApplies
<1>2. mutations[m].changed \in BOOLEAN
  BY DEF IInv, TypeOK, Mutation
<1>3. ASSUME NEW changed \in BOOLEAN, FinishMutation(m, changed)
      PROVE  OneRefresh'
  <2>1. /\ coordinator'.active = coordinator.active
        /\ coordinator'.generation = coordinator.generation
        /\ refreshes' = refreshes
    BY <1>3, FinishMutationFrame
  <2>2. QED
    BY <2>1, OneRefreshFrame DEF IInv, Running
<1>4. CASE FirstCallReturns(m) \/ SupersededCallReturns(m)
  BY <1>4, OneRefreshFrame DEF FirstCallReturns, SupersededCallReturns, refreshVars,
     IInv, Running
<1>5. QED
  BY <1>1, <1>2, <1>3, <1>4 DEF MutationStep, LastCallReturns, CallFails,
     SupersededMutationEnds

LEMMA BeginMutationFrame ==
  ASSUME IInv, NEW m \in Mutations, NEW calls \in 1..MaxCalls, BeginMutation(m, calls)
  PROVE  /\ coordinator'.active = coordinator.active
         /\ coordinator'.generation = coordinator.generation
         /\ coordinator'.pending = coordinator.pending
         /\ refreshes' = refreshes
BY DEF BeginMutation, begin_mutation, IInv, TypeOK, Coordinator

\* The inductive invariant holds.
LEMMA InvariantsHold == Spec => []IInv
<1>1. Init => OneRefresh
  <2> SUFFICES ASSUME Init PROVE OneRefresh
    OBVIOUS
  <2>1. coordinator.active = TRUE /\ coordinator.generation = 1
    BY GenerationsAssumption
       DEF Init, NewCoordinator, request, Accepts, NextGeneration
  <2>2. \A g \in Generation : Running(g) <=> g = 1
    BY DEF Init, Running, NoRefresh
  <2>3. 1 \in Generation
    BY GenerationsAssumption DEF Generation
  <2>4. QED
    BY <2>1, <2>2, <2>3 DEF OneRefresh, SingleRefresh, is_current
<1>2. TypeOK /\ OneRefresh /\ [Next]_vars => OneRefresh'
  <2> SUFFICES ASSUME IInv, [Next]_vars
               PROVE  OneRefresh'
    BY DEF IInv
  <2>1. ASSUME UNCHANGED refreshVars
        PROVE  OneRefresh'
    BY <2>1, OneRefreshFrame DEF refreshVars, IInv, Running
  <2>2. CASE UNCHANGED vars
    BY <2>1, <2>2 DEF vars, refreshVars
  <2>3. ASSUME NEW w \in LoadWorker, LoadStep(w)
        PROVE  OneRefresh'
    BY <2>1, <2>3 DEF LoadStep, LoadingDelayPasses, DetailsLoadFails
  <2>4. CASE LoopStep
    <3>1. CASE HandleRefreshCompleted \/ DetailsLoaded
      BY <2>1, <3>1 DEF HandleRefreshCompleted, DetailsLoaded
    <3>2. CASE RunPendingCallback \/ MutationTimerFires \/ PeriodicTick
      BY <3>2, RequestOneRefresh DEF RunPendingCallback, MutationTimerFires, PeriodicTick
    <3>3. CASE ResumeAutoRefresh
      BY <2>1, <3>3, RequestOneRefresh DEF ResumeAutoRefresh, refreshVars
    <3>4. QED
      BY <2>4, <3>1, <3>2, <3>3 DEF LoopStep
  <2>5. CASE UserStep
    <3>1. CASE OpenOther \/ OpenFilter \/ OpenForm \/ CloseScreen \/ CloseFilter
      BY <2>1, <3>1 DEF OpenOther, OpenFilter, OpenForm, CloseScreen, CloseFilter
    <3>2. CASE ManualRefresh
      BY <3>2, RequestOneRefresh DEF ManualRefresh
    <3>3. ASSUME NEW kind, LoadDetails(kind)
          PROVE  OneRefresh'
      BY <2>1, <3>3 DEF LoadDetails
    <3>4. ASSUME NEW m \in Mutations, NEW calls \in 1..MaxCalls, BeginMutation(m, calls)
          PROVE  OneRefresh'
      BY <3>4, BeginMutationFrame, OneRefreshFrame DEF IInv, Running
    <3>5. QED
      BY <2>5, <3>1, <3>2, <3>3, <3>4 DEF UserStep
  <2>6. CASE LateCallApplies
    BY <2>6, ClusterChangesOneRefresh DEF LateCallApplies
  <2>7. QED
    BY <2>2, <2>3, <2>4, <2>5, <2>6, RefreshStepOneRefresh, MutationStepOneRefresh DEF Next
<1>3. QED
  BY <1>1, <1>2, TypeCorrect, PTL DEF Spec, IInv

\* Refreshes never overlap, and an active coordinator has a running worker.
THEOREM OneRefreshAtATime == Spec => []SingleRefresh
<1>1. IInv => SingleRefresh
  BY DEF IInv, OneRefresh
<1>2. QED
  BY <1>1, InvariantsHold, PTL
-----------------------------------------------------------------------------
\* The periodic timer only runs while the topic list is the screen on top: a
\* completion handled or a resume timer firing above another screen leaves
\* it paused.
THEOREM TimerOnRoot == Spec => []TimerRunsOnRootOnly
<1>1. Init => TimerRunsOnRootOnly
  BY DEF Init, TimerRunsOnRootOnly
<1>2. TypeOK /\ TimerRunsOnRootOnly /\ [Next]_vars => TimerRunsOnRootOnly'
  <2> SUFFICES ASSUME TypeOK, TimerRunsOnRootOnly, [Next]_vars
               PROVE  TimerRunsOnRootOnly'
    OBVIOUS
  <2> USE DEF TimerRunsOnRootOnly, OnRootScreen
  <2>1. ASSUME UNCHANGED screenVars
        PROVE  TimerRunsOnRootOnly'
    BY <2>1 DEF screenVars
  <2>2. ASSUME NEW kind, PushScreen(kind)
        PROVE  TimerRunsOnRootOnly'
    BY <2>2 DEF PushScreen
  <2>3. ASSUME PopScreen
        PROVE  TimerRunsOnRootOnly'
    BY <2>3 DEF PopScreen
  <2>4. CASE UNCHANGED vars
    BY <2>1, <2>4 DEF vars
  <2>5. ASSUME NEW g \in Generation, RefreshStep(g)
        PROVE  TimerRunsOnRootOnly'
    BY <2>1, <2>5 DEF RefreshStep, BrokerAnswers, ShowMetadata, MetadataFails,
       OffsetsLoaded, GroupsLoaded
  <2>6. ASSUME NEW m \in Mutations, MutationStep(m)
        PROVE  TimerRunsOnRootOnly'
    BY <2>1, <2>6 DEF MutationStep, ClusterApplies, ClusterChanges, FirstCallReturns,
       LastCallReturns, CallFails, SupersededCallReturns, SupersededMutationEnds, FinishMutation
  <2>7. ASSUME NEW w \in LoadWorker, LoadStep(w)
        PROVE  TimerRunsOnRootOnly'
    BY <2>1, <2>7 DEF LoadStep, LoadingDelayPasses, DetailsLoadFails
  <2>8. CASE LoopStep
    <3>1. CASE RunPendingCallback \/ MutationTimerFires \/ PeriodicTick
      BY <2>1, <3>1 DEF RunPendingCallback, MutationTimerFires, PeriodicTick
    <3>2. CASE ResumeAutoRefresh
      BY <3>2 DEF ResumeAutoRefresh
    <3>3. CASE HandleRefreshCompleted
      BY <3>3 DEF HandleRefreshCompleted
    <3>4. CASE DetailsLoaded
      BY <2>2, <3>4 DEF DetailsLoaded
    <3>5. QED
      BY <2>8, <3>1, <3>2, <3>3, <3>4 DEF LoopStep
  <2>9. CASE UserStep
    <3>1. CASE OpenOther \/ OpenFilter \/ OpenForm
      BY <2>2, <3>1 DEF OpenOther, OpenFilter, OpenForm
    <3>2. CASE CloseScreen \/ CloseFilter
      BY <2>3, <3>2 DEF CloseScreen, CloseFilter
    <3>3. CASE ManualRefresh
      BY <2>1, <3>3 DEF ManualRefresh
    <3>4. ASSUME NEW kind, LoadDetails(kind)
          PROVE  TimerRunsOnRootOnly'
      BY <2>1, <3>4 DEF LoadDetails
    <3>5. ASSUME NEW m \in Mutations, NEW calls \in 1..MaxCalls, BeginMutation(m, calls)
          PROVE  TimerRunsOnRootOnly'
      BY <2>3, <3>5 DEF BeginMutation
    <3>6. QED
      BY <2>9, <3>1, <3>2, <3>3, <3>4, <3>5 DEF UserStep
  <2>10. CASE LateCallApplies
    BY <2>1, <2>10 DEF LateCallApplies, ClusterChanges
  <2>11. QED
    BY <2>4, <2>5, <2>6, <2>7, <2>8, <2>9, <2>10 DEF Next
<1>3. QED
  BY <1>1, <1>2, TypeCorrect, PTL DEF Spec
-----------------------------------------------------------------------------
(* The list implements CoalescedRefresh: the step simulation.              *)

AbstractStep == [Coalesced!Next]_<<RefreshRuns, RefreshOwed>>

\* What the mapping looks at: a step that leaves it alone is a stutter.
LEMMA StutterSimulated ==
  ASSUME coordinator'.active = coordinator.active,
         coordinator'.pending = coordinator.pending,
         pendingCallbacks' = pendingCallbacks,
         mutationTimers' = mutationTimers
  PROVE  AbstractStep
BY DEF AbstractStep, RefreshRuns, RefreshOwed

\* A refused request is remembered, an accepted one starts a refresh; the
\* callback or timer that made it is spent in the same step.
LEMMA RequestSimulated ==
  ASSUME TypeOK, NEW reason, RequestRefresh(reason),
         pendingCallbacks' \in Nat, pendingCallbacks' <= pendingCallbacks,
         mutationTimers' \in Nat, mutationTimers' <= mutationTimers,
         reason = "PERIODIC" => /\ pendingCallbacks' = pendingCallbacks
                                /\ mutationTimers' = mutationTimers
  PROVE  AbstractStep
<1> USE DEF TypeOK, Coordinator
<1>1. CASE Accepts(coordinator)
  <2>1. coordinator.active = FALSE /\ coordinator'.active = TRUE
    BY <1>1, CoordinatorType DEF RequestRefresh, request, Accepts
  <2>2. coordinator'.pending = coordinator.pending
    BY <1>1 DEF RequestRefresh, request
  <2>3. RefreshOwed' => RefreshOwed
    BY <2>2 DEF RefreshOwed
  <2>4. RefreshOwed \in BOOLEAN /\ RefreshOwed' \in BOOLEAN
    BY <2>2 DEF RefreshOwed
  <2>5. RefreshOwed' \in {RefreshOwed, FALSE}
    BY <2>3, <2>4
  <2>6. QED
    BY <2>1, <2>5 DEF AbstractStep, Coalesced!Next, Coalesced!Start, RefreshRuns
<1>2. CASE ~Accepts(coordinator) /\ reason # "PERIODIC"
  <2>1. coordinator'.active = coordinator.active /\ coordinator'.pending = TRUE
    BY <1>2 DEF RequestRefresh, request
  <2>2. QED
    BY <2>1 DEF AbstractStep, Coalesced!Next, Coalesced!Ask, RefreshRuns, RefreshOwed
<1>3. CASE ~Accepts(coordinator) /\ reason = "PERIODIC"
  <2>1. /\ coordinator'.active = coordinator.active
        /\ coordinator'.pending = coordinator.pending
    BY <1>3 DEF RequestRefresh, request
  <2>2. QED
    BY <1>3, <2>1, StutterSimulated
<1>4. QED
  BY <1>1, <1>2, <1>3

\* The finally clause of the one running worker is the abstract Finish: what
\* was pending is owed as a queued callback from here on.
LEMMA FinishRefreshSimulated ==
  ASSUME IInv, NEW g \in Generation, Running(g), FinishRefresh(g),
         UNCHANGED mutationTimers
  PROVE  AbstractStep
<1> DEFINE done == complete(coordinator, g)
<1>1. /\ is_current(coordinator, g)
      /\ ~coordinator'.active
      /\ coordinator.active
  BY FinishOneRefresh DEF is_current
<1>2. done.pending = coordinator.pending /\ done \in Coordinator
  BY <1>1, CoordinatorType DEF complete, IInv, TypeOK, Coordinator
<1>3. RefreshOwed' <=> RefreshOwed
  <2>1. CASE CanTakePending(done)
    <3>1. pendingCallbacks' = pendingCallbacks + 1 /\ coordinator.pending
      BY <1>1, <1>2, <2>1 DEF FinishRefresh, CanTakePending
    <3>2. QED
      BY <3>1 DEF RefreshOwed, IInv, TypeOK
  <2>2. CASE ~CanTakePending(done)
    <3>1. pendingCallbacks' = pendingCallbacks /\ coordinator' = done
      BY <1>1, <2>2 DEF FinishRefresh, take_pending
    <3>2. QED
      BY <1>2, <3>1 DEF RefreshOwed
  <2>3. QED
    BY <2>1, <2>2
<1>4. RefreshOwed' = RefreshOwed
  BY <1>3 DEF RefreshOwed, IInv, TypeOK, Coordinator
<1>5. coordinator.active = TRUE /\ coordinator'.active = FALSE
  <2>1. coordinator' \in Coordinator /\ coordinator \in Coordinator
    BY FinishRefreshType DEF IInv, TypeOK
  <2>2. QED
    BY <1>1, <2>1 DEF Coordinator
<1>6. QED
  BY <1>4, <1>5 DEF AbstractStep, Coalesced!Next, Coalesced!Finish, RefreshRuns

LEMMA RefreshStepSimulated ==
  ASSUME IInv, NEW g \in Generation, RefreshStep(g)
  PROVE  AbstractStep
<1>1. CASE BrokerAnswers(g)
  BY <1>1, StutterSimulated DEF BrokerAnswers, queueVars
<1>2. CASE FinishRefresh(g) /\ Running(g) /\ UNCHANGED mutationTimers
  BY <1>2, FinishRefreshSimulated
<1>3. CASE UNCHANGED <<coordinator, pendingCallbacks, mutationTimers>>
  BY <1>3, StutterSimulated
<1>4. QED
  BY <1>1, <1>2, <1>3 DEF RefreshStep, ShowMetadata, MetadataFails, OffsetsLoaded,
     GroupsLoaded, Running

\* A mutation's end creates a debt (its timer) or turns the pending request
\* into a queued callback.
LEMMA FinishMutationSimulated ==
  ASSUME IInv, NEW m \in Mutations, NEW changed \in BOOLEAN,
         FinishMutation(m, changed)
  PROVE  AbstractStep
<1> DEFINE ended == end_mutation(coordinator)
<1>1. coordinator'.active = coordinator.active
  BY FinishMutationFrame
<1>2. ended.pending = coordinator.pending
  BY DEF end_mutation, IInv, TypeOK, Coordinator
<1>3. CASE changed
  <2>1. mutationTimers' = mutationTimers + 1
    BY <1>3 DEF FinishMutation
  <2>2. RefreshOwed' = TRUE
    BY <2>1 DEF RefreshOwed, IInv, TypeOK
  <2>3. QED
    BY <1>1, <2>2 DEF AbstractStep, Coalesced!Next, Coalesced!Ask, RefreshRuns
<1>4. CASE ~changed /\ CanTakePending(ended)
  <2>1. pendingCallbacks' = pendingCallbacks + 1 /\ coordinator.pending = TRUE
    BY <1>2, <1>4 DEF FinishMutation, CanTakePending, IInv, TypeOK, Coordinator
  <2>2. RefreshOwed' = TRUE
    BY <2>1 DEF RefreshOwed, IInv, TypeOK
  <2>3. QED
    BY <1>1, <2>2 DEF AbstractStep, Coalesced!Next, Coalesced!Ask, RefreshRuns
<1>5. CASE ~changed /\ ~CanTakePending(ended)
  <2>1. coordinator' = ended /\ UNCHANGED <<pendingCallbacks, mutationTimers>>
    BY <1>5 DEF FinishMutation, take_pending
  <2>2. QED
    BY <1>1, <1>2, <2>1, StutterSimulated
<1>6. QED
  BY <1>3, <1>4, <1>5

LEMMA MutationStepSimulated ==
  ASSUME IInv, NEW m \in Mutations, MutationStep(m)
  PROVE  AbstractStep
<1>1. mutations[m].changed \in BOOLEAN
  BY DEF IInv, TypeOK, Mutation
<1>2. CASE ClusterApplies(m) \/ FirstCallReturns(m) \/ SupersededCallReturns(m)
  BY <1>2, StutterSimulated DEF ClusterApplies, ClusterChanges, FirstCallReturns,
     SupersededCallReturns, refreshVars, queueVars
<1>3. CASE LastCallReturns(m) \/ CallFails(m) \/ SupersededMutationEnds(m)
  BY <1>1, <1>3, FinishMutationSimulated DEF LastCallReturns, CallFails,
     SupersededMutationEnds
<1>4. QED
  BY <1>2, <1>3 DEF MutationStep

LEMMA LoopStepSimulated ==
  ASSUME IInv, LoopStep
  PROVE  AbstractStep
<1> USE DEF IInv
<1>1. pendingCallbacks \in Nat /\ mutationTimers \in Nat
  BY DEF TypeOK
<1>2. CASE RunPendingCallback
  <2>1. /\ RequestRefresh("PENDING")
        /\ pendingCallbacks' \in Nat /\ pendingCallbacks' <= pendingCallbacks
        /\ mutationTimers' = mutationTimers
    BY <1>1, <1>2 DEF RunPendingCallback
  <2>2. QED
    BY <1>1, <2>1, RequestSimulated
<1>3. CASE MutationTimerFires
  <2>1. /\ RequestRefresh("MUTATION")
        /\ mutationTimers' \in Nat /\ mutationTimers' <= mutationTimers
        /\ pendingCallbacks' = pendingCallbacks
    BY <1>1, <1>3 DEF MutationTimerFires
  <2>2. QED
    BY <1>1, <2>1, RequestSimulated
<1>4. CASE ResumeAutoRefresh
  <2>1. CASE AutoRefresh /\ OnRootScreen
    BY <1>1, <1>4, <2>1, RequestSimulated DEF ResumeAutoRefresh
  <2>2. CASE ~(AutoRefresh /\ OnRootScreen)
    BY <1>4, <2>2, StutterSimulated DEF ResumeAutoRefresh
  <2>3. QED
    BY <2>1, <2>2
<1>5. CASE PeriodicTick
  BY <1>1, <1>5, RequestSimulated DEF PeriodicTick, queueVars
<1>6. CASE HandleRefreshCompleted \/ DetailsLoaded
  BY <1>6, StutterSimulated DEF HandleRefreshCompleted, DetailsLoaded, refreshVars, queueVars
<1>7. QED
  BY <1>2, <1>3, <1>4, <1>5, <1>6 DEF LoopStep

LEMMA UserStepSimulated ==
  ASSUME IInv, UserStep
  PROVE  AbstractStep
<1>1. CASE OpenOther \/ OpenFilter \/ OpenForm \/ CloseScreen \/ CloseFilter
  BY <1>1, StutterSimulated DEF OpenOther, OpenFilter, OpenForm, CloseScreen,
     CloseFilter, refreshVars, queueVars
<1>2. CASE ManualRefresh
  BY <1>2, RequestSimulated DEF ManualRefresh, queueVars, IInv, TypeOK
<1>3. ASSUME NEW kind, LoadDetails(kind)
      PROVE  AbstractStep
  BY <1>3, StutterSimulated DEF LoadDetails, refreshVars, queueVars
<1>4. ASSUME NEW m \in Mutations, NEW calls \in 1..MaxCalls, BeginMutation(m, calls)
      PROVE  AbstractStep
  <2>1. UNCHANGED <<pendingCallbacks, mutationTimers>>
    BY <1>4 DEF BeginMutation
  <2>2. QED
    BY <1>4, <2>1, BeginMutationFrame, StutterSimulated
<1>5. QED
  BY <1>1, <1>2, <1>3, <1>4 DEF UserStep

\* No request for a refresh is lost, none runs beside another, and one only
\* starts when none runs: every behaviour of the list is one of
\* CoalescedRefresh.
THEOREM ImplementsCoalescedRefresh == Spec => RefinesCoalescedRefresh
<1>1. Init => Coalesced!Init
  <2> SUFFICES ASSUME Init PROVE Coalesced!Init
    OBVIOUS
  <2>1. coordinator.active = TRUE /\ coordinator.pending = FALSE
    BY GenerationsAssumption DEF Init, NewCoordinator, request, Accepts
  <2>2. pendingCallbacks = 0 /\ mutationTimers = 0
    BY DEF Init
  <2>3. RefreshRuns = TRUE
    BY <2>1 DEF RefreshRuns
  <2>4. RefreshOwed = FALSE
    BY <2>1, <2>2 DEF RefreshOwed
  <2>5. QED
    BY <2>3, <2>4 DEF Coalesced!Init
<1>2. IInv /\ [Next]_vars => AbstractStep
  <2> SUFFICES ASSUME IInv, [Next]_vars
               PROVE  AbstractStep
    OBVIOUS
  <2>1. CASE UNCHANGED vars
    BY <2>1, StutterSimulated DEF vars, refreshVars, queueVars
  <2>2. ASSUME NEW w \in LoadWorker, LoadStep(w)
        PROVE  AbstractStep
    BY <2>2, StutterSimulated DEF LoadStep, LoadingDelayPasses, DetailsLoadFails,
       refreshVars, queueVars
  <2>3. CASE LateCallApplies
    BY <2>3, StutterSimulated DEF LateCallApplies, ClusterChanges, queueVars
  <2>4. QED
    BY <2>1, <2>2, <2>3, RefreshStepSimulated, MutationStepSimulated, LoopStepSimulated,
       UserStepSimulated DEF Next
<1>3. IInv /\ [Next]_vars => [Coalesced!Next]_<<RefreshRuns, RefreshOwed>>
  BY <1>2 DEF AbstractStep
<1>4. Spec => []IInv
  BY InvariantsHold
<1>5. QED
  BY <1>1, <1>3, <1>4, PTL DEF Spec, RefinesCoalescedRefresh, Coalesced!Safe, Coalesced!vars
----------------------------------------------------------------------------
(* Mutations and the refreshes that follow them.                           *)

\* What _mutation() knows of its calls: one that returned is a change, unless
\* a later mutation had cancelled the worker by then.
ChangesAreKnown ==
  \A m \in Mutations :
    /\ mutations[m].stage = "none" => ~mutations[m].succeeded
    /\ mutations[m].stage # "returned" /\ mutations[m].succeeded => mutations[m].changed

\* m ends in this step, after a call that returned, and leaves a timer.
FollowedUp(m) ==
  /\ mutations[m].succeeded \/ LastCallReturns(m)
  /\ ~InFlight(m)'
  => mutationTimers' > 0

\* Only a mutation's own steps and the start of one touch the mutations.
LEMMA OnlyMutationsMutate ==
  ASSUME [Next]_vars, mutations' # mutations
  PROVE  \/ \E m \in Mutations : MutationStep(m)
         \/ \E m \in Mutations, calls \in 1..MaxCalls : BeginMutation(m, calls)
<1>1. ~UNCHANGED vars
  BY DEF vars
<1>2. ASSUME NEW g \in Generation
      PROVE  ~RefreshStep(g)
  BY DEF RefreshStep, BrokerAnswers, ShowMetadata, MetadataFails, OffsetsLoaded,
     GroupsLoaded
<1>3. ASSUME NEW w \in LoadWorker
      PROVE  ~LoadStep(w)
  BY DEF LoadStep, LoadingDelayPasses, DetailsLoadFails
<1>4. ~LoopStep
  BY DEF LoopStep, RunPendingCallback, MutationTimerFires, ResumeAutoRefresh,
     PeriodicTick, HandleRefreshCompleted, DetailsLoaded
<1>5. ~(\/ OpenOther \/ OpenFilter \/ OpenForm \/ CloseScreen
         \/ CloseFilter \/ ManualRefresh)
  BY DEF OpenOther, OpenFilter, OpenForm, CloseScreen, CloseFilter, ManualRefresh
<1>6. ASSUME NEW kind
      PROVE  ~LoadDetails(kind)
  BY DEF LoadDetails
<1>7. ~LateCallApplies
  BY DEF LateCallApplies
<1>8. QED
  BY <1>1, <1>2, <1>3, <1>4, <1>5, <1>6, <1>7 DEF Next, UserStep

\* A worker notes every call that returns to it, and is cancelled before the
\* call that returns to nobody.
LEMMA ChangesStayKnown ==
  ASSUME TypeOK, ChangesAreKnown, [Next]_vars
  PROVE  ChangesAreKnown'
<1> USE DEF TypeOK, Mutation
<1>1. CASE mutations' = mutations
  BY <1>1 DEF ChangesAreKnown
<1>2. ASSUME NEW n \in Mutations, MutationStep(n)
      PROVE  ChangesAreKnown'
  <2>1. CASE ClusterApplies(n)
    BY <2>1 DEF ClusterApplies, ChangesAreKnown
  <2>2. CASE FirstCallReturns(n)
    BY <2>2 DEF FirstCallReturns, ChangesAreKnown
  <2>3. CASE SupersededCallReturns(n)
    BY <2>3 DEF SupersededCallReturns, ChangesAreKnown
  <2>4. CASE LastCallReturns(n) \/ CallFails(n) \/ SupersededMutationEnds(n)
    <3>1. mutations' = [mutations EXCEPT ![n] = NoMutation]
      BY <2>4 DEF LastCallReturns, CallFails, SupersededMutationEnds, FinishMutation
    <3>2. QED
      BY <3>1 DEF ChangesAreKnown, NoMutation
  <2>5. QED
    BY <1>2, <2>1, <2>2, <2>3, <2>4 DEF MutationStep
<1>3. ASSUME NEW n \in Mutations, NEW calls \in 1..MaxCalls, BeginMutation(n, calls)
      PROVE  ChangesAreKnown'
  <2>1. ASSUME NEW m \in Mutations
        PROVE  \/ mutations'[m] = mutations[m]
               \/ mutations'[m].stage = "calling" /\ ~mutations'[m].succeeded
               \/ /\ mutations[m].stage = "calling"
                  /\ mutations'[m] = [mutations[m] EXCEPT !.stage = "superseded"]
    BY <1>3 DEF BeginMutation
  <2>2. ASSUME NEW m \in Mutations
        PROVE  /\ mutations'[m].stage = "none" => ~mutations'[m].succeeded
               /\ mutations'[m].stage # "returned" /\ mutations'[m].succeeded
                  => mutations'[m].changed
    <3>1. /\ mutations[m] \in Mutation
          /\ mutations[m].stage = "none" => ~mutations[m].succeeded
          /\ mutations[m].stage # "returned" /\ mutations[m].succeeded
             => mutations[m].changed
      BY DEF ChangesAreKnown
    <3>2. CASE mutations'[m] = [mutations[m] EXCEPT !.stage = "superseded"]
      <4>1. /\ mutations'[m].stage = "superseded"
            /\ mutations'[m].succeeded = mutations[m].succeeded
            /\ mutations'[m].changed = mutations[m].changed
        BY <3>1, <3>2
      <4>2. QED
        BY <2>1, <3>1, <4>1
    <3>3. QED
      BY <2>1, <3>1, <3>2
  <2>3. QED
    BY <2>2 DEF ChangesAreKnown
<1>4. QED
  BY <1>1, <1>2, <1>3, OnlyMutationsMutate

\* A step that ends a mutation which the cluster carried out, in part or as a
\* whole, leaves a timer behind that requests a refresh.
LEMMA EndIsFollowedUp ==
  ASSUME TypeOK, ChangesAreKnown, Next, NEW m \in Mutations,
         mutations[m].stage # "returned"
  PROVE  FollowedUp(m)
<1> USE DEF TypeOK, Mutation
<1> SUFFICES ASSUME mutations[m].succeeded \/ LastCallReturns(m), ~InFlight(m)'
             PROVE  mutationTimers' > 0
  BY DEF FollowedUp
<1>1. CASE LastCallReturns(m)
  BY <1>1 DEF LastCallReturns, FinishMutation
<1>2. CASE mutations[m].succeeded
  <2>1. mutations[m].stage # "none" /\ mutations[m].changed = TRUE
    BY <1>2 DEF ChangesAreKnown
  <2>2. mutations'[m].stage = "none"
    BY DEF InFlight
  <2>3. ASSUME NEW n \in Mutations, MutationStep(n)
        PROVE  mutationTimers' > 0
    <3>1. ~(ClusterApplies(n) \/ FirstCallReturns(n) \/ SupersededCallReturns(n))
      BY <2>1, <2>2 DEF ClusterApplies, FirstCallReturns, SupersededCallReturns
    <3>2. PICK changed \in {TRUE, mutations[n].changed} : FinishMutation(n, changed)
      BY <2>3, <3>1 DEF MutationStep, LastCallReturns, CallFails, SupersededMutationEnds
    <3>3. n = m
      BY <2>1, <2>2, <3>2 DEF FinishMutation
    <3>4. FinishMutation(m, TRUE)
      BY <2>1, <3>2, <3>3
    <3>5. mutationTimers' = mutationTimers + 1
      BY <3>4 DEF FinishMutation
    <3>6. QED
      BY <3>5
  <2>4. ASSUME NEW n \in Mutations, NEW calls \in 1..MaxCalls, BeginMutation(n, calls)
        PROVE  mutationTimers' > 0
    BY <2>1, <2>2, <2>4 DEF BeginMutation
  <2>5. mutations' # mutations
    BY <2>1, <2>2
  <2>6. QED
    BY <2>3, <2>4, <2>5, OnlyMutationsMutate
<1>3. QED
  BY <1>1, <1>2

\* At the start no mutation is in flight.
LEMMA ChangesKnown == Spec => [](TypeOK /\ ChangesAreKnown)
<1>1. Init => ChangesAreKnown
  BY DEF Init, ChangesAreKnown, NoMutation
<1>2. TypeOK /\ ChangesAreKnown /\ [Next]_vars => ChangesAreKnown'
  BY ChangesStayKnown
<1>3. QED
  BY <1>1, <1>2, TypeCorrect, PTL DEF Spec

\* However many mutations run, one that ends unfollowed after a call that
\* returned had been cancelled by the next, and the call returned only then:
\* run_blocking() raises CancelledError in place of its result.
THEOREM OnlyCancelledCallsAreMissed == Spec => UncancelledIsFollowedUp
<1>1. TypeOK /\ ChangesAreKnown /\ [Next]_vars
      => [\A m \in Mutations :
            /\ mutations[m].stage # "returned"
            /\ mutations[m].succeeded \/ LastCallReturns(m)
            /\ ~InFlight(m)'
            => mutationTimers' > 0]_vars
  BY EndIsFollowedUp DEF FollowedUp
<1>2. QED
  BY <1>1, ChangesKnown, PTL DEF Spec, UncancelledIsFollowedUp

\* While mutations start one after the other, each one that changed the
\* cluster is followed by a refresh: nothing cancels its worker.
THEOREM LoneMutationsAreFollowedUp ==
  ASSUME \A m, n \in Mutations : m = n
  PROVE  Spec => MutationIsFollowedUp
<1> DEFINE NoneCancelled == \A m \in Mutations : mutations[m].stage \in {"none", "calling"}
<1>1. Init => NoneCancelled
  BY DEF Init, NoMutation
<1>2. TypeOK /\ NoneCancelled /\ [Next]_vars => NoneCancelled'
  <2> SUFFICES ASSUME TypeOK, NoneCancelled, [Next]_vars
               PROVE  NoneCancelled'
    OBVIOUS
  <2> USE DEF TypeOK, Mutation
  <2>1. ASSUME NEW n \in Mutations, MutationStep(n)
        PROVE  NoneCancelled'
    <3>1. ~SupersededCallReturns(n) /\ ~SupersededMutationEnds(n)
      BY DEF SupersededCallReturns, SupersededMutationEnds
    <3>2. QED
      BY <2>1, <3>1 DEF MutationStep, ClusterApplies, FirstCallReturns, LastCallReturns,
         CallFails, FinishMutation, NoMutation
  <2>2. ASSUME NEW n \in Mutations, NEW calls \in 1..MaxCalls, BeginMutation(n, calls)
        PROVE  NoneCancelled'
    BY <2>2 DEF BeginMutation
  <2>3. QED
    BY <2>1, <2>2, OnlyMutationsMutate
<1>3. TypeOK /\ ChangesAreKnown /\ NoneCancelled /\ [Next]_vars
      => [\A m \in Mutations : FollowedUp(m)]_vars
  BY EndIsFollowedUp
<1>4. Spec => [][\A m \in Mutations : FollowedUp(m)]_vars
  BY <1>1, <1>2, <1>3, ChangesKnown, PTL DEF Spec
<1>5. QED
  BY <1>4 DEF MutationIsFollowedUp, FollowedUp
============================================================================

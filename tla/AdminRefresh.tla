--------------------------- MODULE AdminRefresh ---------------------------
(***************************************************************************)
(* The admin topic list: how refreshes, mutations, screens and timers of   *)
(* kaskade/admin/topics.py and kaskade/admin/app.py interleave on the      *)
(* event loop.  A step runs from one await (or queued callback) to the     *)
(* next.  What the brokers answer is left out except for one bit: whether  *)
(* the topic metadata a refresh has read is still what the cluster holds.  *)
(***************************************************************************)
EXTENDS RefreshCoordinator, Sequences, FiniteSets

CONSTANTS
  Mutations,     \* mutation workers that can be in flight at once
  AutoRefresh,   \* is admin.refresh-interval different from 0?
  ReadOnly,      \* admin.read-only
  ScreensUsed,   \* bound: the kinds of screen the user opens
  MaxCalls,      \* bound: the Kafka calls of a mutation; update_topic() has two
  MaxLoads,      \* bound: configuration loads in flight, a cancelled one included
  MaxScreens,    \* bound: screens stacked on the topic list
  MaxQueued,     \* bound: queued callbacks and timers of one kind
  MaxLate        \* bound: calls nobody waits for that may still be executed

ASSUME AdminRefreshAssumption ==
  /\ AutoRefresh \in BOOLEAN
  /\ ReadOnly \in BOOLEAN
  /\ ScreensUsed \subseteq {"form", "details", "filter", "other"}
  /\ MaxCalls \in 1..2
  /\ MaxLoads \in 0..2
  /\ MaxScreens \in Nat \ {0}
  /\ MaxQueued \in Nat \ {0}
  /\ MaxLate \in Nat

VARIABLES
  coordinator,      \* ListTopics.refresh_coordinator
  refreshes,        \* per generation, the refresh_topics worker
  mutations,        \* the topic-mutation workers
  lateCalls,        \* calls that failed and the cluster may still execute
  detailsLoads,     \* the topic-config workers: the current and a cancelled one
  loading,          \* does the topics table show its loading cover?
  listed,           \* what self.topics holds
  missed,           \* has a mutation changed a topic since the list read it?
  screens,          \* the screens above the topic list, top one last
  periodicTimer,    \* the admin-auto-refresh timer
  completedPosted,  \* is a RefreshCompleted message waiting for the app?
  pendingCallbacks, \* queued call_after_refresh(request PENDING)
  mutationTimers,   \* running REFRESH_TABLE_DELAY timers
  resumeTimers      \* running resume-admin-auto-refresh timers

refreshVars == <<coordinator, refreshes>>
queueVars   == <<completedPosted, pendingCallbacks, mutationTimers, resumeTimers>>
screenVars  == <<screens, periodicTimer>>
mutationVars == <<mutations, lateCalls>>
listVars    == <<loading, listed, missed>>
vars == <<refreshVars, mutationVars, detailsLoads, listVars, screenVars, queueVars>>

RefreshStage == {"none", "requested", "answered", "offsets", "groups"}

\* superseded: cancelled, its call still runs; returned: cancelled, its call
\* has returned.
MutationStage == {"none", "calling", "superseded", "returned"}

\* none: no topics; topics: topics, the highlighted one's metrics not loaded
\* yet; metrics: the highlighted one's record and group metrics are READY.
Listing == {"none", "topics", "metrics"}

\* "details" and "form" may lead to a mutation; "filter" and "other" screens
\* (help, command palette) never do.
Screen == {"form", "details", "filter", "other"}

\* fresh: nothing Kaskade changed since the metadata was read.
Refresh == [stage : RefreshStage, fresh : BOOLEAN]

\* left: Kafka calls that follow the current one; applied: the cluster has
\* executed the current call; succeeded: some call has returned normally;
\* changed: Mutation.changed.
Mutation ==
  [stage : MutationStage, left : 0..1, applied : BOOLEAN,
   succeeded : BOOLEAN, changed : BOOLEAN]

\* screen: what the worker opens when the configurations arrive; timer: its
\* DETAILS_LOADING_DELAY timer is running.
LoadWorker == {"current", "cancelled"}
NoLoad == [screen |-> "none", timer |-> FALSE]
Load == {NoLoad} \cup [screen : {"form", "details"}, timer : BOOLEAN]

NoRefresh  == [stage |-> "none", fresh |-> FALSE]
NoMutation == [stage |-> "none", left |-> 0, applied |-> FALSE,
               succeeded |-> FALSE, changed |-> FALSE]

OnRootScreen == screens = <<>>
TopScreen    == screens[Len(screens)]

Running(g)  == refreshes[g].stage # "none"
InFlight(m) == mutations[m].stage # "none"
----------------------------------------------------------------------------
(* Requests and starts.                                                    *)

\* A started worker asks for the metadata.  The exclusive group it runs in
\* never has another worker to cancel: SingleRefresh.
Started(g) ==
  [refreshes EXCEPT ![g] = [stage |-> "requested", fresh |-> FALSE]]

\* request_refresh(): ask the coordinator, start the worker if it agrees.
RequestRefresh(reason) ==
  /\ coordinator' = request(coordinator, reason)
  /\ IF Accepts(coordinator)
     THEN /\ refreshes' = Started(NextGeneration(coordinator.generation))
          /\ loading' = (loading \/ listed = "none")
     ELSE UNCHANGED <<refreshes, loading>>

\* KaskadeAdmin.on_mount requests the first refresh; the timer is created
\* paused.
Init ==
  /\ coordinator = request(NewCoordinator, "INITIAL")
  /\ refreshes = [g \in Generation |->
                    IF g = 1 THEN [stage |-> "requested", fresh |-> FALSE]
                             ELSE NoRefresh]
  /\ mutations = [m \in Mutations |-> NoMutation]
  /\ lateCalls = 0
  /\ detailsLoads = [w \in LoadWorker |-> NoLoad]
  /\ loading = TRUE
  /\ listed = "none"
  /\ missed = FALSE
  /\ screens = <<>>
  /\ periodicTimer = IF AutoRefresh THEN "paused" ELSE "off"
  /\ completedPosted = FALSE
  /\ pendingCallbacks = 0
  /\ mutationTimers = 0
  /\ resumeTimers = 0
----------------------------------------------------------------------------
(* The refresh worker.  FinishRefresh is its finally clause, reached on    *)
(* every path out of it.                                                   *)

\* Faulty: the list's cover is left alone.
FinishRefreshCovered(g) ==
  /\ refreshes' = [refreshes EXCEPT ![g] = NoRefresh]
  /\ completedPosted' = TRUE
  /\ coordinator' = complete(coordinator, g)
  /\ UNCHANGED <<loading, pendingCallbacks>>

FinishRefresh(g) ==
  /\ refreshes' = [refreshes EXCEPT ![g] = NoRefresh]
  /\ LET done == complete(coordinator, g) IN
     IF is_current(coordinator, g)
     THEN /\ loading' = FALSE
          /\ completedPosted' = TRUE
          /\ coordinator' = take_pending(done)
          /\ IF CanTakePending(done)
             THEN /\ pendingCallbacks < MaxQueued
                  /\ pendingCallbacks' = pendingCallbacks + 1
             ELSE UNCHANGED pendingCallbacks
     ELSE UNCHANGED <<coordinator, loading, completedPosted, pendingCallbacks>>

\* Faulty: the metadata comes from a cache.
BrokerAnswersFromCache(g) ==
  /\ refreshes[g].stage = "requested"
  /\ refreshes' = [refreshes EXCEPT ![g].stage = "answered"]
  /\ UNCHANGED <<coordinator, mutationVars, detailsLoads, listVars, screenVars, queueVars>>

\* The cluster answers the metadata request with what it holds now.
BrokerAnswers(g) ==
  /\ refreshes[g].stage = "requested"
  /\ refreshes' = [refreshes EXCEPT ![g] = [stage |-> "answered", fresh |-> TRUE]]
  /\ UNCHANGED <<coordinator, mutationVars, detailsLoads, listVars, screenVars, queueVars>>

\* metadata() returns: the list shows it, and the offsets and groups stages
\* start; metrics that were loaded are carried over for topics that remain.
\* A worker that is no longer current gives up.
ShowMetadata(g) ==
  /\ refreshes[g].stage = "answered"
  /\ IF is_current(coordinator, g)
     THEN /\ refreshes' = [refreshes EXCEPT ![g].stage = "offsets"]
          /\ listed' \in {"none", "topics"} \cup {listed}
          /\ missed' = (missed /\ ~refreshes[g].fresh)
          /\ loading' = FALSE
          /\ UNCHANGED <<coordinator, completedPosted, pendingCallbacks>>
     ELSE /\ FinishRefresh(g)
          /\ UNCHANGED <<listed, missed>>
  /\ UNCHANGED <<mutationVars, detailsLoads, screenVars, mutationTimers, resumeTimers>>

\* metadata() raises: the previous snapshot stays.
MetadataFails(g) ==
  /\ refreshes[g].stage \in {"requested", "answered"}
  /\ FinishRefresh(g)
  /\ UNCHANGED <<mutationVars, detailsLoads, listed, missed, screenVars,
                 mutationTimers, resumeTimers>>

\* enrich_offsets() returns, with or without errors of its own.
OffsetsLoaded(g) ==
  /\ refreshes[g].stage = "offsets"
  /\ IF is_current(coordinator, g)
     THEN /\ refreshes' = [refreshes EXCEPT ![g].stage = "groups"]
          /\ loading' = FALSE
          /\ UNCHANGED <<coordinator, completedPosted, pendingCallbacks>>
     ELSE FinishRefresh(g)
  /\ UNCHANGED <<mutationVars, detailsLoads, listed, missed, screenVars,
                 mutationTimers, resumeTimers>>

\* load_groups() returns or raises; apply_groups() follows in the same step.
\* Metrics that were loaded stay so when a request fails.
GroupsLoaded(g) ==
  /\ refreshes[g].stage = "groups"
  /\ FinishRefresh(g)
  /\ \/ UNCHANGED listed
     \/ listed = "topics" /\ listed' = "metrics"
  /\ UNCHANGED <<mutationVars, detailsLoads, missed, screenVars,
                 mutationTimers, resumeTimers>>

----------------------------------------------------------------------------
(* Queued callbacks, messages and timers.                                  *)

RunPendingCallback ==
  /\ pendingCallbacks > 0
  /\ pendingCallbacks' = pendingCallbacks - 1
  /\ RequestRefresh("PENDING")
  /\ UNCHANGED <<mutationVars, detailsLoads, listed, missed, screenVars,
                 completedPosted, mutationTimers, resumeTimers>>

MutationTimerFires ==
  /\ mutationTimers > 0
  /\ mutationTimers' = mutationTimers - 1
  /\ RequestRefresh("MUTATION")
  /\ UNCHANGED <<mutationVars, detailsLoads, listed, missed, screenVars,
                 completedPosted, pendingCallbacks, resumeTimers>>

\* _resume_auto_refresh(), 0.1 s after the last screen was popped.
ResumeAutoRefresh ==
  /\ resumeTimers > 0
  /\ resumeTimers' = resumeTimers - 1
  /\ IF AutoRefresh /\ OnRootScreen
     THEN /\ periodicTimer' = "running"
          /\ RequestRefresh("RESUME")
     ELSE UNCHANGED <<periodicTimer, coordinator, refreshes, loading>>
  /\ UNCHANGED <<mutationVars, detailsLoads, listed, missed, screens,
                 completedPosted, pendingCallbacks, mutationTimers>>

\* _request_periodic_refresh(), at every tick of the running timer.
PeriodicTick ==
  /\ periodicTimer = "running"
  /\ OnRootScreen
  /\ RequestRefresh("PERIODIC")
  /\ UNCHANGED <<mutationVars, detailsLoads, listed, missed, screenVars, queueVars>>

\* on_list_topics_refresh_completed().
HandleRefreshCompleted ==
  /\ completedPosted
  /\ completedPosted' = FALSE
  /\ periodicTimer' = IF AutoRefresh /\ OnRootScreen THEN "running" ELSE periodicTimer
  /\ UNCHANGED <<refreshVars, mutationVars, detailsLoads, listVars, screens,
                 pendingCallbacks, mutationTimers, resumeTimers>>
----------------------------------------------------------------------------
(* Screens.  The topic list's own keys reach nothing while its table is    *)
(* covered (widgets.py: stop_loading).                                     *)

ListHasFocus == OnRootScreen /\ ~loading

PushScreen(kind) ==
  /\ Len(screens) < MaxScreens
  /\ screens' = Append(screens, kind)
  /\ periodicTimer' = IF AutoRefresh THEN "paused" ELSE "off"

\* Popping the last screen schedules the resume timer.
PopScreen ==
  /\ ~OnRootScreen
  /\ screens' = SubSeq(screens, 1, Len(screens) - 1)
  /\ IF Len(screens) = 1
     THEN /\ resumeTimers < MaxQueued
          /\ resumeTimers' = resumeTimers + 1
     ELSE UNCHANGED resumeTimers
  /\ UNCHANGED periodicTimer

\* Help and the command palette.
OpenOther ==
  /\ "other" \in ScreensUsed
  /\ PushScreen("other")
  /\ UNCHANGED <<refreshVars, mutationVars, detailsLoads, listVars, queueVars>>

OpenFilter ==
  /\ "filter" \in ScreensUsed
  /\ ListHasFocus
  /\ PushScreen("filter")
  /\ UNCHANGED <<refreshVars, mutationVars, detailsLoads, listVars, queueVars>>

\* Create or delete a topic from the list; reset or delete a group from Topic
\* Details.  Read-only mode offers neither.
OpenForm ==
  /\ ~ReadOnly
  /\ \/ ListHasFocus
     \/ ~OnRootScreen /\ TopScreen = "details"
  /\ "form" \in ScreensUsed
  /\ PushScreen("form")
  /\ UNCHANGED <<refreshVars, mutationVars, detailsLoads, listVars, queueVars>>

\* action_describe() and action_edit() load the configurations first.  The
\* exclusive group cancels a load under way, which still waits for its call.
\* Details are for a topic whose metrics are loaded.
LoadDetails(kind) ==
  /\ ListHasFocus
  /\ IF kind = "form" THEN ~ReadOnly /\ listed # "none" ELSE listed = "metrics"
  /\ Cardinality({w \in LoadWorker : detailsLoads[w] # NoLoad}) < MaxLoads
  /\ detailsLoads' =
       [w \in LoadWorker |->
          IF w = "current" THEN [screen |-> kind, timer |-> TRUE]
          ELSE IF detailsLoads["current"] = NoLoad THEN detailsLoads[w]
          ELSE detailsLoads["current"]]
  /\ UNCHANGED <<refreshVars, mutationVars, listVars, screenVars, queueVars>>

\* A load is slow enough to show the loading cover.
LoadingDelayPasses(w) ==
  /\ detailsLoads[w].timer
  /\ detailsLoads' = [detailsLoads EXCEPT ![w].timer = FALSE]
  /\ loading' = TRUE
  /\ UNCHANGED <<refreshVars, mutationVars, listed, missed, screenVars, queueVars>>

\* The screen opens above whatever is on top by now.
DetailsLoaded ==
  /\ detailsLoads["current"] # NoLoad
  /\ PushScreen(detailsLoads["current"].screen)
  /\ detailsLoads' = [detailsLoads EXCEPT !["current"] = NoLoad]
  /\ loading' = FALSE
  /\ UNCHANGED <<refreshVars, mutationVars, listed, missed, queueVars>>

\* The load fails, or was cancelled: nothing opens.
DetailsLoadFails(w) ==
  /\ detailsLoads[w] # NoLoad
  /\ detailsLoads' = [detailsLoads EXCEPT ![w] = NoLoad]
  /\ loading' = FALSE
  /\ UNCHANGED <<refreshVars, mutationVars, listed, missed, screenVars, queueVars>>

\* A screen is closed without a result that changes the cluster.
CloseScreen ==
  /\ ~OnRootScreen /\ TopScreen # "filter"
  /\ PopScreen
  /\ UNCHANGED <<refreshVars, mutationVars, detailsLoads, listVars, completedPosted,
                 pendingCallbacks, mutationTimers>>

\* The filter is closed, applied or not: fill_table() uncovers the list, and
\* may highlight another topic.
CloseFilter ==
  /\ ~OnRootScreen /\ TopScreen = "filter"
  /\ PopScreen
  /\ loading' = FALSE
  /\ \/ UNCHANGED listed
     \/ listed # "none" /\ listed' \in {"topics", "metrics"}
  /\ UNCHANGED <<refreshVars, mutationVars, detailsLoads, missed, completedPosted,
                 pendingCallbacks, mutationTimers>>

ManualRefresh ==
  /\ ListHasFocus
  /\ RequestRefresh("MANUAL")
  /\ UNCHANGED <<mutationVars, detailsLoads, listed, missed, screenVars, queueVars>>
----------------------------------------------------------------------------
(* Mutations.  All of them run in the exclusive topic-mutation group.      *)

\* A form or confirmation is dismissed with a command: its screen goes, the
\* coordinator is told, and the worker cancels one that is still calling,
\* which then waits for its call to end.
BeginMutation(m, calls) ==
  /\ ~OnRootScreen /\ TopScreen = "form"
  /\ ~InFlight(m)
  /\ PopScreen
  /\ coordinator' = begin_mutation(coordinator)
  /\ mutations' =
       [n \in Mutations |->
          IF n = m THEN [stage |-> "calling", left |-> calls - 1, applied |-> FALSE,
                         succeeded |-> FALSE, changed |-> FALSE]
          ELSE IF mutations[n].stage = "calling"
               THEN [mutations[n] EXCEPT !.stage = "superseded"]
          ELSE mutations[n]]
  /\ loading' = TRUE
  /\ UNCHANGED <<refreshes, lateCalls, detailsLoads, listed, missed, completedPosted,
                 pendingCallbacks, mutationTimers>>

\* The cluster changes: what refreshes have read is out of date.
ClusterChanges ==
  /\ missed' = TRUE
  /\ refreshes' = [g \in Generation |-> [refreshes[g] EXCEPT !.fresh = FALSE]]
  /\ UNCHANGED <<coordinator, detailsLoads, loading, listed, screenVars, queueVars>>

\* The cluster executes the call.
ClusterApplies(m) ==
  /\ mutations[m].stage \in {"calling", "superseded"} /\ ~mutations[m].applied
  /\ mutations' = [mutations EXCEPT ![m].applied = TRUE]
  /\ ClusterChanges
  /\ UNCHANGED lateCalls

\* It executes one that had timed out for Kaskade.
LateCallApplies ==
  /\ lateCalls > 0
  /\ lateCalls' = lateCalls - 1
  /\ ClusterChanges
  /\ UNCHANGED mutations

\* m's call ends with an error; unless it was executed before, it still may be.
CallErrs(m) ==
  \/ UNCHANGED lateCalls
  \/ /\ ~mutations[m].applied
     /\ lateCalls < MaxLate
     /\ lateCalls' = lateCalls + 1

\* Faulty: a mutation leaves the refresh to the one that is still calling.
FinishMutationQuietly(m, changed) ==
  /\ mutations' = [mutations EXCEPT ![m] = NoMutation]
  /\ loading' = FALSE
  /\ coordinator' = end_mutation(coordinator)
  /\ IF changed /\ \A n \in Mutations \ {m} : ~InFlight(n)
     THEN mutationTimers < MaxQueued /\ mutationTimers' = mutationTimers + 1
     ELSE UNCHANGED mutationTimers
  /\ UNCHANGED <<refreshes, detailsLoads, listed, missed, screenVars,
                 completedPosted, pendingCallbacks, resumeTimers>>

\* _finish_mutation(), from the finally clause of _mutation().
FinishMutation(m, changed) ==
  /\ mutations' = [mutations EXCEPT ![m] = NoMutation]
  /\ loading' = FALSE
  /\ LET ended == end_mutation(coordinator) IN
     \/ /\ changed
        /\ coordinator' = discard_pending(ended)
        /\ mutationTimers < MaxQueued
        /\ mutationTimers' = mutationTimers + 1
        /\ UNCHANGED pendingCallbacks
     \/ /\ ~changed
        /\ coordinator' = take_pending(ended)
        /\ IF CanTakePending(ended)
           THEN /\ pendingCallbacks < MaxQueued
                /\ pendingCallbacks' = pendingCallbacks + 1
           ELSE UNCHANGED pendingCallbacks
        /\ UNCHANGED mutationTimers
  /\ UNCHANGED <<refreshes, detailsLoads, listed, missed, screenVars,
                 completedPosted, resumeTimers>>

\* Faulty: only the last call counts as a change.
FirstCallForgotten(m) ==
  /\ mutations[m].stage = "calling" /\ mutations[m].applied /\ mutations[m].left > 0
  /\ mutations' = [mutations EXCEPT ![m].left = 0, ![m].applied = FALSE,
                                    ![m].succeeded = TRUE]
  /\ UNCHANGED <<refreshVars, lateCalls, detailsLoads, listVars, screenVars, queueVars>>

\* The first of update_topic()'s two calls returns and the second starts.
FirstCallReturns(m) ==
  /\ mutations[m].stage = "calling" /\ mutations[m].applied /\ mutations[m].left > 0
  /\ mutations' = [mutations EXCEPT ![m].left = 0, ![m].applied = FALSE,
                                    ![m].succeeded = TRUE, ![m].changed = TRUE]
  /\ UNCHANGED <<refreshVars, lateCalls, detailsLoads, listVars, screenVars, queueVars>>

LastCallReturns(m) ==
  /\ mutations[m].stage = "calling" /\ mutations[m].applied /\ mutations[m].left = 0
  /\ UNCHANGED lateCalls
  /\ FinishMutation(m, TRUE)

\* A call is refused, or times out whether or not the cluster executed it.
CallFails(m) ==
  /\ mutations[m].stage = "calling"
  /\ CallErrs(m)
  /\ FinishMutation(m, mutations[m].changed)

\* The call of a cancelled mutation returns normally to run_blocking() ...
SupersededCallReturns(m) ==
  /\ mutations[m].stage = "superseded" /\ mutations[m].applied
  /\ mutations' = [mutations EXCEPT ![m].stage = "returned", ![m].succeeded = TRUE]
  /\ UNCHANGED <<refreshVars, lateCalls, detailsLoads, listVars, screenVars, queueVars>>

\* ... which raises CancelledError whatever the call's outcome.
SupersededMutationEnds(m) ==
  /\ mutations[m].stage \in {"superseded", "returned"}
  /\ CallErrs(m)
  /\ FinishMutation(m, mutations[m].changed)
----------------------------------------------------------------------------
RefreshStep(g) ==
  \/ BrokerAnswers(g) \/ ShowMetadata(g) \/ MetadataFails(g)
  \/ OffsetsLoaded(g) \/ GroupsLoaded(g)

MutationStep(m) ==
  \/ ClusterApplies(m) \/ FirstCallReturns(m) \/ LastCallReturns(m) \/ CallFails(m)
  \/ SupersededCallReturns(m) \/ SupersededMutationEnds(m)

LoadStep(w) == LoadingDelayPasses(w) \/ DetailsLoadFails(w)

LoopStep ==
  \/ RunPendingCallback \/ MutationTimerFires \/ ResumeAutoRefresh
  \/ PeriodicTick \/ HandleRefreshCompleted \/ DetailsLoaded

UserStep ==
  \/ OpenOther \/ OpenFilter \/ OpenForm \/ CloseScreen \/ CloseFilter
  \/ ManualRefresh
  \/ \E kind \in ScreensUsed \cap {"form", "details"} : LoadDetails(kind)
  \/ \E m \in Mutations, calls \in 1..MaxCalls : BeginMutation(m, calls)

Next ==
  \/ \E g \in Generation : RefreshStep(g)
  \/ \E m \in Mutations : MutationStep(m)
  \/ LateCallApplies
  \/ \E w \in LoadWorker : LoadStep(w)
  \/ LoopStep
  \/ UserStep

\* Kafka calls end (every one has a deadline), the event loop runs what is
\* queued and timers fire.  Nothing is assumed of the user.
Fairness ==
  /\ \A g \in Generation : WF_vars(RefreshStep(g))
  /\ \A m \in Mutations : WF_vars(MutationStep(m))
  /\ \A w \in LoadWorker : WF_vars(DetailsLoadFails(w) \/ (w = "current" /\ DetailsLoaded))
  /\ WF_vars(RunPendingCallback)
  /\ WF_vars(MutationTimerFires)
  /\ WF_vars(ResumeAutoRefresh)
  /\ WF_vars(PeriodicTick)
  /\ WF_vars(HandleRefreshCompleted)

Spec == Init /\ [][Next]_vars

FairSpec == Spec /\ Fairness
----------------------------------------------------------------------------
(* What a reader may rely on.                                              *)

TypeOK ==
  /\ coordinator \in Coordinator
  /\ refreshes \in [Generation -> Refresh]
  /\ mutations \in [Mutations -> Mutation]
  /\ lateCalls \in Nat
  /\ detailsLoads \in [LoadWorker -> Load]
  /\ loading \in BOOLEAN
  /\ listed \in Listing
  /\ missed \in BOOLEAN
  /\ screens \in Seq(Screen)
  /\ periodicTimer \in {"off", "paused", "running"}
  /\ completedPosted \in BOOLEAN
  /\ pendingCallbacks \in Nat
  /\ mutationTimers \in Nat
  /\ resumeTimers \in Nat

\* Refreshes never overlap, whatever asked for them, and the coordinator
\* knows of the one that runs: a worker that is running is the current
\* generation, and an active coordinator has a worker running, so it can
\* never be left waiting for a completion that will not come.
SingleRefresh ==
  /\ \A g \in Generation : Running(g) => is_current(coordinator, g)
  /\ coordinator.active => Running(coordinator.generation)

\* Auto-refresh only runs on the topic list.
TimerRunsOnRootOnly == periodicTimer = "running" => OnRootScreen

\* A mutation that changed the cluster, even one whose second half failed,
\* does not end without a refresh being scheduled.
MutationIsFollowedUp ==
  [][\A m \in Mutations :
       /\ mutations[m].succeeded \/ LastCallReturns(m)
       /\ ~InFlight(m)'
       => mutationTimers' > 0]_vars

\* However many mutations overlap, one that ends unfollowed after a call that
\* returned had been cancelled by the next, and the call returned only then.  A
\* first call that had returned before counts, cancelled or not.
UncancelledIsFollowedUp ==
  [][\A m \in Mutations :
       /\ mutations[m].stage # "returned"
       /\ mutations[m].succeeded \/ LastCallReturns(m)
       /\ ~InFlight(m)'
       => mutationTimers' > 0]_vars

\* The list never stays covered: its keys come back.
ListIsUncovered == []<>~loading

\* With auto-refresh on, the list keeps being refreshed while it is shown and
\* so ends up showing every change Kaskade made, also those of a mutation that
\* reported a timeout, was executed after that, or was superseded, once Kafka
\* answers.
ListCatchesUp ==
  (AutoRefresh /\ <>[]OnRootScreen) =>
    /\ []<>(\E g \in Generation : refreshes[g].stage = "requested")
    /\ []<>(\E g \in Generation : refreshes[g].stage = "offsets") => <>[]~missed
----------------------------------------------------------------------------
(* What the abstract specification calls a debt.                           *)

RefreshRuns == coordinator.active

RefreshOwed ==
  coordinator.pending \/ pendingCallbacks > 0 \/ mutationTimers > 0

Coalesced == INSTANCE CoalescedRefresh WITH running <- RefreshRuns, owed <- RefreshOwed

\* No request is lost: the list implements CoalescedRefresh.
RefinesCoalescedRefresh == Coalesced!Safe

============================================================================

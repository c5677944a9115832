---------------------------- MODULE OffsetReset ----------------------------
(***************************************************************************)
(* Resetting a consumer group's offsets in admin mode: the form and the    *)
(* review of kaskade/admin/forms.py and kaskade/admin/screens.py, and      *)
(* GroupService of kaskade/group_service.py, whose every call to Kafka is  *)
(* a step of its own: between two of them records arrive, retention        *)
(* deletes others, and members of the group come and go.                   *)
(*                                                                         *)
(* That a reset is a mutation which refreshes the list is AdminRefresh's   *)
(* subject; here a form is opened only when no reset is being committed.   *)
(***************************************************************************)
EXTENDS Integers, FiniteSets, Sequences

CONSTANTS
  Partitions,   \* the topic's partitions
  Planners,     \* offset-reset-plan workers that can be under way at once
  MaxOffset     \* bound: the end of a partition's log

ASSUME ResetAssumption ==
  /\ Partitions # {} /\ IsFiniteSet(Partitions)
  /\ Planners # {}
  /\ MaxOffset \in Nat \ {0}

VARIABLES
  \* Kafka
  log,        \* per partition: start, end and the records at or after the timestamp
  members,    \* has the group active members?
  \* the program
  screen,     \* "details", "form" or "review"
  planners,   \* the workers of _review(), in plan_reset()
  asked,      \* the command previewed last
  review,     \* the plan under review, or that was applied
  apply       \* the worker of reset_offsets(), in apply_reset()

kafkaVars == <<log, members>>
programVars == <<screen, planners, asked, review, apply>>
vars == <<kafkaVars, programVars>>

Offset == 0..MaxOffset
None == -1
Target == {"earliest", "latest", "timestamp", "offset"}
Offsets == [Partitions -> Offset \cup {None}]
NoOffsets == [p \in Partitions |-> None]

Command == [target : Target, value : Offset, partitions : SUBSET Partitions]
NoCommand == [target |-> "earliest", value |-> 0, partitions |-> {}]

Plan == [command : Command, new : Offsets]
NoPlan == [command |-> NoCommand, new |-> NoOffsets]

\* latest, other: what the two offset listings have returned. The thread of a
\* cancelled worker goes on with its calls, which only read, for nobody.
Planner ==
  [stage : {"idle", "describing", "committed", "latest", "other", "planned", "refused",
            "cancelled"},
   command : Command, latest : Offsets, other : Offsets]

PlannerOf(stage, command) ==
  [stage |-> stage, command |-> command, latest |-> NoOffsets, other |-> NoOffsets]
NoPlanner == PlannerOf("idle", NoCommand)

\* done: the partitions whose offset the call has changed; failed: those it
\* returned an error for; told: what the user was told.
Apply ==
  [stage : {"idle", "calling", "executed", "told", "raised"},
   done : SUBSET Partitions, failed : SUBSET Partitions,
   told : [Partitions -> {"nothing", "reset", "error"}]]

NoApply ==
  [stage |-> "idle", done |-> {}, failed |-> {}, told |-> [p \in Partitions |-> "nothing"]]
----------------------------------------------------------------------------
Init ==
  /\ log \in [Partitions -> {[start |-> 0, end |-> e, recent |-> {}] : e \in 0..1}]
  /\ members = FALSE
  /\ screen = "details"
  /\ planners = [w \in Planners |-> NoPlanner]
  /\ asked = NoCommand
  /\ review = NoPlan
  /\ apply = NoApply
----------------------------------------------------------------------------
(* The form and the review.                                                *)

OpenForm ==
  /\ screen = "details"
  /\ apply.stage \notin {"calling", "executed"}
  /\ screen' = "form"
  /\ asked' = NoCommand
  /\ review' = NoPlan
  /\ apply' = NoApply
  /\ UNCHANGED <<kafkaVars, planners>>

Busy(w) == planners[w].stage # "idle"
Cancelled(planner) ==
  IF planner.stage = "idle" THEN planner ELSE PlannerOf("cancelled", NoCommand)

\* A defect: a new preview lets the others go on.
SupersededGoesOn(planner) == planner

\* What a new preview does to the workers of its exclusive group.
Superseded(planner) == Cancelled(planner)

\* action_preview(): a valid command is planned in a worker.
Preview(w) ==
  /\ screen = "form"
  /\ ~Busy(w)
  /\ \E command \in Command :
       /\ command.partitions # {}
       /\ command.target # "offset" => command.value = 0
       /\ asked' = command
       /\ planners' = [v \in Planners |->
            IF v = w THEN PlannerOf("describing", command) ELSE Superseded(planners[v])]
  /\ UNCHANGED <<kafkaVars, screen, review, apply>>

\* Closing the form cancels its workers.
CloseForm ==
  /\ screen = "form"
  /\ screen' = "details"
  /\ planners' = [w \in Planners |-> Cancelled(planners[w])]
  /\ UNCHANGED <<kafkaVars, asked, review, apply>>

CloseReview ==
  /\ screen = "review"
  /\ screen' = "form"
  /\ review' = NoPlan
  /\ UNCHANGED <<kafkaVars, planners, asked, apply>>

\* The review is applied: both screens close and reset_offsets() starts.
ApplyReview ==
  /\ screen = "review"
  /\ screen' = "details"
  /\ planners' = [w \in Planners |-> Cancelled(planners[w])]
  /\ apply' = [NoApply EXCEPT !.stage = "calling"]
  /\ UNCHANGED <<kafkaVars, asked, review>>
----------------------------------------------------------------------------
(* plan_reset(), in a thread: one step for each call.                      *)

Goes(w, stage, latest, other) ==
  /\ planners' = [planners EXCEPT ![w] =
       [stage |-> stage, command |-> @.command, latest |-> latest, other |-> other]]
  /\ UNCHANGED <<kafkaVars, screen, asked, review, apply>>

\* ensure_empty().
Describe(w) ==
  /\ planners[w].stage = "describing"
  /\ Goes(w, IF members THEN "refused" ELSE "committed", planners[w].latest, planners[w].other)

\* A defect: the end is looked up after the timestamp, or after the start.
ListingsReversed(target) ==
  CASE target = "earliest" -> <<"other">>
    [] target = "latest" -> <<"latest">>
    [] OTHER -> <<"other", "latest">>

\* The listings a target takes, in order: the end offsets come first.
Listings(target) ==
  CASE target = "earliest" -> <<"other">>
    [] target = "latest" -> <<"latest">>
    [] OTHER -> <<"latest", "other">>

After(planner) ==
  LET listings == Listings(planner.command.target)
      last == listings[Len(listings)]
  IN  CASE planner.stage = "committed" -> Head(listings)
        [] planner.stage = last -> "planned"
        [] OTHER -> last

\* _committed_offsets(): they are shown, and nothing depends on them.
ReadCommitted(w) ==
  /\ planners[w].stage = "committed"
  /\ Goes(w, After(planners[w]), planners[w].latest, planners[w].other)

\* _list_offsets() of the end offsets.
ListLatest(w) ==
  /\ planners[w].stage = "latest"
  /\ Goes(w, After(planners[w]),
          [p \in Partitions |->
             IF p \in planners[w].command.partitions THEN log[p].end ELSE None],
          planners[w].other)

\* The first record at or after the timestamp, or NO_RECORD_FOR_TIMESTAMP.
IsForTimestamp(p, offset) ==
  IF log[p].recent = {} THEN offset = None
  ELSE offset \in log[p].recent /\ \A q \in log[p].recent : offset <= q

\* _list_offsets() of the start offsets, or of those of the timestamp.
ListOther(w) ==
  /\ planners[w].stage = "other"
  /\ \E other \in Offsets :
       /\ \A p \in Partitions :
            IF p \notin planners[w].command.partitions THEN other[p] = None
            ELSE IF planners[w].command.target = "timestamp" THEN IsForTimestamp(p, other[p])
            ELSE other[p] = log[p].start
       /\ Goes(w, After(planners[w]), planners[w].latest, other)

\* Any of the calls may raise.
PlanFails(w) ==
  /\ planners[w].stage \in {"describing", "committed", "latest", "other"}
  /\ Goes(w, "refused", planners[w].latest, planners[w].other)

Lesser(a, b) == IF a < b THEN a ELSE b
Greater(a, b) == IF a < b THEN b ELSE a

\* A defect: an explicit offset is only raised to the start of the log.
NewOffsetUnbounded(planner, p) ==
  CASE planner.command.target = "earliest"  -> planner.other[p]
    [] planner.command.target = "latest"    -> planner.latest[p]
    [] planner.command.target = "timestamp" ->
         IF planner.other[p] = None THEN planner.latest[p] ELSE planner.other[p]
    [] planner.command.target = "offset" -> Greater(planner.command.value, planner.other[p])

\* _target_offsets(), from what the listings returned.
NewOffset(planner, p) ==
  CASE planner.command.target = "earliest"  -> planner.other[p]
    [] planner.command.target = "latest"    -> planner.latest[p]
    [] planner.command.target = "timestamp" ->
         IF planner.other[p] = None THEN planner.latest[p] ELSE planner.other[p]
    [] planner.command.target = "offset" ->
         Lesser(Greater(planner.command.value, planner.other[p]), planner.latest[p])

\* _review() gets the plan and shows it, unless it was cancelled or refused.
PlanReturns(w) ==
  /\ planners[w].stage \in {"planned", "refused", "cancelled"}
  /\ planners' = [planners EXCEPT ![w] = NoPlanner]
  /\ IF planners[w].stage = "planned"
     THEN /\ screen' = "review"
          /\ review' = [command |-> planners[w].command,
                        new |-> [p \in Partitions |->
                                   IF p \in planners[w].command.partitions
                                   THEN NewOffset(planners[w], p) ELSE None]]
     ELSE UNCHANGED <<screen, review>>
  /\ UNCHANGED <<kafkaVars, asked, apply>>
----------------------------------------------------------------------------
(* apply_reset(), in a thread.                                             *)

\* Kafka commits what it can; it refuses every partition of a group with
\* members.
KafkaCommits ==
  /\ apply.stage = "calling"
  /\ \E failed \in SUBSET review.command.partitions :
       LET done == review.command.partitions \ failed IN
       /\ members => done = {}
       /\ apply' = [stage |-> "executed", done |-> done, failed |-> failed, told |-> apply.told]
  /\ UNCHANGED <<log, members, screen, planners, asked, review>>

\* An outcome for each planned partition, from the errors in the result.
OutcomeOf(p) == IF p \in apply.failed THEN "error" ELSE "reset"

ApplyReturns ==
  /\ apply.stage = "executed"
  /\ apply' = [stage |-> "told", done |-> apply.done, failed |-> apply.failed,
               told |-> [p \in Partitions |->
                           IF p \in review.command.partitions THEN OutcomeOf(p) ELSE "nothing"]]
  /\ UNCHANGED <<kafkaVars, screen, planners, asked, review>>

\* The call raises: a timeout, even of what Kafka has executed or an error
\* of the group's.
ApplyRaises ==
  /\ apply.stage \in {"calling", "executed"}
  /\ apply' = [apply EXCEPT !.stage = "raised"]
  /\ UNCHANGED <<kafkaVars, screen, planners, asked, review>>
----------------------------------------------------------------------------
(* Kafka and its other clients, outside the program.                       *)

Arrive(p) ==
  /\ log[p].end < MaxOffset
  /\ \E isRecent \in BOOLEAN :
       log' = [log EXCEPT ![p] =
         [start |-> @.start, end |-> @.end + 1,
          recent |-> IF isRecent THEN @.recent \cup {@.end} ELSE @.recent]]
  /\ UNCHANGED <<members, programVars>>

Expire(p) ==
  /\ log[p].start < log[p].end
  /\ log' = [log EXCEPT ![p] =
       [start |-> @.start + 1, end |-> @.end, recent |-> @.recent \ {@.start}]]
  /\ UNCHANGED <<members, programVars>>

JoinOrLeave ==
  /\ members' = ~members
  /\ UNCHANGED <<log, programVars>>

----------------------------------------------------------------------------
Planning(w) ==
  \/ Describe(w) \/ ReadCommitted(w) \/ ListLatest(w) \/ ListOther(w)
  \/ PlanFails(w) \/ PlanReturns(w)

Kafka ==
  \/ \E p \in Partitions : Arrive(p) \/ Expire(p)
  \/ JoinOrLeave

Next ==
  \/ OpenForm \/ CloseForm \/ CloseReview \/ ApplyReview
  \/ \E w \in Planners : Preview(w) \/ Planning(w)
  \/ KafkaCommits \/ ApplyReturns \/ ApplyRaises
  \/ Kafka

Spec == Init /\ [][Next]_vars
----------------------------------------------------------------------------
Log == [start : Offset, end : Offset, recent : SUBSET Offset]

TypeOK ==
  /\ log \in [Partitions -> Log]
  /\ members \in BOOLEAN
  /\ screen \in {"details", "form", "review"}
  /\ planners \in [Planners -> Planner]
  /\ asked \in Command
  /\ review \in Plan
  /\ apply \in Apply

\* A reset to a timestamp passes over no record at or after it, although the
\* ends and the timestamp are looked up by two calls and records arrive
\* between and after them.
TimestampLosesNothing ==
  review.command.target = "timestamp"
    => \A p \in review.command.partitions : \A o \in log[p].recent : review.new[p] <= o

\* No reset goes past the end of a partition, where consumers would fall back
\* to auto.offset.reset, although the plan is computed from several listings
\* and an explicit offset may be any.
PlanWithinLog ==
  \A p \in review.command.partitions : 0 <= review.new[p] /\ review.new[p] <= log[p].end

\* What is under review is what was asked for last: a superseded preview that
\* ends later does not show its plan.
ReviewIsWhatWasAsked == screen = "review" => review.command = asked

\* The user is told of each partition what Kafka has done: "commits exactly
\* those offsets and reports any partition that failed".
OutcomeIsTold ==
  apply.stage = "told"
    => \A p \in Partitions : (apply.told[p] = "reset") = (p \in apply.done)
============================================================================

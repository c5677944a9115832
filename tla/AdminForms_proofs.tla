------------------------- MODULE AdminForms_proofs -------------------------
(***************************************************************************)
(* What the administrator's forms promise, for any partitions, planners,   *)
(* offsets and settings.                                                   *)
(*   - Resets: whatever is listed, deleted or added while one is planned,  *)
(*     what is reviewed and applied is the plan asked for last, within the *)
(*     logs and at no record's expense.                                    *)
(*   - Topics: an edited one keeps what other clients have changed, and    *)
(*     the user is told what Kafka has done of an update's two calls.      *)
(*   - The forms together: one moves while the other rests, so what holds  *)
(*     of each holds of both.                                              *)
(***************************************************************************)
EXTENDS MCOffsetReset, TLAPS

Live(w) == planners[w].stage \in {"describing", "committed", "latest", "other", "planned"}

\* Of the previews one is still wanted: the last, while the form is open.
LastPreview ==
  /\ \A w \in Planners : Live(w) => screen = "form" /\ planners[w].command = asked
  /\ \A w, v \in Planners : Live(w) /\ Live(v) => w = v
  /\ screen = "review" => review.command = asked

LogShape ==
  \A p \in Partitions :
    log[p].start <= log[p].end /\ \A o \in log[p].recent : o < log[p].end

WithinLog(p, offset) == 0 <= offset /\ offset <= log[p].end
LosesNothing(p, offset) == \A o \in log[p].recent : offset <= o

\* What a listing has returned stays true of a log that only moves on: the end
\* it saw is not past the end, and no record at or after the timestamp is
\* before the offset it found, or before the end if it found none.
Knows(planner) ==
  /\ planner.stage = "latest" => planner.command.target # "earliest"
  /\ planner.stage = "other" => planner.command.target # "latest"
  /\ \A p \in planner.command.partitions :
       /\ planner.stage \in {"other", "planned"} /\ planner.command.target # "earliest" =>
            WithinLog(p, planner.latest[p])
       /\ planner.stage = "planned" /\ planner.command.target \in {"earliest", "offset"} =>
            WithinLog(p, planner.other[p])
       /\ planner.stage = "planned" /\ planner.command.target = "timestamp" =>
            IF planner.other[p] = None THEN LosesNothing(p, planner.latest[p])
            ELSE WithinLog(p, planner.other[p]) /\ LosesNothing(p, planner.other[p])

PlannersKnow == \A w \in Planners : Knows(planners[w])

ReviewHolds ==
  \A p \in review.command.partitions :
    /\ WithinLog(p, review.new[p])
    /\ review.command.target = "timestamp" => LosesNothing(p, review.new[p])

\* No review comes or goes while a reset is under way.
ResetIsReviewed ==
  /\ apply.stage \in {"calling", "executed"} => screen = "details"
  /\ apply.stage = "executed" => apply.done = review.command.partitions \ apply.failed
  /\ OutcomeIsTold

IInv ==
  TypeOK /\ LastPreview /\ LogShape /\ PlannersKnow /\ ReviewHolds /\ ResetIsReviewed

LEMMA InitIInv == Init => IInv
<1>. SUFFICES ASSUME Init PROVE IInv
  OBVIOUS
<1>. USE ResetAssumption
<1>1. NoCommand \in Command /\ NoOffsets \in Offsets
  BY DEF NoCommand, Command, Target, Offset, NoOffsets, Offsets
<1>2. NoPlanner \in Planner /\ NoPlanner.stage = "idle"
  BY <1>1 DEF NoPlanner, PlannerOf, Planner
<1>3. NoPlan \in Plan /\ NoPlan.command.partitions = {}
  BY <1>1 DEF NoPlan, Plan, NoCommand
<1>4. NoApply \in Apply /\ NoApply.stage = "idle"
  BY DEF NoApply, Apply
<1>5. \A p \in Partitions : log[p] \in Log /\ log[p].start <= log[p].end /\ log[p].recent = {}
  BY DEF Init, Log, Offset
<1>6. TypeOK
  <2>1. log \in [Partitions -> Log]
    BY <1>5 DEF Init
  <2>. QED
    BY <1>1, <1>2, <1>3, <1>4, <2>1 DEF Init, TypeOK
<1>7. LastPreview
  BY <1>2 DEF Init, LastPreview, Live
<1>8. LogShape
  BY <1>5 DEF LogShape
<1>9. PlannersKnow
  BY <1>2 DEF Init, PlannersKnow, Knows
<1>10. ReviewHolds
  BY <1>3 DEF Init, ReviewHolds
<1>11. ResetIsReviewed
  BY <1>4 DEF Init, ResetIsReviewed, OutcomeIsTold
<1>. QED
  BY <1>6, <1>7, <1>8, <1>9, <1>10, <1>11 DEF IInv

----------------------------------------------------------------------------
\* The end is listed first, and of two listings the other second.
LEMMA AfterListings ==
  ASSUME NEW planner, planner.command.target \in Target
  PROVE  /\ planner.stage = "committed" =>
              After(planner) = IF planner.command.target = "earliest" THEN "other" ELSE "latest"
         /\ planner.stage = "latest" /\ planner.command.target # "earliest" =>
              After(planner) = IF planner.command.target = "latest" THEN "planned" ELSE "other"
         /\ planner.stage = "other" /\ planner.command.target # "latest" =>
              After(planner) = "planned"
<1>1. CASE planner.command.target = "earliest"
  <2>1. Listings("earliest") = <<"other">>
    BY DEF Listings
  <2>. QED
    BY <1>1, <2>1 DEF After
<1>2. CASE planner.command.target = "latest"
  <2>1. Listings("latest") = <<"latest">>
    BY DEF Listings
  <2>. QED
    BY <1>2, <2>1 DEF After
<1>3. CASE planner.command.target \in {"timestamp", "offset"}
  <2>1. Listings(planner.command.target) = <<"latest", "other">>
    BY <1>3 DEF Listings
  <2>. QED
    BY <1>3, <2>1 DEF After
<1>. QED
  BY <1>1, <1>2, <1>3 DEF Target

\* A step of a planner is its own, and changes nothing else.
LEMMA PlannerGoes ==
  ASSUME TypeOK, NEW w \in Planners, NEW stage, NEW latest, NEW other,
         Goes(w, stage, latest, other)
  PROVE  /\ planners' = [planners EXCEPT ![w] = planners'[w]]
         /\ planners'[w] = [stage |-> stage, command |-> planners[w].command,
                            latest |-> latest, other |-> other]
         /\ \A v \in Planners : v # w => planners'[v] = planners[v]
         /\ UNCHANGED <<log, members, screen, asked, review, apply>>
BY DEF Goes, TypeOK, kafkaVars

LEMMA PlannerTyped ==
  ASSUME TypeOK, NEW w \in Planners
  PROVE  /\ planners[w] \in Planner
         /\ planners[w].command \in Command /\ planners[w].command.target \in Target
         /\ planners[w].command.partitions \subseteq Partitions
         /\ planners[w].latest \in Offsets /\ planners[w].other \in Offsets
BY DEF TypeOK, Planner, Command

----------------------------------------------------------------------------
\* The planning workers' steps.
LEMMA ListingStages ==
  ASSUME IInv, NEW w \in Planners,
         planners[w].stage \in {"committed", "latest", "other"}
  PROVE  After(planners[w]) \in {"latest", "other", "planned"}
<1>1. /\ planners[w].stage = "latest" => planners[w].command.target # "earliest"
      /\ planners[w].stage = "other" => planners[w].command.target # "latest"
  BY DEF IInv, PlannersKnow, Knows
<1>2. planners[w].command.target \in Target
  BY PlannerTyped DEF IInv
<1>3. ASSUME NEW planner, planner = planners[w]
      PROVE  After(planner) \in {"latest", "other", "planned"}
  BY <1>1, <1>2, <1>3, AfterListings
<1>. QED
  BY <1>3

\* What a planning step has to say of itself for the types to be kept.
LEMMA GoesTypes ==
  ASSUME IInv, NEW w \in Planners,
         NEW stage \in {"committed", "latest", "other", "planned", "refused"},
         NEW latest \in Offsets, NEW other \in Offsets,
         Goes(w, stage, latest, other)
  PROVE  TypeOK'
<1>1. TypeOK
  BY DEF IInv
<1>2. planners'[w] \in Planner
  <2>1. planners'[w] = [stage |-> stage, command |-> planners[w].command,
                        latest |-> latest, other |-> other]
    BY <1>1, PlannerGoes
  <2>2. planners[w].command \in Command
    BY <1>1, PlannerTyped
  <2>. QED
    BY <2>1, <2>2 DEF Planner
<1>3. planners' \in [Planners -> Planner]
  BY <1>1, <1>2, PlannerGoes DEF TypeOK
<1>. QED
  BY <1>1, <1>3, PlannerGoes DEF TypeOK

LEMMA PlanningTypes ==
  ASSUME IInv, NEW w \in Planners, Planning(w)
  PROVE  TypeOK'
<1>1. TypeOK
  BY DEF IInv
<1>2. planners[w].latest \in Offsets /\ planners[w].other \in Offsets
  BY <1>1, PlannerTyped
<1>3. CASE Describe(w)
  <2>1. PICK stage \in {"committed", "refused"} :
          Goes(w, stage, planners[w].latest, planners[w].other)
    BY <1>3 DEF Describe
  <2>. QED
    BY <1>2, <2>1, GoesTypes
<1>4. CASE ReadCommitted(w)
  <2>1. After(planners[w]) \in {"latest", "other", "planned"}
    BY <1>4, ListingStages DEF ReadCommitted
  <2>. QED
    BY <1>2, <1>4, <2>1, GoesTypes DEF ReadCommitted
<1>5. CASE ListLatest(w)
  <2>1. After(planners[w]) \in {"latest", "other", "planned"}
    BY <1>5, ListingStages DEF ListLatest
  <2>2. [p \in Partitions |->
           IF p \in planners[w].command.partitions THEN log[p].end ELSE None] \in Offsets
    BY <1>1 DEF TypeOK, Log, Offsets
  <2>. QED
    BY <1>2, <1>5, <2>1, <2>2, GoesTypes DEF ListLatest
<1>6. CASE ListOther(w)
  <2>1. After(planners[w]) \in {"latest", "other", "planned"}
    BY <1>6, ListingStages DEF ListOther
  <2>2. PICK other \in Offsets : Goes(w, After(planners[w]), planners[w].latest, other)
    BY <1>6 DEF ListOther
  <2>. QED
    BY <1>2, <2>1, <2>2, GoesTypes
<1>7. CASE PlanFails(w)
  BY <1>2, <1>7, GoesTypes DEF PlanFails
<1>8. CASE PlanReturns(w)
  <2>1. planners' \in [Planners -> Planner]
    <3>1. NoPlanner \in Planner
      BY ResetAssumption DEF NoPlanner, PlannerOf, Planner, NoCommand, Command, Target, Offset,
                             NoOffsets, Offsets
    <3>. QED
      BY <1>1, <1>8, <3>1 DEF PlanReturns, TypeOK
  <2>2. screen' \in {"details", "form", "review"}
    BY <1>1, <1>8 DEF PlanReturns, TypeOK
  <2>3. review' \in Plan
    <3>1. \A p \in Partitions : NewOffset(planners[w], p) \in Offset \cup {None}
      <4>. TAKE p \in Partitions
      <4>1. /\ planners[w].latest[p] \in Offset \cup {None}
            /\ planners[w].other[p] \in Offset \cup {None}
            /\ planners[w].command.value \in Offset
            /\ planners[w].command.target \in Target
        BY <1>1, <1>2, PlannerTyped DEF Offsets, Command
      <4>. QED
        BY <4>1 DEF NewOffset, Target, Lesser, Greater
    <3>2. CASE review' = review
      BY <1>1, <3>2 DEF TypeOK
    <3>3. CASE review' = [command |-> planners[w].command,
                          new |-> [p \in Partitions |->
                                     IF p \in planners[w].command.partitions
                                     THEN NewOffset(planners[w], p) ELSE None]]
      BY <1>1, <3>1, <3>3, PlannerTyped DEF Plan, Offsets
    <3>. QED
      BY <1>8, <3>2, <3>3 DEF PlanReturns
  <2>. QED
    BY <1>1, <1>8, <2>1, <2>2, <2>3 DEF PlanReturns, TypeOK, kafkaVars
<1>. QED
  BY <1>3, <1>4, <1>5, <1>6, <1>7, <1>8 DEF Planning

LEMMA PreviewTypes ==
  ASSUME IInv, NEW w \in Planners, Preview(w)
  PROVE  TypeOK'
<1>1. PICK command \in Command :
        /\ asked' = command
        /\ planners' = [v \in Planners |->
             IF v = w THEN PlannerOf("describing", command) ELSE Superseded(planners[v])]
  BY DEF Preview
<1>2. NoOffsets \in Offsets /\ NoCommand \in Command
  BY ResetAssumption DEF NoCommand, Command, Target, Offset, NoOffsets, Offsets
<1>3. PlannerOf("describing", command) \in Planner
  BY <1>2 DEF PlannerOf, Planner
<1>4. \A v \in Planners : Superseded(planners[v]) \in Planner
  BY <1>2 DEF IInv, TypeOK, Superseded, Cancelled, PlannerOf, Planner
<1>. QED
  BY <1>1, <1>3, <1>4 DEF IInv, TypeOK, Preview, kafkaVars

LEMMA TypeKept == IInv /\ [Next]_vars => TypeOK'
<1>. SUFFICES ASSUME IInv, [Next]_vars PROVE TypeOK'
  OBVIOUS
<1>1. TypeOK
  BY DEF IInv
<1>2. /\ NoOffsets \in Offsets /\ NoCommand \in Command /\ NoPlan \in Plan /\ NoApply \in Apply
      /\ \A v \in Planners : Cancelled(planners[v]) \in Planner
  <2>1. NoOffsets \in Offsets /\ NoCommand \in Command
    BY ResetAssumption DEF NoCommand, Command, Target, Offset, NoOffsets, Offsets
  <2>. QED
    BY <1>1, <2>1 DEF TypeOK, NoPlan, Plan, NoApply, Apply, Cancelled, PlannerOf, Planner
<1>. USE DEF kafkaVars
<1>3. CASE OpenForm
  BY <1>1, <1>2, <1>3 DEF OpenForm, TypeOK
<1>4. CASE CloseForm
  BY <1>1, <1>2, <1>4 DEF CloseForm, TypeOK
<1>5. CASE CloseReview
  BY <1>1, <1>2, <1>5 DEF CloseReview, TypeOK
<1>6. CASE ApplyReview
  <2>1. apply' \in Apply
    BY <1>6 DEF ApplyReview, NoApply, Apply
  <2>. QED
    BY <1>1, <1>2, <1>6, <2>1 DEF ApplyReview, TypeOK
<1>7. ASSUME NEW w \in Planners, Preview(w)
      PROVE  TypeOK'
  BY <1>7, PreviewTypes
<1>8. ASSUME NEW w \in Planners, Planning(w)
      PROVE  TypeOK'
  BY <1>8, PlanningTypes
<1>9. CASE KafkaCommits
  <2>1. review.command.partitions \subseteq Partitions
    BY <1>1 DEF TypeOK, Plan, Command
  <2>2. apply' \in Apply
    BY <1>1, <1>9, <2>1 DEF KafkaCommits, TypeOK, Apply
  <2>. QED
    BY <1>1, <1>9, <2>2 DEF KafkaCommits, TypeOK
<1>10. CASE ApplyReturns
  <2>1. apply' \in Apply
    BY <1>1, <1>10 DEF ApplyReturns, TypeOK, Apply, OutcomeOf
  <2>. QED
    BY <1>1, <1>10, <2>1 DEF ApplyReturns, TypeOK
<1>11. CASE ApplyRaises
  <2>1. apply' \in Apply
    BY <1>1, <1>11 DEF ApplyRaises, TypeOK, Apply
  <2>. QED
    BY <1>1, <1>11, <2>1 DEF ApplyRaises, TypeOK
<1>12. ASSUME NEW p \in Partitions, Arrive(p) \/ Expire(p)
       PROVE  TypeOK'
  <2>1. log' \in [Partitions -> Log]
    <3>1. CASE Arrive(p)
      <4>1. PICK isRecent \in BOOLEAN :
              log' = [log EXCEPT ![p] =
                [start |-> @.start, end |-> @.end + 1,
                 recent |-> IF isRecent THEN @.recent \cup {@.end} ELSE @.recent]]
        BY <3>1 DEF Arrive
      <4>. QED
        BY <1>1, <3>1, <4>1, ResetAssumption DEF Arrive, TypeOK, Log, Offset
    <3>2. CASE Expire(p)
      BY <1>1, <3>2, ResetAssumption DEF Expire, TypeOK, Log, Offset
    <3>. QED
      BY <1>12, <3>1, <3>2
  <2>. QED
    BY <1>1, <1>12, <2>1 DEF Arrive, Expire, programVars, TypeOK
<1>13. CASE JoinOrLeave
  BY <1>1, <1>13 DEF JoinOrLeave, programVars, TypeOK
<1>14. CASE UNCHANGED vars
  BY <1>1, <1>14 DEF vars, programVars, TypeOK
<1>. QED
  BY <1>3, <1>4, <1>5, <1>6, <1>7, <1>8, <1>9, <1>10, <1>11, <1>12, <1>13, <1>14
     DEF Next, Kafka

----------------------------------------------------------------------------
\* What is previewed, reviewed and applied.

\* A planning step makes no planner live, and none but the last ends in a
\* review.
LEMMA PlanningLive ==
  ASSUME IInv, NEW w \in Planners, Planning(w)
  PROVE  /\ \A v \in Planners : Live(v)' => Live(v) /\ planners'[v].command = planners[v].command
         /\ asked' = asked
         /\ \/ UNCHANGED <<screen, review>>
            \/ /\ Live(w) /\ ~Live(w)' /\ screen' = "review"
               /\ review'.command = planners[w].command
<1>1. TypeOK
  BY DEF IInv
<1>2. ASSUME NEW stage, NEW latest, NEW other, Goes(w, stage, latest, other), Live(w)
      PROVE  /\ \A v \in Planners :
                  Live(v)' => Live(v) /\ planners'[v].command = planners[v].command
             /\ UNCHANGED <<asked, screen, review>>
  <2>1. planners'[w].command = planners[w].command
    <3>1. planners'[w] = [stage |-> stage, command |-> planners[w].command,
                          latest |-> latest, other |-> other]
      BY <1>1, <1>2, PlannerGoes
    <3>. QED
      BY <3>1
  <2>2. \A v \in Planners : v # w => planners'[v] = planners[v]
    BY <1>1, <1>2, PlannerGoes
  <2>3. UNCHANGED <<asked, screen, review>>
    BY <1>1, <1>2, PlannerGoes
  <2>. QED
    BY <1>2, <2>1, <2>2, <2>3 DEF Live
<1>3. CASE PlanReturns(w)
  <2>1. /\ planners'[w] = NoPlanner
        /\ \A v \in Planners : v # w => planners'[v] = planners[v]
    BY <1>1, <1>3 DEF PlanReturns, TypeOK
  <2>2. NoPlanner.stage = "idle"
    BY DEF NoPlanner, PlannerOf
  <2>3. \A v \in Planners : Live(v)' => Live(v) /\ planners'[v].command = planners[v].command
    BY <2>1, <2>2 DEF Live
  <2>4. ~Live(w)'
    BY <2>1, <2>2 DEF Live
  <2>5. asked' = asked
    BY <1>3 DEF PlanReturns
  <2>. QED
    BY <1>3, <2>3, <2>4, <2>5 DEF PlanReturns, Live
<1>4. CASE Describe(w)
  BY <1>2, <1>4 DEF Describe, Live
<1>5. CASE ReadCommitted(w)
  BY <1>2, <1>5 DEF ReadCommitted, Live
<1>6. CASE ListLatest(w)
  BY <1>2, <1>6 DEF ListLatest, Live
<1>7. CASE ListOther(w)
  <2>1. PICK other \in Offsets : Goes(w, After(planners[w]), planners[w].latest, other)
    BY <1>7 DEF ListOther
  <2>. QED
    BY <1>2, <1>7, <2>1 DEF ListOther, Live
<1>8. CASE PlanFails(w)
  BY <1>2, <1>8 DEF PlanFails, Live
<1>. QED
  BY <1>3, <1>4, <1>5, <1>6, <1>7, <1>8 DEF Planning

\* A cancelled planner is not live.
LEMMA CancelledIsNotLive ==
  ASSUME TypeOK, NEW w \in Planners
  PROVE  /\ Cancelled(planners[w]).stage \in {"idle", "cancelled"}
         /\ Superseded(planners[w]).stage \in {"idle", "cancelled"}
BY DEF Superseded, Cancelled, PlannerOf

LEMMA LastPreviewKept == IInv /\ [Next]_vars => LastPreview'
<1>. SUFFICES ASSUME IInv, [Next]_vars PROVE LastPreview'
  OBVIOUS
<1>1. TypeOK /\ LastPreview
  BY DEF IInv
<1>2. ASSUME UNCHANGED <<planners, asked, screen, review>>
      PROVE  LastPreview'
  BY <1>1, <1>2 DEF LastPreview, Live
<1>3. CASE OpenForm
  <2>1. \A w \in Planners : ~Live(w)
    BY <1>1, <1>3 DEF OpenForm, LastPreview
  <2>2. \A w \in Planners : ~Live(w)'
    BY <1>3, <2>1 DEF OpenForm, Live
  <2>3. screen' = "form"
    BY <1>3 DEF OpenForm
  <2>. QED
    BY <2>2, <2>3 DEF LastPreview
<1>4. CASE CloseForm \/ ApplyReview
  <2>1. \A w \in Planners : planners'[w] = Cancelled(planners[w])
    BY <1>4 DEF CloseForm, ApplyReview
  <2>2. \A w \in Planners : ~Live(w)'
    BY <1>1, <2>1, CancelledIsNotLive DEF Live
  <2>3. screen' = "details"
    BY <1>4 DEF CloseForm, ApplyReview
  <2>. QED
    BY <2>2, <2>3 DEF LastPreview
<1>5. CASE CloseReview
  BY <1>1, <1>5 DEF CloseReview, LastPreview, Live
<1>6. ASSUME NEW w \in Planners, Preview(w)
      PROVE  LastPreview'
  <2>1. PICK command \in Command :
          /\ asked' = command
          /\ planners' = [v \in Planners |->
               IF v = w THEN PlannerOf("describing", command) ELSE Superseded(planners[v])]
    BY <1>6 DEF Preview
  <2>2. screen = "form" /\ screen' = screen
    BY <1>6 DEF Preview
  <2>3. planners'[w] = PlannerOf("describing", command)
    BY <2>1
  <2>4. planners'[w].command = command
    BY <2>3 DEF PlannerOf
  <2>5. \A v \in Planners : v # w => ~Live(v)'
    BY <1>1, <2>1, CancelledIsNotLive DEF Live
  <2>. QED
    BY <2>1, <2>2, <2>4, <2>5 DEF LastPreview
<1>7. ASSUME NEW w \in Planners, Planning(w)
      PROVE  LastPreview'
  <2>1. CASE UNCHANGED <<screen, review>>
    BY <1>1, <1>7, <2>1, PlanningLive DEF LastPreview
  <2>2. CASE /\ Live(w) /\ ~Live(w)' /\ screen' = "review"
             /\ review'.command = planners[w].command
    <3>1. \A v \in Planners : ~Live(v)'
      BY <1>1, <1>7, <2>2, PlanningLive DEF LastPreview
    <3>2. review'.command = asked'
      BY <1>1, <1>7, <2>2, PlanningLive DEF LastPreview
    <3>. QED
      BY <2>2, <3>1, <3>2 DEF LastPreview
  <2>. QED
    BY <1>7, <2>1, <2>2, PlanningLive
<1>8. CASE KafkaCommits \/ ApplyReturns \/ ApplyRaises
  BY <1>2, <1>8 DEF KafkaCommits, ApplyReturns, ApplyRaises
<1>9. CASE Kafka
  BY <1>2, <1>9 DEF Kafka, Arrive, Expire, JoinOrLeave, programVars
<1>10. CASE UNCHANGED vars
  BY <1>2, <1>10 DEF vars, programVars
<1>. QED
  BY <1>3, <1>4, <1>5, <1>6, <1>7, <1>8, <1>9, <1>10 DEF Next

\* The review under way is left alone, and so is what is told of it.
LEMMA ResetIsReviewedKept == IInv /\ [Next]_vars => ResetIsReviewed'
<1>. SUFFICES ASSUME IInv, [Next]_vars PROVE ResetIsReviewed'
  OBVIOUS
<1>1. TypeOK /\ LastPreview /\ ResetIsReviewed
  BY DEF IInv
<1>2. ASSUME UNCHANGED apply, apply.stage \in {"calling", "executed"} => UNCHANGED <<screen, review>>
      PROVE  ResetIsReviewed'
  BY <1>1, <1>2 DEF ResetIsReviewed, OutcomeIsTold
<1>3. CASE OpenForm
  BY <1>3 DEF OpenForm, NoApply, ResetIsReviewed, OutcomeIsTold
<1>4. CASE ApplyReview
  <2>1. apply'.stage = "calling" /\ screen' = "details"
    BY <1>4 DEF ApplyReview, NoApply
  <2>. QED
    BY <2>1 DEF ResetIsReviewed, OutcomeIsTold
<1>5. CASE CloseForm \/ CloseReview \/ \E w \in Planners : Preview(w)
  BY <1>1, <1>2, <1>5 DEF CloseForm, CloseReview, Preview, ResetIsReviewed
<1>6. ASSUME NEW w \in Planners, Planning(w)
      PROVE  ResetIsReviewed'
  <2>1. apply.stage \in {"calling", "executed"} => UNCHANGED <<screen, review>>
    BY <1>1, <1>6, PlanningLive DEF ResetIsReviewed, LastPreview
  <2>2. UNCHANGED apply
    BY <1>6 DEF Planning, Describe, ReadCommitted, ListLatest, ListOther, PlanFails, PlanReturns,
                Goes
  <2>. QED
    BY <1>2, <2>1, <2>2
<1>7. CASE KafkaCommits
  <2>1. PICK failed \in SUBSET review.command.partitions :
          apply' = [stage |-> "executed", done |-> review.command.partitions \ failed,
                    failed |-> failed, told |-> apply.told]
    BY <1>7 DEF KafkaCommits
  <2>2. screen' = "details" /\ review' = review
    BY <1>1, <1>7 DEF KafkaCommits, ResetIsReviewed
  <2>. QED
    BY <2>1, <2>2 DEF ResetIsReviewed, OutcomeIsTold
<1>8. CASE ApplyReturns
  <2>1. apply.done = review.command.partitions \ apply.failed
    BY <1>1, <1>8 DEF ApplyReturns, ResetIsReviewed
  <2>2. /\ apply'.stage = "told" /\ apply'.done = apply.done
        /\ \A p \in Partitions :
             apply'.told[p] = IF p \in review.command.partitions THEN OutcomeOf(p) ELSE "nothing"
    BY <1>8 DEF ApplyReturns
  <2>. QED
    BY <2>1, <2>2 DEF ResetIsReviewed, OutcomeIsTold, OutcomeOf
<1>9. CASE ApplyRaises
  <2>1. apply'.stage = "raised"
    BY <1>1, <1>9 DEF ApplyRaises, TypeOK, Apply
  <2>. QED
    BY <2>1 DEF ResetIsReviewed, OutcomeIsTold
<1>10. CASE Kafka
  BY <1>2, <1>10 DEF Kafka, Arrive, Expire, JoinOrLeave, programVars
<1>11. CASE UNCHANGED vars
  BY <1>2, <1>11 DEF vars, programVars
<1>. QED
  BY <1>3, <1>4, <1>5, <1>6, <1>7, <1>8, <1>9, <1>10, <1>11 DEF Next

----------------------------------------------------------------------------
\* The logs, and what has been listed of them.

\* A log's end only rises, and what arrives does so at its end.
LogMovesOn(p) ==
  /\ log[p].end <= log'[p].end
  /\ \A o \in log'[p].recent : o \in log[p].recent \/ o = log[p].end
  /\ log'[p].start <= log'[p].end
  /\ \A o \in log'[p].recent : o < log'[p].end

LEMMA LogsMoveOn ==
  ASSUME IInv, [Next]_vars, NEW p \in Partitions
  PROVE  LogMovesOn(p)
<1>1. /\ log[p].start \in Nat /\ log[p].end \in Nat /\ log[p].recent \subseteq Nat
      /\ log[p].start <= log[p].end
      /\ \A o \in log[p].recent : o < log[p].end
  BY ResetAssumption DEF IInv, TypeOK, Log, Offset, LogShape
<1>2. ASSUME log'[p] = log[p]
      PROVE  LogMovesOn(p)
  BY <1>1, <1>2 DEF LogMovesOn
<1>3. log \in [Partitions -> Log]
  BY DEF IInv, TypeOK
<1>4. ASSUME NEW q \in Partitions, Arrive(q)
      PROVE  LogMovesOn(p)
  <2>1. PICK isRecent \in BOOLEAN :
          log' = [log EXCEPT ![q] =
            [start |-> log[q].start, end |-> log[q].end + 1,
             recent |-> IF isRecent THEN log[q].recent \cup {log[q].end} ELSE log[q].recent]]
    BY <1>4 DEF Arrive
  <2>2. CASE p # q
    BY <1>2, <1>3, <2>1, <2>2
  <2>3. CASE p = q
    <3>1. log'[p] =
            [start |-> log[p].start, end |-> log[p].end + 1,
             recent |-> IF isRecent THEN log[p].recent \cup {log[p].end} ELSE log[p].recent]
      BY <1>3, <2>1, <2>3
    <3>2. /\ log'[p].start = log[p].start /\ log'[p].end = log[p].end + 1
          /\ log'[p].recent \subseteq log[p].recent \cup {log[p].end}
      BY <3>1
    <3>. QED
      BY <1>1, <3>2 DEF LogMovesOn
  <2>. QED
    BY <2>2, <2>3
<1>5. ASSUME NEW q \in Partitions, Expire(q)
      PROVE  LogMovesOn(p)
  <2>1. log' = [log EXCEPT ![q] =
          [start |-> log[q].start + 1, end |-> log[q].end,
           recent |-> log[q].recent \ {log[q].start}]]
    BY <1>5 DEF Expire
  <2>2. CASE p # q
    BY <1>2, <1>3, <2>1, <2>2
  <2>3. CASE p = q
    <3>1. log'[p] = [start |-> log[p].start + 1, end |-> log[p].end,
                     recent |-> log[p].recent \ {log[p].start}]
      BY <1>3, <2>1, <2>3
    <3>2. log[p].start < log[p].end
      BY <1>5, <2>3 DEF Expire
    <3>. QED
      BY <1>1, <3>1, <3>2 DEF LogMovesOn
  <2>. QED
    BY <2>2, <2>3
<1>6. CASE UNCHANGED log
  BY <1>2, <1>6
<1>7. [Next]_vars => \/ UNCHANGED log
                     \/ \E q \in Partitions : Arrive(q) \/ Expire(q)
  BY DEF Next, Kafka, JoinOrLeave, OpenForm, CloseForm, CloseReview, ApplyReview, Preview,
         Planning, Describe, ReadCommitted, ListLatest, ListOther, PlanFails, PlanReturns, Goes,
         KafkaCommits, ApplyReturns, ApplyRaises, kafkaVars, vars
<1>. QED
  BY <1>4, <1>5, <1>6, <1>7

\* What holds of an offset and a log still holds when the log has moved on.
LEMMA StillHolds ==
  ASSUME IInv, [Next]_vars, NEW p \in Partitions, NEW offset \in Int, WithinLog(p, offset)
  PROVE  /\ 0 <= offset /\ offset <= log'[p].end
         /\ LosesNothing(p, offset) => \A o \in log'[p].recent : offset <= o
<1>1. log[p].end \in Nat
  BY ResetAssumption DEF IInv, TypeOK, Log, Offset
<1>2. LogMovesOn(p)
  BY LogsMoveOn
<1>3. log'[p].end \in Nat
  <2>1. TypeOK'
    BY TypeKept
  <2>. QED
    BY <2>1, ResetAssumption DEF TypeOK, Log, Offset
<1>. QED
  BY <1>1, <1>2, <1>3 DEF WithinLog, LosesNothing, LogMovesOn

LEMMA LogShapeKept == IInv /\ [Next]_vars => LogShape'
BY LogsMoveOn DEF LogShape, LogMovesOn

\* The offsets of a command's partitions are numbers.
LEMMA OffsetsAreIntegers ==
  ASSUME IInv
  PROVE  /\ \A w \in Planners, p \in Partitions :
              planners[w].latest[p] \in Int /\ planners[w].other[p] \in Int
         /\ \A w \in Planners : planners[w].command.value \in Nat
         /\ \A p \in Partitions : review.new[p] \in Int
BY ResetAssumption DEF IInv, TypeOK, Planner, Plan, Command, Offsets, Offset, None

\* A planner that is left alone knows what it knew.
LEMMA KnowledgeLasts ==
  ASSUME IInv, [Next]_vars, NEW w \in Planners, planners'[w] = planners[w]
  PROVE  Knows(planners[w])'
<1>1. Knows(planners[w]) /\ planners[w].command.partitions \subseteq Partitions
  BY PlannerTyped DEF IInv, PlannersKnow
<1>2. ASSUME NEW p \in planners[w].command.partitions
      PROVE  /\ planners[w].stage \in {"other", "planned"} /\ planners[w].command.target # "earliest" =>
                  WithinLog(p, planners[w].latest[p])'
             /\ planners[w].stage = "planned" /\ planners[w].command.target \in {"earliest", "offset"} =>
                  WithinLog(p, planners[w].other[p])'
             /\ planners[w].stage = "planned" /\ planners[w].command.target = "timestamp" =>
                  IF planners[w].other[p] = None THEN LosesNothing(p, planners[w].latest[p])'
                  ELSE /\ WithinLog(p, planners[w].other[p])'
                       /\ LosesNothing(p, planners[w].other[p])'
  <2>1. p \in Partitions
    BY <1>1, <1>2
  <2>2. planners[w].latest[p] \in Int /\ planners[w].other[p] \in Int
    BY <2>1, OffsetsAreIntegers
  <2>3. planners[w].stage \in {"other", "planned"} /\ planners[w].command.target # "earliest" =>
          WithinLog(p, planners[w].latest[p])
    BY <1>1 DEF Knows
  <2>4. planners[w].stage = "planned" /\ planners[w].command.target \in {"earliest", "offset"} =>
          WithinLog(p, planners[w].other[p])
    BY <1>1 DEF Knows
  <2>5. planners[w].stage = "planned" /\ planners[w].command.target = "timestamp" =>
          IF planners[w].other[p] = None THEN LosesNothing(p, planners[w].latest[p])
          ELSE WithinLog(p, planners[w].other[p]) /\ LosesNothing(p, planners[w].other[p])
    BY <1>1 DEF Knows
  <2>6. WithinLog(p, planners[w].latest[p]) =>
          /\ WithinLog(p, planners[w].latest[p])'
          /\ LosesNothing(p, planners[w].latest[p]) => LosesNothing(p, planners[w].latest[p])'
    BY <2>1, <2>2, StillHolds DEF WithinLog, LosesNothing
  <2>7. WithinLog(p, planners[w].other[p]) =>
          /\ WithinLog(p, planners[w].other[p])'
          /\ LosesNothing(p, planners[w].other[p]) => LosesNothing(p, planners[w].other[p])'
    BY <2>1, <2>2, StillHolds DEF WithinLog, LosesNothing
  <2>. QED
    BY <2>3, <2>4, <2>5, <2>6, <2>7
<1>. QED
  BY <1>1, <1>2 DEF Knows

\* The steps of a planner: it knows what it has listed last, and what it knew.
LEMMA PlannerLearns ==
  ASSUME IInv, NEW w \in Planners, Planning(w)
  PROVE  Knows(planners[w])'
<1>1. TypeOK /\ Knows(planners[w])
  BY DEF IInv, PlannersKnow
<1>2. /\ planners[w].command.partitions \subseteq Partitions
      /\ planners[w].command.target \in Target
  BY <1>1, PlannerTyped
<1>3. CASE PlanReturns(w)
  <2>1. planners'[w].stage = "idle"
    BY <1>1, <1>3 DEF PlanReturns, TypeOK, NoPlanner, PlannerOf
  <2>. QED
    BY <2>1 DEF Knows
<1>4. ASSUME NEW stage \in {"committed", "refused"}, NEW latest, NEW other,
             Goes(w, stage, latest, other)
      PROVE  Knows(planners[w])'
  <2>1. planners'[w] = [stage |-> stage, command |-> planners[w].command,
                        latest |-> latest, other |-> other]
    BY <1>1, <1>4, PlannerGoes
  <2>2. planners'[w].stage = stage
    BY <2>1
  <2>. QED
    BY <2>2 DEF Knows
<1>5. CASE Describe(w)
  BY <1>4, <1>5 DEF Describe
<1>6. CASE PlanFails(w)
  BY <1>4, <1>6 DEF PlanFails
<1>7. CASE ReadCommitted(w)
  <2>1. After(planners[w]) = IF planners[w].command.target = "earliest" THEN "other" ELSE "latest"
    BY <1>2, <1>7, AfterListings DEF ReadCommitted
  <2>2. planners'[w] = [stage |-> After(planners[w]), command |-> planners[w].command,
                        latest |-> planners[w].latest, other |-> planners[w].other]
    BY <1>1, <1>7, PlannerGoes DEF ReadCommitted
  <2>3. /\ planners'[w].stage = After(planners[w])
        /\ planners'[w].command.target = planners[w].command.target
        /\ planners'[w].command = planners[w].command
    BY <2>2
  <2>. QED
    BY <2>1, <2>3 DEF Knows
<1>8. CASE ListLatest(w)
  <2>1. planners[w].command.target # "earliest"
    BY <1>1, <1>8 DEF ListLatest, Knows
  <2>2. After(planners[w]) = IF planners[w].command.target = "latest" THEN "planned" ELSE "other"
    BY <1>2, <1>8, <2>1, AfterListings DEF ListLatest
  <2>3. planners'[w] =
          [stage |-> After(planners[w]), command |-> planners[w].command,
           latest |-> [p \in Partitions |->
                         IF p \in planners[w].command.partitions THEN log[p].end ELSE None],
           other |-> planners[w].other]
    BY <1>1, <1>8, PlannerGoes DEF ListLatest
  <2>4. /\ planners'[w].stage = After(planners[w])
        /\ planners'[w].command = planners[w].command
        /\ \A p \in planners[w].command.partitions : planners'[w].latest[p] = log[p].end
    BY <1>2, <2>3
  <2>5. \A p \in planners[w].command.partitions : WithinLog(p, log[p].end) /\ log'[p] = log[p]
    BY <1>1, <1>2, <1>8, ResetAssumption
       DEF ListLatest, Goes, kafkaVars, WithinLog, TypeOK, Log, Offset
  <2>6. \A p \in planners[w].command.partitions : WithinLog(p, planners[w].latest[p])'
    BY <2>4, <2>5 DEF WithinLog
  <2>. QED
    BY <2>1, <2>2, <2>4, <2>6 DEF Knows
<1>9. CASE ListOther(w)
  <2>1. planners[w].command.target # "latest"
    BY <1>1, <1>9 DEF ListOther, Knows
  <2>2. After(planners[w]) = "planned"
    BY <1>2, <1>9, <2>1, AfterListings DEF ListOther
  <2>3. PICK other \in Offsets :
          /\ \A p \in Partitions :
               IF p \notin planners[w].command.partitions THEN other[p] = None
               ELSE IF planners[w].command.target = "timestamp" THEN IsForTimestamp(p, other[p])
               ELSE other[p] = log[p].start
          /\ Goes(w, After(planners[w]), planners[w].latest, other)
    BY <1>9 DEF ListOther
  <2>4. planners'[w] = [stage |-> After(planners[w]), command |-> planners[w].command,
                        latest |-> planners[w].latest, other |-> other]
    BY <1>1, <2>3, PlannerGoes
  <2>5. /\ planners'[w].stage = "planned"
        /\ planners'[w].command = planners[w].command
        /\ planners'[w].latest = planners[w].latest /\ planners'[w].other = other
    BY <2>2, <2>4
  <2>6. log' = log
    BY <1>1, <2>3, PlannerGoes
  <2>7. ASSUME NEW p \in planners[w].command.partitions
        PROVE  /\ planners[w].command.target # "earliest" =>
                    WithinLog(p, planners[w].latest[p])
               /\ planners[w].command.target \in {"earliest", "offset"} => WithinLog(p, other[p])
               /\ planners[w].command.target = "timestamp" =>
                    IF other[p] = None THEN LosesNothing(p, planners[w].latest[p])
                    ELSE WithinLog(p, other[p]) /\ LosesNothing(p, other[p])
    <3>1. p \in Partitions
      BY <1>2, <2>7
    <3>2. /\ log[p].start \in Nat /\ log[p].end \in Nat /\ log[p].recent \subseteq Nat
          /\ log[p].start <= log[p].end
          /\ \A o \in log[p].recent : o < log[p].end
      BY <1>1, <3>1, ResetAssumption DEF TypeOK, Log, Offset, IInv, LogShape
    <3>3. planners[w].command.target # "earliest" => WithinLog(p, planners[w].latest[p])
      BY <1>1, <1>9, <2>7 DEF ListOther, Knows
    <3>4. planners[w].command.target # "timestamp" => WithinLog(p, other[p])
      BY <2>3, <2>7, <3>1, <3>2 DEF WithinLog
    <3>5. planners[w].command.target = "timestamp" =>
            IF other[p] = None THEN LosesNothing(p, planners[w].latest[p])
            ELSE WithinLog(p, other[p]) /\ LosesNothing(p, other[p])
      <4>1. planners[w].command.target = "timestamp" => IsForTimestamp(p, other[p])
        BY <2>3, <2>7, <3>1
      <4>. QED
        BY <3>2, <4>1 DEF IsForTimestamp, WithinLog, LosesNothing, None
    <3>. QED
      BY <3>3, <3>4, <3>5
  <2>. QED
    BY <2>1, <2>5, <2>6, <2>7 DEF Knows, WithinLog, LosesNothing
<1>. QED
  BY <1>3, <1>5, <1>6, <1>7, <1>8, <1>9 DEF Planning

\* A planner that waits for nothing knows nothing.
LEMMA IdleKnows ==
  ASSUME NEW w \in Planners, planners'[w].stage \in {"idle", "cancelled", "describing"}
  PROVE  Knows(planners[w])'
BY DEF Knows

LEMMA PlannersKnowKept == IInv /\ [Next]_vars => PlannersKnow'
<1>. SUFFICES ASSUME IInv, [Next]_vars, NEW w \in Planners
              PROVE  Knows(planners[w])'
  BY DEF PlannersKnow
<1>1. TypeOK
  BY DEF IInv
<1>2. CASE CloseForm \/ ApplyReview
  BY <1>1, <1>2, CancelledIsNotLive, IdleKnows DEF CloseForm, ApplyReview
<1>3. ASSUME NEW v \in Planners, Preview(v)
      PROVE  Knows(planners[w])'
  <2>1. PICK command \in Command :
          planners' = [u \in Planners |->
             IF u = v THEN PlannerOf("describing", command) ELSE Superseded(planners[u])]
    BY <1>3 DEF Preview
  <2>2. planners'[w] = IF w = v THEN PlannerOf("describing", command)
                       ELSE Superseded(planners[w])
    BY <2>1
  <2>3. PlannerOf("describing", command).stage = "describing"
    BY DEF PlannerOf
  <2>. QED
    BY <1>1, <2>2, <2>3, CancelledIsNotLive, IdleKnows
<1>4. ASSUME NEW v \in Planners, Planning(v)
      PROVE  Knows(planners[w])'
  <2>1. CASE v = w
    BY <1>4, <2>1, PlannerLearns
  <2>2. CASE v # w
    <3>1. planners'[w] = planners[w]
      BY <1>1, <1>4, <2>2
         DEF Planning, Describe, ReadCommitted, ListLatest, ListOther, PlanFails, PlanReturns,
             Goes, TypeOK
    <3>. QED
      BY <3>1, KnowledgeLasts
  <2>. QED
    BY <2>1, <2>2
<1>5. CASE UNCHANGED planners
  BY <1>5, KnowledgeLasts
<1>6. CASE OpenForm \/ CloseReview \/ KafkaCommits \/ ApplyReturns \/ ApplyRaises \/ Kafka
  BY <1>5, <1>6 DEF OpenForm, CloseReview, KafkaCommits, ApplyReturns, ApplyRaises, Kafka,
                    Arrive, Expire, JoinOrLeave, programVars
<1>7. CASE UNCHANGED vars
  BY <1>5, <1>7 DEF vars, programVars
<1>. QED
  BY <1>2, <1>3, <1>4, <1>6, <1>7 DEF Next

LEMMA ReviewHoldsKept == IInv /\ [Next]_vars => ReviewHolds'
<1>. SUFFICES ASSUME IInv, [Next]_vars PROVE ReviewHolds'
  OBVIOUS
<1>1. TypeOK /\ ReviewHolds
  BY DEF IInv
<1>2. ASSUME UNCHANGED review
      PROVE  ReviewHolds'
  <2>. SUFFICES ASSUME NEW p \in review.command.partitions
                PROVE  /\ WithinLog(p, review.new[p])'
                       /\ review.command.target = "timestamp" => LosesNothing(p, review.new[p])'
    BY <1>2 DEF ReviewHolds
  <2>1. p \in Partitions
    BY <1>1 DEF TypeOK, Plan, Command
  <2>2. review.new[p] \in Int
    BY <2>1, OffsetsAreIntegers
  <2>3. /\ WithinLog(p, review.new[p])
        /\ review.command.target = "timestamp" => LosesNothing(p, review.new[p])
    BY <1>1 DEF ReviewHolds
  <2>. QED
    BY <1>2, <2>1, <2>2, <2>3, StillHolds DEF WithinLog, LosesNothing
<1>3. CASE OpenForm \/ CloseReview
  <2>1. review' = NoPlan
    BY <1>3 DEF OpenForm, CloseReview
  <2>. QED
    BY <2>1 DEF ReviewHolds, NoPlan, NoCommand
<1>4. ASSUME NEW w \in Planners, PlanReturns(w)
      PROVE  ReviewHolds'
  <2>1. CASE planners[w].stage = "planned"
    <3>1. /\ planners[w].command.partitions \subseteq Partitions
          /\ planners[w].command.target \in Target
          /\ Knows(planners[w])
      BY <1>1, PlannerTyped DEF IInv, PlannersKnow
    <3>2. /\ review'.command = planners[w].command
          /\ \A p \in planners[w].command.partitions :
               review'.new[p] = NewOffset(planners[w], p)
          /\ log' = log
      BY <1>4, <2>1, <3>1 DEF PlanReturns, kafkaVars
    <3>3. ASSUME NEW p \in planners[w].command.partitions
          PROVE  /\ WithinLog(p, NewOffset(planners[w], p))
                 /\ planners[w].command.target = "timestamp" =>
                      LosesNothing(p, NewOffset(planners[w], p))
      <4>1. /\ planners[w].latest[p] \in Int /\ planners[w].other[p] \in Int
            /\ planners[w].command.value \in Nat /\ log[p].end \in Nat
        BY <1>1, <3>1, <3>3, OffsetsAreIntegers, ResetAssumption DEF TypeOK, Log, Offset
      <4>2. CASE planners[w].command.target = "earliest"
        BY <2>1, <3>1, <3>3, <4>2 DEF NewOffset, Knows
      <4>3. CASE planners[w].command.target = "latest"
        BY <2>1, <3>1, <3>3, <4>3 DEF NewOffset, Knows
      <4>4. CASE planners[w].command.target = "timestamp"
        <5>1. /\ WithinLog(p, planners[w].latest[p])
              /\ IF planners[w].other[p] = None THEN LosesNothing(p, planners[w].latest[p])
                 ELSE WithinLog(p, planners[w].other[p]) /\ LosesNothing(p, planners[w].other[p])
          BY <2>1, <3>1, <3>3, <4>4 DEF Knows
        <5>2. NewOffset(planners[w], p) =
                IF planners[w].other[p] = None THEN planners[w].latest[p]
                ELSE planners[w].other[p]
          BY <4>4 DEF NewOffset
        <5>. QED
          BY <5>1, <5>2
      <4>5. CASE planners[w].command.target = "offset"
        <5>1. WithinLog(p, planners[w].latest[p]) /\ WithinLog(p, planners[w].other[p])
          BY <2>1, <3>1, <3>3, <4>5 DEF Knows
        <5>. QED
          BY <4>1, <4>5, <5>1 DEF NewOffset, WithinLog, Lesser, Greater
      <4>. QED
        BY <3>1, <4>2, <4>3, <4>4, <4>5 DEF Target
    <3>. QED
      BY <3>2, <3>3 DEF ReviewHolds, WithinLog, LosesNothing
  <2>2. CASE planners[w].stage # "planned"
    BY <1>2, <1>4, <2>2 DEF PlanReturns
  <2>. QED
    BY <2>1, <2>2
<1>5. ASSUME NEW w \in Planners, Planning(w), ~PlanReturns(w)
      PROVE  ReviewHolds'
  BY <1>2, <1>5 DEF Planning, Describe, ReadCommitted, ListLatest, ListOther, PlanFails, Goes
<1>6. CASE \/ CloseForm \/ ApplyReview \/ KafkaCommits \/ ApplyReturns \/ ApplyRaises \/ Kafka
           \/ \E w \in Planners : Preview(w)
  BY <1>2, <1>6 DEF CloseForm, ApplyReview, KafkaCommits, ApplyReturns, ApplyRaises, Kafka,
                    Arrive, Expire, JoinOrLeave, Preview, programVars
<1>7. CASE UNCHANGED vars
  BY <1>2, <1>7 DEF vars, programVars
<1>. QED
  BY <1>3, <1>4, <1>5, <1>6, <1>7 DEF Next

----------------------------------------------------------------------------
LEMMA InvariantsHold == Spec => []IInv
<1>1. IInv /\ [Next]_vars => IInv'
  BY TypeKept, LastPreviewKept, LogShapeKept, PlannersKnowKept, ReviewHoldsKept,
     ResetIsReviewedKept DEF IInv
<1>. QED
  BY InitIInv, <1>1, PTL DEF Spec

\* A superseded preview never shows its plan: what _review() brings under
\* review is the command previewed last.
THEOREM LastPreviewIsReviewed == Spec => []ReviewIsWhatWasAsked
<1>1. IInv => ReviewIsWhatWasAsked
  BY DEF IInv, LastPreview, ReviewIsWhatWasAsked
<1>. QED
  BY <1>1, InvariantsHold, PTL

\* Whatever arrives and expires, _target_offsets() never goes past the end of
\* a partition, for any target and any explicit offset.
THEOREM PlansStayWithinLog == Spec => []PlanWithinLog
<1>1. IInv => PlanWithinLog
  BY DEF IInv, ReviewHolds, WithinLog, PlanWithinLog
<1>. QED
  BY <1>1, InvariantsHold, PTL

\* A reset to a timestamp passes over none of the records at or after it,
\* because the ends are listed before the timestamp is looked up.
THEOREM TimestampsLoseNothing == Spec => []TimestampLosesNothing
<1>1. IInv => TimestampLosesNothing
  BY DEF IInv, ReviewHolds, LosesNothing, TimestampLosesNothing
<1>. QED
  BY <1>1, InvariantsHold, PTL

\* apply_reset() tells of each partition what Kafka has done to it.
THEOREM OutcomesAreTold == Spec => []OutcomeIsTold
<1>1. IInv => OutcomeIsTold
  BY DEF IInv, ResetIsReviewed
<1>. QED
  BY <1>1, InvariantsHold, PTL
----------------------------------------------------------------------------
(* An edited topic, and its update.                                        *)

\* The fields that the steps update one by one.
RecordsAreWhole ==
  /\ topic = [exists |-> topic.exists, partitions |-> topic.partitions, config |-> topic.config]
  /\ form = [stage |-> form.stage, partitions |-> form.partitions, config |-> form.config,
             input |-> form.input]
  /\ update = [stage |-> update.stage, changed |-> update.changed, title |-> update.title,
               told |-> update.told, done |-> update.done, form |-> update.form]

\* What is reviewed, and then written, has passed the validators.
InputsAreValid ==
  /\ form.stage = "review" => form.input \in Input
  /\ update.stage \in {"add", "added", "alter"} => update.form.input \in Input

AddedPartitions(f) == IF MorePartitions(f) THEN {"partitions"} ELSE {}

\* What each call finds done and would say of a failure.
CallsAreCounted ==
  /\ update.stage \in {"idle", "add", "added", "alter", "altered", "create", "created",
                      "delete", "deleted", "told"}
  /\ update.stage \in {"add", "added"} => MorePartitions(update.form)
  /\ update.stage \in {"add", "added", "create", "created", "delete", "deleted"} =>
       ~update.changed /\ update.title = "failed"
  /\ update.stage \in {"alter", "altered"} =>
       IF MorePartitions(update.form) THEN update.title = "partial"
       ELSE ~update.changed /\ update.title = "failed"
  /\ update.stage = "add" => update.done = {}
  /\ update.stage = "added" => update.done = {"partitions"}
  /\ update.stage = "alter" => update.done = AddedPartitions(update.form)
  /\ update.stage = "altered" =>
       update.done = ChangedSettings(update.form) \cup AddedPartitions(update.form)
  /\ update.stage \in {"created", "deleted"} => "topic" \in update.done
  /\ UpdateIsTold

EditInv == RecordsAreWhole /\ InputsAreValid /\ CallsAreCounted

LEMMA InitEditInv == EditInit => EditInv
<1>. SUFFICES ASSUME EditInit PROVE EditInv
  OBVIOUS
<1>1. update = NoUpdate /\ form = NoForm
  BY DEF EditInit
<1>2. RecordsAreWhole
  <2>1. topic = [exists |-> topic.exists, partitions |-> topic.partitions, config |-> topic.config]
    BY DEF EditInit, NoTopic
  <2>. QED
    BY <1>1, <2>1 DEF RecordsAreWhole, NoUpdate, NewUpdate, NoForm, FormOf
<1>3. InputsAreValid /\ CallsAreCounted
  BY <1>1 DEF InputsAreValid, CallsAreCounted, UpdateIsTold, NoUpdate, NewUpdate, NoForm, FormOf
<1>. QED
  BY <1>2, <1>3 DEF EditInv

\* Each step writes whole records.
LEMMA RecordsKept == EditInv /\ [EditNext]_editVars => RecordsAreWhole'
<1>. SUFFICES ASSUME EditInv, [EditNext]_editVars PROVE RecordsAreWhole'
  OBVIOUS
<1>. USE DEF EditInv, NoUpdate, NewUpdate, Updated, NoForm, FormOf
<1>1. CASE ListRefreshed
  BY <1>1 DEF ListRefreshed, RecordsAreWhole
<1>2. CASE ActionEdit
  BY <1>2 DEF ActionEdit, RecordsAreWhole
<1>3. CASE ConfigsLoaded
  BY <1>3 DEF ConfigsLoaded, RecordsAreWhole
<1>4. CASE LoadFails
  BY <1>4 DEF LoadFails, RecordsAreWhole
<1>5. CASE Save
  BY <1>5 DEF Save, RecordsAreWhole
<1>6. CASE Back
  BY <1>6 DEF Back, RecordsAreWhole
<1>7. CASE ApplyChanges
  BY <1>7 DEF ApplyChanges, RecordsAreWhole
<1>8. CASE ActionNew
  BY <1>8 DEF ActionNew, RecordsAreWhole
<1>9. CASE ActionCreate
  BY <1>9 DEF ActionCreate, RecordsAreWhole
<1>10. CASE ActionDelete
  BY <1>10 DEF ActionDelete, RecordsAreWhole
<1>11. CASE ConfirmDeletion
  BY <1>11 DEF ConfirmDeletion, RecordsAreWhole
<1>12. CASE KafkaCreates
  BY <1>12 DEF KafkaCreates, RecordsAreWhole, Executes
<1>13. CASE KafkaAdds
  BY <1>13 DEF KafkaAdds, RecordsAreWhole, Executes
<1>14. CASE KafkaAlters
  BY <1>14 DEF KafkaAlters, RecordsAreWhole, Executes
<1>15. CASE KafkaDeletes
  BY <1>15 DEF KafkaDeletes, RecordsAreWhole, NoTopic, Executes
<1>16. CASE CallReturns
  BY <1>16 DEF CallReturns, RecordsAreWhole
<1>17. CASE CallRaises
  BY <1>17 DEF CallRaises, RecordsAreWhole
<1>18. CASE OthersChange
  BY <1>18 DEF OthersChange, RecordsAreWhole, NoTopic
<1>19. CASE UNCHANGED editVars
  BY <1>19 DEF editVars, RecordsAreWhole
<1>. QED
  BY <1>1, <1>2, <1>3, <1>4, <1>5, <1>6, <1>7, <1>8, <1>9, <1>10, <1>11, <1>12, <1>13, <1>14, <1>15, <1>16, <1>17, <1>18, <1>19 DEF EditNext

\* An input comes under review through the validators only.
LEMMA InputsKept == EditInv /\ [EditNext]_editVars => InputsAreValid'
<1>. SUFFICES ASSUME EditInv, [EditNext]_editVars PROVE InputsAreValid'
  OBVIOUS
<1>. USE DEF EditInv, NoUpdate, NewUpdate, Updated, NoForm, FormOf
<1>1. CASE ListRefreshed
  BY <1>1 DEF ListRefreshed, InputsAreValid
<1>2. CASE ActionEdit
  BY <1>2 DEF ActionEdit, InputsAreValid
<1>3. CASE ConfigsLoaded
  BY <1>3 DEF ConfigsLoaded, InputsAreValid
<1>4. CASE LoadFails
  BY <1>4 DEF LoadFails, InputsAreValid
<1>5. CASE Save
  BY <1>5 DEF Save, InputsAreValid
<1>6. CASE Back
  BY <1>6 DEF Back, InputsAreValid, RecordsAreWhole
<1>7. CASE ApplyChanges
  BY <1>7 DEF ApplyChanges, InputsAreValid
<1>8. CASE ActionNew
  BY <1>8 DEF ActionNew, InputsAreValid, RecordsAreWhole
<1>9. CASE ActionCreate
  BY <1>9 DEF ActionCreate, InputsAreValid
<1>10. CASE ActionDelete
  BY <1>10 DEF ActionDelete, InputsAreValid, RecordsAreWhole
<1>11. CASE ConfirmDeletion
  BY <1>11 DEF ConfirmDeletion, InputsAreValid
<1>12. CASE KafkaCreates
  BY <1>12 DEF KafkaCreates, InputsAreValid, Executes
<1>13. CASE KafkaAdds
  BY <1>13 DEF KafkaAdds, InputsAreValid, Executes
<1>14. CASE KafkaAlters
  BY <1>14 DEF KafkaAlters, InputsAreValid, Executes
<1>15. CASE KafkaDeletes
  BY <1>15 DEF KafkaDeletes, InputsAreValid, Executes
<1>16. CASE CallReturns
  BY <1>16 DEF CallReturns, InputsAreValid
<1>17. CASE CallRaises
  BY <1>17 DEF CallRaises, InputsAreValid
<1>18. CASE OthersChange
  BY <1>18 DEF OthersChange, InputsAreValid
<1>19. CASE UNCHANGED editVars
  BY <1>19 DEF editVars, InputsAreValid
<1>. QED
  BY <1>1, <1>2, <1>3, <1>4, <1>5, <1>6, <1>7, <1>8, <1>9, <1>10, <1>11, <1>12, <1>13, <1>14, <1>15, <1>16, <1>17, <1>18, <1>19 DEF EditNext

LEMMA SameForm ==
  ASSUME update'.form = update.form
  PROVE  /\ ChangedSettings(update.form)' = ChangedSettings(update.form)
         /\ AddedPartitions(update.form)' = AddedPartitions(update.form)
BY DEF ChangedSettings, ConfigChange, AddedPartitions, MorePartitions

LEMMA NoCallMoves ==
  ASSUME CallsAreCounted, UNCHANGED update
  PROVE  CallsAreCounted'
BY DEF CallsAreCounted, UpdateIsTold, AddedPartitions, MorePartitions, ChangedSettings,
       ConfigChange

LEMMA UpdateBegins ==
  ASSUME NEW f, NEW stage \in {"idle", "add", "alter", "create", "delete"},
         update' = NewUpdate(stage, f),
         stage = "add" => MorePartitions(f),
         stage = "alter" => ~MorePartitions(f)
  PROVE  CallsAreCounted'
<1>1. /\ update'.stage = stage /\ update'.form = f /\ update'.done = {}
      /\ update'.changed = FALSE /\ update'.title = "failed"
  BY DEF NewUpdate
<1>2. MorePartitions(update.form)' = MorePartitions(f)
  BY <1>1 DEF MorePartitions
<1>. QED
  BY <1>1, <1>2 DEF CallsAreCounted, UpdateIsTold, AddedPartitions

LEMMA CallExecuted ==
  ASSUME CallsAreCounted, NEW stage, NEW done, update' = Executes(stage, done),
         \/ update.stage = "create" /\ stage = "created" /\ done = {"topic"}
         \/ update.stage = "delete" /\ stage = "deleted" /\ done = {"topic"}
         \/ update.stage = "add" /\ stage = "added" /\ done = {"partitions"}
         \/ update.stage = "alter" /\ stage = "altered" /\ done = ChangedSettings(update.form)
  PROVE  CallsAreCounted'
<1>1. /\ update'.stage = stage /\ update'.form = update.form
      /\ update'.done = update.done \cup done
      /\ update'.changed = update.changed /\ update'.title = update.title
  BY DEF Executes, Updated
<1>2. /\ MorePartitions(update.form)' = MorePartitions(update.form)
      /\ AddedPartitions(update.form)' = AddedPartitions(update.form)
      /\ ChangedSettings(update.form)' = ChangedSettings(update.form)
  BY <1>1, SameForm DEF MorePartitions
<1>3. CASE stage \in {"created", "deleted"}
  BY <1>1, <1>3 DEF CallsAreCounted, UpdateIsTold
<1>4. CASE stage = "added"
  BY <1>1, <1>2, <1>4 DEF CallsAreCounted, UpdateIsTold
<1>5. CASE stage = "altered"
  <2>1. update'.done = (ChangedSettings(update.form) \cup AddedPartitions(update.form))'
    BY <1>1, <1>2, <1>5 DEF CallsAreCounted
  <2>2. IF MorePartitions(update.form)' THEN update'.title = "partial"
        ELSE ~update'.changed /\ update'.title = "failed"
    BY <1>1, <1>2, <1>5 DEF CallsAreCounted
  <2>. QED
    BY <1>1, <1>5, <2>1, <2>2 DEF CallsAreCounted, UpdateIsTold
<1>. QED
  BY <1>3, <1>4, <1>5

\* What a call does is done when the next one begins.
LEMMA CallsKept == EditInv /\ [EditNext]_editVars => CallsAreCounted'
<1>. SUFFICES ASSUME EditInv, [EditNext]_editVars PROVE CallsAreCounted'
  OBVIOUS
<1>. USE DEF EditInv
<1>1. CASE ListRefreshed \/ ConfigsLoaded \/ LoadFails \/ Save \/ Back \/ OthersChange
  <2>1. UNCHANGED update
    BY <1>1 DEF ListRefreshed, ConfigsLoaded, LoadFails, Save, Back, OthersChange
  <2>. QED
    BY <2>1, NoCallMoves
<1>2. CASE ActionEdit \/ ActionNew \/ ActionDelete
  <2>1. update' = NewUpdate("idle", NoForm)
    BY <1>2 DEF ActionEdit, ActionNew, ActionDelete, NoUpdate
  <2>. QED
    BY <2>1, UpdateBegins
<1>3. CASE ApplyChanges
  <2>1. CASE MorePartitions(form)
    BY <1>3, <2>1, UpdateBegins DEF ApplyChanges
  <2>2. CASE ~MorePartitions(form)
    BY <1>3, <2>2, UpdateBegins DEF ApplyChanges
  <2>. QED
    BY <2>1, <2>2
<1>4. CASE ActionCreate
  <2>1. PICK input \in Input : update' = NewUpdate("create", FormOf("closed", 1, Defaults, input))
    BY <1>4 DEF ActionCreate
  <2>. QED
    BY <2>1, UpdateBegins
<1>5. CASE ConfirmDeletion
  BY <1>5, UpdateBegins DEF ConfirmDeletion
<1>6. CASE KafkaCreates
  BY <1>6, CallExecuted DEF KafkaCreates
<1>7. CASE KafkaAdds
  BY <1>7, CallExecuted DEF KafkaAdds
<1>8. CASE KafkaAlters
  BY <1>8, CallExecuted DEF KafkaAlters
<1>9. CASE KafkaDeletes
  BY <1>9, CallExecuted DEF KafkaDeletes
<1>10. CASE CallReturns
  <2>1. CASE update.stage \in {"created", "deleted"}
    <3>1. /\ update'.stage = "told" /\ update'.told = "done" /\ update'.done = update.done
      BY <1>10, <2>1 DEF CallReturns, Updated
    <3>. QED
      BY <2>1, <3>1 DEF CallsAreCounted, UpdateIsTold
  <2>2. CASE update.stage = "altered"
    <3>1. /\ update'.stage = "told" /\ update'.told = "done" /\ update'.done = update.done
          /\ update'.form = update.form
      BY <1>10, <2>2 DEF CallReturns, Updated
    <3>2. update'.done = (ChangedSettings(update.form) \cup AddedPartitions(update.form))'
      BY <2>2, <3>1, SameForm DEF CallsAreCounted
    <3>. QED
      BY <3>1, <3>2 DEF CallsAreCounted, UpdateIsTold, AddedPartitions
  <2>3. CASE update.stage = "added" /\ ChangedSettings(update.form) # {}
    <3>1. /\ update'.stage = "alter" /\ update'.title = "partial" /\ update'.done = update.done
          /\ update'.form = update.form
      BY <1>10, <2>3 DEF CallReturns, Updated
    <3>. QED
      BY <2>3, <3>1 DEF CallsAreCounted, UpdateIsTold, AddedPartitions, MorePartitions
  <2>4. CASE update.stage = "added" /\ ChangedSettings(update.form) = {}
    <3>1. /\ update'.stage = "told" /\ update'.told = "done" /\ update'.done = update.done
          /\ update'.form = update.form
      BY <1>10, <2>4 DEF CallReturns, Updated
    <3>2. update'.done = (ChangedSettings(update.form) \cup AddedPartitions(update.form))'
      BY <2>4, <3>1, SameForm DEF CallsAreCounted, AddedPartitions
    <3>. QED
      BY <3>1, <3>2 DEF CallsAreCounted, UpdateIsTold, AddedPartitions
  <2>. QED
    BY <1>10, <2>1, <2>2, <2>3, <2>4 DEF CallReturns
<1>11. CASE CallRaises
  <2>1. /\ update'.stage = "told" /\ update'.told = update.title /\ update'.done = update.done
        /\ update'.changed = update.changed /\ update'.form = update.form
    BY <1>11 DEF CallRaises, ErrorTitle, Updated
  <2>2. update.stage \in {"add", "added", "alter", "altered", "create", "created", "delete",
                         "deleted"}
    BY <1>11 DEF CallRaises, Idle, CallsAreCounted
  <2>3. /\ update.title \in {"failed", "partial"}
        /\ update.title = "failed" => ~update.changed
        /\ update.title = "partial" => "partitions" \in update.done
    BY <2>2 DEF CallsAreCounted, AddedPartitions
  <2>. QED
    BY <2>1, <2>3 DEF CallsAreCounted, UpdateIsTold
<1>12. CASE UNCHANGED editVars
  BY <1>12, NoCallMoves DEF editVars
<1>. QED
  BY <1>1, <1>2, <1>3, <1>4, <1>5, <1>6, <1>7, <1>8, <1>9, <1>10, <1>11, <1>12 DEF EditNext

LEMMA EditInvHolds == EditSpec => []EditInv
<1>1. EditInv /\ [EditNext]_editVars => EditInv'
  BY RecordsKept, InputsKept, CallsKept DEF EditInv
<1>. QED
  BY InitEditInv, <1>1, PTL DEF EditSpec

\* What the user is told of an update, a creation or a deletion is what Kafka
\* has done of it.
THEOREM UpdatesAreTold == EditSpec => []UpdateIsTold
<1>1. EditInv => UpdateIsTold
  BY DEF EditInv, CallsAreCounted
<1>. QED
  BY <1>1, EditInvHolds, PTL

\* edit() sets what the user has changed, resets what the user has cleared,
\* and leaves what only others have changed.
LEMMA AlterWritesChanges ==
  ASSUME EditInv, KafkaAlters, NEW s \in Settings
  PROVE  topic'.config[s] = IF LeftAlone(update.form, s) THEN topic.config[s]
                            ELSE IF Left(update.form, s) = "" THEN Inherited(s)
                            ELSE Override(Left(update.form, s))
<1>1. update.form.input \in Input
  BY DEF EditInv, InputsAreValid, KafkaAlters
<1>2. topic'.config = Altered(topic.config, update.form)
  BY DEF KafkaAlters, EditInv, RecordsAreWhole
<1>3. topic'.config[s] = IF ConfigChange(update.form, s) = NoChange THEN topic.config[s]
                         ELSE IF ConfigChange(update.form, s) = Reset THEN Inherited(s)
                         ELSE Override(ConfigChange(update.form, s))
  BY <1>2 DEF Altered
<1>4. Left(update.form, s) = update.form.config[s].value \/ Left(update.form, s) \notin {NoChange, Reset}
  <2>1. CASE s = "cleanup.policy"
    BY <1>1, <2>1 DEF Left, Input, NoChange, Reset
  <2>2. CASE s # "cleanup.policy"
    <3>1. update.form.input.number[s] \in Text
      BY <1>1, <2>2 DEF Settings, Input
    <3>. QED
      BY <2>2, <3>1 DEF Left, Canonical, Text, NoChange, Reset
  <2>. QED
    BY <2>1, <2>2
<1>5. ConfigChange(update.form, s) =
        IF Left(update.form, s) = update.form.config[s].value THEN NoChange
        ELSE IF Left(update.form, s) # "" THEN Left(update.form, s)
        ELSE IF update.form.config[s].overridden THEN Reset ELSE NoChange
  BY DEF ConfigChange, Left
<1>6. CASE Left(update.form, s) = update.form.config[s].value
  <2>1. ConfigChange(update.form, s) = NoChange
    BY <1>5, <1>6
  <2>2. LeftAlone(update.form, s)
    BY <1>6 DEF LeftAlone
  <2>. QED
    BY <1>3, <2>1, <2>2
<1>7. CASE Left(update.form, s) # update.form.config[s].value /\ Left(update.form, s) = ""
  <2>1. CASE update.form.config[s].overridden
    <3>1. ConfigChange(update.form, s) = Reset /\ Reset # NoChange
      BY <1>5, <1>7, <2>1 DEF Reset, NoChange
    <3>2. ~LeftAlone(update.form, s)
      BY <1>7, <2>1 DEF LeftAlone
    <3>. QED
      BY <1>3, <1>7, <3>1, <3>2
  <2>2. CASE ~update.form.config[s].overridden
    <3>1. ConfigChange(update.form, s) = NoChange
      BY <1>5, <1>7, <2>2
    <3>2. LeftAlone(update.form, s)
      BY <1>7, <2>2 DEF LeftAlone
    <3>. QED
      BY <1>3, <3>1, <3>2
  <2>. QED
    BY <2>1, <2>2
<1>8. CASE Left(update.form, s) # update.form.config[s].value /\ Left(update.form, s) # ""
  BY <1>3, <1>4, <1>5, <1>8 DEF LeftAlone
<1>. QED
  BY <1>6, <1>7, <1>8

\* Whatever other clients have changed between the form and the call, edit()
\* writes the settings the user has changed and no other.
THEOREM EditsKeepOthersChanges == EditSpec => OthersChangesAreKept
<1>1. EditInv /\ [EditNext]_editVars =>
        [update.stage = "alter" /\ update'.stage = "altered" =>
           /\ topic'.partitions = topic.partitions
           /\ \A s \in Settings :
                topic'.config[s] = IF LeftAlone(update.form, s) THEN topic.config[s]
                                   ELSE IF Left(update.form, s) = "" THEN Inherited(s)
                                   ELSE Override(Left(update.form, s))]_<<topic, update>>
  <2>. SUFFICES ASSUME EditInv, [EditNext]_editVars,
                       update.stage = "alter" /\ update'.stage = "altered"
                PROVE  /\ topic'.partitions = topic.partitions
                       /\ \A s \in Settings :
                            topic'.config[s] = IF LeftAlone(update.form, s) THEN topic.config[s]
                                               ELSE IF Left(update.form, s) = "" THEN Inherited(s)
                                               ELSE Override(Left(update.form, s))
    OBVIOUS
  <2>1. KafkaAlters
    BY DEF EditNext, ListRefreshed, ActionEdit, ConfigsLoaded, LoadFails, Save, Back,
           ApplyChanges, ActionNew, ActionCreate, ActionDelete, ConfirmDeletion, KafkaCreates,
           KafkaAdds, KafkaDeletes, CallReturns, CallRaises, OthersChange, editVars,
           NoUpdate, NewUpdate, Executes, Updated
  <2>2. topic'.partitions = topic.partitions
    BY <2>1 DEF KafkaAlters, EditInv, RecordsAreWhole
  <2>. QED
    BY <2>1, <2>2, AlterWritesChanges
<1>. QED
  BY <1>1, EditInvHolds, PTL DEF EditSpec, OthersChangesAreKept
----------------------------------------------------------------------------
(* The forms together.                                                     *)

LEMMA FormsAreIndependent == FormsSpec => Spec /\ EditSpec
<1>1. FormsInit => Init /\ EditInit
  BY DEF FormsInit
<1>2. [FormsNext]_<<vars, editVars>> => [Next]_vars /\ [EditNext]_editVars
  BY DEF FormsNext
<1>. QED
  BY <1>1, <1>2, PTL DEF FormsSpec, Spec, EditSpec

\* What the user is told of a reset, of each of its partitions, and of a change
\* of a topic is what Kafka has done, however its calls fail.
THEOREM AllChangesAreTold == FormsSpec => []ChangesAreTold
<1>1. OutcomeIsTold /\ UpdateIsTold => ChangesAreTold
  BY DEF ChangesAreTold
<1>. QED
  BY <1>1, FormsAreIndependent, OutcomesAreTold, UpdatesAreTold, PTL
=============================================================================

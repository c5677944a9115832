-------------------------- MODULE RecordDelivery --------------------------
(***************************************************************************)
(* Producer mode: the composer of kaskade/producer/composer.py with its    *)
(* Registry schema lookups, the ProducerService of                         *)
(* kaskade/producer_service.py, and the two threads that may use its       *)
(* client at once: the one that delivers and the one that closes.  A step  *)
(* of a thread runs from one read of shared state to the next.             *)
(***************************************************************************)
EXTENDS Integers, FiniteSets

CONSTANTS
  MaxRecords,       \* bound: attempts to produce
  RegistryFields,   \* the fields with a Registry serializer
  Drafts            \* bound: the drafts the user comes to

ASSUME DeliveryAssumption ==
  /\ MaxRecords \in Nat \ {0}
  /\ RegistryFields \subseteq {"key", "value"}
  /\ Drafts \subseteq [key : {"null", "fits", "text"}, value : {"null", "fits", "text"},
                       headers : {"named", "unnamed"}]

VARIABLES
  \* the composer
  mounted,        \* is the composer there?
  draft,          \* the record in the editors: of a field, that it is null, that
                  \* its text fits its schema, or that it is some other text; of
                  \* the headers, whether one has a value and no name
  changed,        \* does a message that the draft has changed wait?
  summary,        \* the problems the Summary shows
  is_producing,   \* RecordComposer.is_producing
  is_resolving,   \* RecordComposer.is_resolving
  missing,        \* the fields whose serializer needs a schema
  lookup,         \* the schema-lookup worker
  attempts,       \* attempts so far; the last is the record under way
  reported,       \* what the composer said of each attempt
  refused,        \* was an attempt refused by the service?
  \* the service
  delivering,     \* ProducerService._delivering
  closing,        \* ProducerService._closing
  client,         \* ProducerService._producer, 0 for None
  built,          \* how many clients were built
  thread,         \* the thread in _produce()
  closer,         \* on_unmount() and the thread in close()
  \* the clients and the cluster
  holder,         \* the client each record was queued with, 0 for none
  fate,           \* what became of each record
  callback        \* what on_delivery() was told of it

composerVars == <<mounted, draft, changed, summary, is_producing, is_resolving, missing, lookup,
                  attempts, reported, refused>>
serviceVars == <<delivering, closing, client, built, thread, closer>>
clusterVars == <<holder, fate, callback>>
vars == <<composerVars, serviceVars, clusterVars>>

Records == 1..MaxRecords
Fields == <<"key", "value">>

\* The editors as they are built: the empty text is no JSON, which a Registry
\* serializer takes.
Blank ==
  LET empty(f) == IF f \in RegistryFields THEN "text" ELSE "fits"
  IN  [key |-> empty("key"), value |-> empty("value"), headers |-> "named"]
Draft == Drafts \cup {Blank}

Lookup ==
  [stage : {"idle", "calling", "returned"}, field : 1..2, produce : BOOLEAN,
   cancelled : BOOLEAN]

NoLookup == [stage |-> "idle", field |-> 1, produce |-> FALSE, cancelled |-> FALSE]

Calling(field, produce) ==
  [stage |-> "calling", field |-> field, produce |-> produce, cancelled |-> FALSE]

\* result: what _produce() returns or raises; "broken" stands for the
\* AssertionError or AttributeError of a client that is None.
Thread ==
  [stage : {"idle", "starting", "queueing", "waiting", "polling", "ended"},
   result : {"none", "delivered", "failed", "broken"}, cancelled : BOOLEAN]

NoThread == [stage |-> "idle", result |-> "none", cancelled |-> FALSE]

----------------------------------------------------------------------------
\* What update_summary() lists, and what outgoing_record() stops at: text that
\* does not serialize, a schema that is not there yet, a header without a
\* name. A null needs no schema.
Problems(record, unresolved) ==
  {f \in {"key", "value"} :
     record[f] = "text" \/ (record[f] = "fits" /\ f \in unresolved)}
  \cup (IF record.headers = "unnamed" THEN {"headers"} ELSE {})

\* A lookup skips the fields that have their schema.
NextField(from) ==
  LET left == {i \in from..2 : Fields[i] \in missing}
  IN IF left = {} THEN 0 ELSE CHOOSE i \in left : \A j \in left : i <= j

\* KaskadeProducer.__init__ starts the service; on_mount() looks schemas up.
Init ==
  /\ mounted = TRUE
  /\ draft = Blank
  /\ is_producing = FALSE
  /\ missing = RegistryFields
  /\ changed = FALSE /\ summary = Problems(draft, missing)
  /\ is_resolving = (missing # {})
  /\ lookup = IF missing = {} THEN NoLookup ELSE Calling(NextField(1), FALSE)
  /\ attempts = 0
  /\ reported = [r \in Records |-> "nothing"]
  /\ refused = FALSE
  /\ delivering = FALSE
  /\ closing = FALSE
  /\ client = 1 /\ built = 1
  /\ thread = NoThread
  /\ closer = "none"
  /\ holder = [r \in Records |-> 0]
  /\ fate = [r \in Records |-> "none"]
  /\ callback = [r \in Records |-> "none"]
----------------------------------------------------------------------------
(* The composer.                                                           *)

\* A defect, of MayProduce: only the key press is checked.
MayProduceAnyway == TRUE

\* The check of produce_draft() itself.
MayProduce == ~is_producing

\* load_draft() updates the Summary; an edit leaves that to a message, and the
\* editors that are loaded send one too.
EditDraft ==
  /\ mounted
  /\ draft' \in Draft \ {draft}
  /\ changed' = TRUE
  /\ summary' \in {summary, Problems(draft', missing)}
  /\ UNCHANGED <<mounted, is_producing, is_resolving, missing, lookup, attempts,
                 reported, refused, serviceVars, clusterVars>>

\* draft_changed(), for the last of the messages that wait.
DraftChanged ==
  /\ mounted
  /\ changed
  /\ changed' = FALSE
  /\ summary' = Problems(draft, missing)
  /\ UNCHANGED <<mounted, draft, is_producing, is_resolving, missing, lookup, attempts,
                 reported, refused, serviceVars, clusterVars>>

\* produce_draft() and the first step of produce(), which asks the service
\* for its one delivery. A draft with a problem is not produced.
ProduceDraft ==
  IF MayProduce /\ Problems(draft, missing) = {} /\ attempts < MaxRecords
  THEN /\ attempts' = attempts + 1
       /\ is_producing' = TRUE
       /\ refused' = (refused \/ delivering)
       /\ delivering' = TRUE
       /\ thread' = IF delivering THEN thread ELSE [NoThread EXCEPT !.stage = "starting"]
  ELSE UNCHANGED <<attempts, is_producing, refused, delivering, thread>>

\* action_produce(): a failed lookup is tried again first.
Produce ==
  /\ mounted
  /\ ~is_producing
  /\ IF missing # {} /\ ~is_resolving
     THEN /\ is_resolving' = TRUE
          /\ lookup' = Calling(NextField(1), TRUE)
          /\ UNCHANGED <<attempts, is_producing, refused, delivering, thread>>
     ELSE ProduceDraft /\ UNCHANGED <<is_resolving, lookup>>
  /\ UNCHANGED <<mounted, draft, changed, summary, missing, reported, closing, client,
                 built, closer, clusterVars>>

\* serializer.resolve() in its thread: found, or the problem is kept.
LookupEnds ==
  /\ lookup.stage = "calling"
  /\ lookup' = [lookup EXCEPT !.stage = "returned"]
  /\ missing' \in {missing, missing \ {Fields[lookup.field]}}
  /\ UNCHANGED <<mounted, draft, changed, summary, is_producing, is_resolving, attempts,
                 reported, refused, serviceVars, clusterVars>>

\* A defect, of SummaryAfterLookup: only the editor is marked.
SummaryAsItWas == summary

\* resolve_schemas() updates the Summary when all lookups have ended.
SummaryAfterLookup == Problems(draft, missing)

\* resolve_schemas() goes on: to the next field, or to the end. Without its
\* editors it fails.
LookupReturns ==
  /\ lookup.stage = "returned"
  /\ LET next == NextField(lookup.field + 1)
         goesOn == ~lookup.cancelled /\ mounted
     IN IF next # 0 /\ goesOn
        THEN /\ lookup' = Calling(next, lookup.produce)
             /\ UNCHANGED <<summary, is_resolving, attempts, is_producing, refused,
                            delivering, thread>>
        ELSE /\ lookup' = NoLookup
             /\ is_resolving' = FALSE
             /\ summary' = IF goesOn THEN SummaryAfterLookup ELSE summary
             /\ IF lookup.produce /\ goesOn THEN ProduceDraft
                ELSE UNCHANGED <<attempts, is_producing, refused, delivering, thread>>
  /\ UNCHANGED <<mounted, draft, changed, missing, reported, closing, client, built,
                 closer, clusterVars>>

\* produce() in the composer gets the outcome; it says nothing of it when it
\* was cancelled or is gone, or when the exception is not a DeliveryError.
DeliveryReturns ==
  /\ thread.stage = "ended"
  /\ reported' = IF thread.cancelled \/ ~mounted \/ thread.result = "broken" THEN reported
                 ELSE [reported EXCEPT ![attempts] = thread.result]
  /\ is_producing' = FALSE
  /\ delivering' = FALSE
  /\ thread' = NoThread
  /\ UNCHANGED <<mounted, draft, changed, summary, is_resolving, missing, lookup,
                 attempts, refused, closing, client, built, closer, clusterVars>>
----------------------------------------------------------------------------
(* _produce(), in a thread.                                                *)

threadOnly == <<composerVars, delivering, closing, closer>>

Ends(result) ==
  thread' = [stage |-> "ended", result |-> result, cancelled |-> thread.cancelled]

\* start() builds a client where there is none.
StartReturns ==
  /\ thread.stage = "starting"
  /\ thread' = [thread EXCEPT !.stage = "queueing"]
  /\ IF client = 0 THEN client' = built + 1 /\ built' = built + 1
     ELSE UNCHANGED <<client, built>>
  /\ UNCHANGED <<threadOnly, clusterVars>>

\* Producer.produce() queues the record, or refuses it: its queue is full, or
\* the record is too large.
Queue ==
  /\ thread.stage = "queueing"
  /\ \/ /\ client # 0
        /\ thread' = [thread EXCEPT !.stage = "waiting"]
        /\ holder' = [holder EXCEPT ![attempts] = client]
        /\ fate' = [fate EXCEPT ![attempts] = "queued"]
     \/ /\ Ends(IF client = 0 THEN "broken" ELSE "failed")
        /\ UNCHANGED <<holder, fate>>
  /\ UNCHANGED <<threadOnly, client, built, callback>>

\* A defect, of Outcome: the list of outcomes is the service's.
OutcomeOfAny ==
  IF \E r \in 1..attempts : callback[r] # "none"
  THEN callback[CHOOSE r \in 1..attempts : callback[r] # "none"]
  ELSE "none"

\* What on_delivery() has appended to this call's own outcome.
Outcome == callback[attempts]

\* The head of the loop: an outcome, closing or the deadline ends it.
Concludes ==
  /\ thread.stage = "waiting"
  /\ \/ Outcome = "acknowledged" /\ Ends("delivered")
     \/ Outcome = "error" /\ Ends("failed")
     \/ Outcome = "none" /\ closing /\ Ends("failed")
  /\ UNCHANGED <<threadOnly, client, built, clusterVars>>

\* A defect, of DeadlinePasses: the clock is looked at only when closing.
DeadlineUnseen ==
  /\ thread.stage = "waiting"
  /\ Outcome = "none" /\ closing
  /\ Ends("failed")
  /\ UNCHANGED <<threadOnly, client, built, clusterVars>>

DeadlinePasses ==
  /\ thread.stage = "waiting"
  /\ Outcome = "none" /\ ~closing
  /\ Ends("failed")
  /\ UNCHANGED <<threadOnly, client, built, clusterVars>>

GoesOnPolling ==
  /\ thread.stage = "waiting"
  /\ Outcome = "none" /\ ~closing
  /\ thread' = [thread EXCEPT !.stage = "polling"]
  /\ UNCHANGED <<threadOnly, client, built, clusterVars>>

\* A client serves the callbacks of all its records whose fate is known.
ServeCallbacks(c) ==
  callback' = [r \in Records |->
    IF holder[r] = c /\ callback[r] = "none" /\ fate[r] \in {"written", "rejected"}
    THEN IF fate[r] = "written" THEN "acknowledged" ELSE "error"
    ELSE callback[r]]

PollReturns ==
  /\ thread.stage = "polling"
  /\ IF client = 0 THEN Ends("broken") /\ UNCHANGED callback
     ELSE /\ thread' = [thread EXCEPT !.stage = "waiting"]
          /\ ServeCallbacks(client)
  /\ UNCHANGED <<threadOnly, client, built, holder, fate>>
----------------------------------------------------------------------------
(* Closing.                                                                *)

\* on_unmount(): aclose() sets _closing and leaves the rest to a thread.  What
\* waits for the composer is not handled any more.
Unmount ==
  /\ mounted
  /\ mounted' = FALSE /\ changed' = FALSE
  /\ closing' = TRUE
  /\ closer' = "closing"
  /\ UNCHANGED <<draft, summary, is_producing, is_resolving, missing, lookup, attempts,
                 reported, refused, delivering, client, built, thread, clusterVars>>

closerOnly == <<composerVars, delivering, closing, built, thread>>

CloseBegins ==
  /\ closer = "closing"
  /\ closer' = IF client = 0 THEN "closed" ELSE "flushing"
  /\ UNCHANGED <<closerOnly, client, clusterVars>>

\* A defect, of FlushReturns: flush() has no timeout.
FlushReturnsEmpty ==
  /\ closer = "flushing"
  /\ \A r \in Records : holder[r] = client => fate[r] # "queued"
  /\ ServeCallbacks(client)
  /\ closer' = "flushed"
  /\ UNCHANGED <<closerOnly, client, holder, fate>>

\* flush() returns when nothing is left, or when its time is up.
FlushReturns ==
  /\ closer = "flushing"
  /\ ServeCallbacks(client)
  /\ closer' = "flushed"
  /\ UNCHANGED <<closerOnly, client, holder, fate>>

DropClient ==
  /\ closer = "flushed"
  /\ client' = 0
  /\ closer' = "closed"
  /\ UNCHANGED <<closerOnly, clusterVars>>

\* The Registry client is closed last.
CloseSerializers ==
  /\ closer = "closed"
  /\ closer' = "done"
  /\ UNCHANGED <<closerOnly, client, clusterVars>>

\* Textual cancels the composer's workers at some point of its removal; they
\* wait for their threads.
CancelWorkers ==
  /\ ~mounted
  /\ lookup' = IF lookup.stage = "idle" THEN lookup ELSE [lookup EXCEPT !.cancelled = TRUE]
  /\ thread' = IF thread.stage = "idle" THEN thread ELSE [thread EXCEPT !.cancelled = TRUE]
  /\ UNCHANGED <<mounted, draft, changed, summary, is_producing, is_resolving, missing,
                 attempts, reported, refused, delivering, closing, client, built,
                 closer, clusterVars>>
----------------------------------------------------------------------------
(* The cluster, outside the program: a queued record is written or         *)
(* rejected, at any time or never.                                         *)

ClusterAnswers ==
  /\ \E r \in Records, answer \in {"written", "rejected"} :
       fate[r] = "queued" /\ fate' = [fate EXCEPT ![r] = answer]
  /\ UNCHANGED <<composerVars, serviceVars, holder, callback>>
----------------------------------------------------------------------------
LookupStep == LookupEnds \/ LookupReturns

DeliveryStep ==
  \/ StartReturns \/ Queue \/ Concludes \/ GoesOnPolling \/ PollReturns
  \/ DeliveryReturns

CloseStep == CloseBegins \/ FlushReturns \/ DropClient \/ CloseSerializers

Next ==
  \/ EditDraft \/ DraftChanged \/ Produce \/ Unmount \/ CancelWorkers
  \/ LookupStep \/ DeliveryStep \/ DeadlinePasses \/ CloseStep
  \/ ClusterAnswers

Spec == Init /\ [][Next]_vars

\* Threads run, blocking calls return and the delivery deadline passes.  The
\* deadline is strongly fair: the loop looks at the clock each time it comes
\* round.  Nothing is assumed of the cluster or of the user.
FairSpec ==
  Spec /\ WF_vars(LookupStep) /\ WF_vars(DeliveryStep) /\ WF_vars(CloseStep)
       /\ SF_vars(DeadlinePasses)
----------------------------------------------------------------------------
TypeOK ==
  /\ mounted \in BOOLEAN /\ is_producing \in BOOLEAN /\ is_resolving \in BOOLEAN
  /\ draft \in Draft
  /\ missing \subseteq RegistryFields
  /\ changed \in BOOLEAN /\ summary \subseteq {"key", "value", "headers"}
  /\ lookup \in Lookup
  /\ attempts \in 0..MaxRecords
  /\ reported \in [Records -> {"nothing", "delivered", "failed"}]
  /\ refused \in BOOLEAN
  /\ delivering \in BOOLEAN /\ closing \in BOOLEAN
  /\ client \in 0..2 /\ built \in 1..2
  /\ thread \in Thread
  /\ closer \in {"none", "closing", "flushing", "flushed", "closed", "done"}
  /\ holder \in [Records -> 0..2]
  /\ fate \in [Records -> {"none", "queued", "written", "rejected"}]
  /\ callback \in [Records -> {"none", "acknowledged", "error"}]

\* "Allow one delivery at a time": the composer never asks the service for a
\* second one, whose DeliveryInProgressError nobody catches, not even when a
\* lookup that was to produce ends after the user has produced.
NeverRefused == ~refused

\* When no lookup is under way and no message waits, the Summary says of the
\* draft what producing it would: "Ready to produce" exactly when it would be
\* produced, although the schemas are found by threads, field after field,
\* while the draft is edited.
SummaryIsCurrent ==
  mounted /\ ~is_resolving /\ ~changed => summary = Problems(draft, missing)

\* A record is reported as delivered only when the cluster has written it and
\* not an earlier one whose acknowledgement is late.
Reported == INSTANCE ReportedDelivery
  WITH current <- IF delivering THEN attempts ELSE 0,
       written <- {r \in Records : fate[r] = "written"}

RefinesReportedDelivery == Reported!Spec

\* A delivery ends, whatever the cluster does: its deadline bounds the wait.
DeliveriesEnd == []<>~is_producing

\* "... so shutdown never hangs."
ShutdownEnds == ~mounted ~> closer = "done"

\* "When Kaskade closes, it flushes queued records": a record that is in a
\* client's hands when the client is given up was there before its flush.
QueuedRecordsAreFlushed ==
  [][\A r \in Records :
       fate[r] # "queued" /\ fate'[r] = "queued" => closer \notin {"flushed", "closed", "done"}]_vars
============================================================================

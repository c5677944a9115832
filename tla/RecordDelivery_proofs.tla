------------------------ MODULE RecordDelivery_proofs ------------------------
(***************************************************************************)
(* Producer mode delivers one record at a time and reports as delivered    *)
(* only what the cluster has written, for any number of records and any    *)
(* drafts, however lookups, threads, acknowledgements and closing          *)
(* interleave.                                                             *)
(***************************************************************************)
EXTENDS RecordDelivery, TLAPS

\* The composer and the service agree: is_producing is set exactly while the
\* service delivers, and then a thread is in _produce().
OneDelivery ==
  /\ is_producing = delivering
  /\ delivering <=> thread.stage # "idle"
  /\ delivering => attempts # 0
  /\ ~refused

\* A second client is only built after close() has dropped the first.
OneClient ==
  /\ client = 0 => built = 1 /\ closer \in {"closed", "done"}
  /\ built = 2 => closer \in {"closed", "done"}
  /\ mounted => closer = "none"

\* What the cluster did is only known of records that were queued, and an
\* attempt ends as delivered for its own acknowledgement.
OwnOutcome ==
  /\ \A r \in Records :
       /\ r > attempts => reported[r] = "nothing" /\ fate[r] = "none"
       /\ callback[r] # "none" => fate[r] \in {"written", "rejected"}
       /\ callback[r] = "acknowledged" => fate[r] = "written"
  /\ thread.stage \in {"starting", "queueing"} => fate[attempts] = "none"
  /\ thread.stage = "ended" =>
       /\ thread.result # "none"
       /\ thread.result = "delivered" => fate[attempts] = "written"

\* A schema is only found during a lookup, a lookup that ends under the
\* composer's eyes updates the Summary, and an edit sends a message.
FreshSummary ==
  /\ is_resolving <=> lookup.stage # "idle"
  /\ lookup.cancelled => ~mounted
  /\ mounted /\ ~is_resolving /\ ~changed => summary = Problems(draft, missing)

IInv == TypeOK /\ OneDelivery /\ OneClient /\ OwnOutcome /\ FreshSummary

LEMMA NextFieldFound ==
  ASSUME NEW from \in {1, 2}
  PROVE  /\ NextField(from) \in 0..2
         /\ from = 1 /\ missing # {} /\ missing \subseteq {"key", "value"} => NextField(from) # 0
<1>. DEFINE left == {i \in from..2 : Fields[i] \in missing}
<1>1. CASE left = {}
  <2>1. NextField(from) = 0
    BY <1>1 DEF NextField
  <2>2. from = 1 => Fields[1] \notin missing /\ Fields[2] \notin missing
    BY <1>1
  <2>. QED
    BY <2>1, <2>2 DEF Fields
<1>2. CASE left # {}
  <2>1. \E i \in left : \A j \in left : i <= j
    <3>1. CASE from \in left
      BY <3>1
    <3>2. CASE from \notin left
      BY <1>2, <3>2
    <3>. QED
      BY <3>1, <3>2
  <2>2. NextField(from) \in left
    BY <1>2, <2>1 DEF NextField
  <2>. QED
    BY <2>2
<1>. QED
  BY <1>1, <1>2

LEMMA ProblemsListed ==
  ASSUME NEW record, NEW unresolved
  PROVE  Problems(record, unresolved) \subseteq {"key", "value", "headers"}
BY DEF Problems

LEMMA CallingLookup ==
  ASSUME NEW field \in 1..2, NEW produce \in BOOLEAN
  PROVE  Calling(field, produce) \in Lookup
BY DEF Calling, Lookup

LEMMA InitIInv == Init => IInv
<1>. SUFFICES ASSUME Init PROVE IInv
  OBVIOUS
<1>1. missing \subseteq RegistryFields /\ RegistryFields \subseteq {"key", "value"}
  BY DeliveryAssumption DEF Init
<1>2. missing # {} => NextField(1) \in 1..2
  <2>1. /\ NextField(1) \in 0..2
        /\ missing # {} /\ missing \subseteq {"key", "value"} => NextField(1) # 0
    BY NextFieldFound
  <2>. QED
    BY <1>1, <2>1
<1>3. lookup \in Lookup
  <2>1. CASE missing = {}
    BY <2>1, SMTT(20) DEF Init, Lookup, NoLookup
  <2>2. CASE missing # {}
    BY <2>2, <1>2, CallingLookup DEF Init
  <2>. QED
    BY <2>1, <2>2
<1>4. TypeOK
  <2>1. /\ mounted \in BOOLEAN /\ is_producing \in BOOLEAN /\ is_resolving \in BOOLEAN
        /\ refused \in BOOLEAN
        /\ delivering \in BOOLEAN /\ closing \in BOOLEAN
    BY Zenon DEF Init
  <2>2. thread \in Thread
    BY DEF Init, Thread, NoThread
  <2>3. /\ draft \in Draft
        /\ missing \subseteq RegistryFields
        /\ attempts \in 0..MaxRecords
    BY DeliveryAssumption DEF Init, Draft
  <2>6. changed \in BOOLEAN /\ summary \subseteq {"key", "value", "headers"}
    BY ProblemsListed, Zenon DEF Init
  <2>5. /\ client \in 0..2 /\ built \in 1..2
        /\ closer \in {"none", "closing", "flushing", "flushed", "closed", "done"}
    BY DEF Init
  <2>4. /\ reported \in [Records -> {"nothing", "delivered", "failed"}]
        /\ holder \in [Records -> 0..2]
        /\ fate \in [Records -> {"none", "queued", "written", "rejected"}]
        /\ callback \in [Records -> {"none", "acknowledged", "error"}]
    BY DEF Init
  <2>. QED
    BY <1>3, <2>1, <2>2, <2>3, <2>4, <2>5, <2>6 DEF TypeOK
<1>5. OneDelivery
  BY Zenon DEF Init, OneDelivery, NoThread
<1>6. OneClient
  BY DEF Init, OneClient
<1>7. OwnOutcome
  BY DEF Init, OwnOutcome, NoThread
<1>8. FreshSummary
  BY DEF Init, FreshSummary, NoLookup, Calling
<1>. QED
  BY <1>4, <1>5, <1>6, <1>7, <1>8 DEF IInv

\* produce_draft() begins the next attempt, or does nothing: the service is
\* idle when the composer is.
Begins ==
  /\ ~delivering /\ thread.stage = "idle"
  /\ attempts < MaxRecords /\ attempts' = attempts + 1
  /\ is_producing' = TRUE /\ delivering' = TRUE
  /\ refused' = refused
  /\ thread' = [stage |-> "starting", result |-> "none", cancelled |-> FALSE]

Idles == UNCHANGED <<attempts, is_producing, refused, delivering, thread>>

LEMMA ProduceDraftStep == IInv /\ ProduceDraft => Begins \/ Idles
<1>. SUFFICES ASSUME IInv, ProduceDraft, ~Idles PROVE Begins
  OBVIOUS
<1>1. MayProduce /\ attempts < MaxRecords
  BY DEF ProduceDraft, Idles
<1>2. /\ attempts' = attempts + 1
      /\ is_producing' = TRUE
      /\ refused' = (refused \/ delivering)
      /\ delivering' = TRUE
      /\ thread' = IF delivering THEN thread ELSE [NoThread EXCEPT !.stage = "starting"]
  BY DEF ProduceDraft, Idles
<1>3. ~delivering /\ thread.stage = "idle" /\ ~refused
  BY <1>1 DEF IInv, OneDelivery, MayProduce
<1>4. refused' = refused
  BY <1>2, <1>3, Zenon DEF IInv, TypeOK
<1>5. thread' = [stage |-> "starting", result |-> "none", cancelled |-> FALSE]
  BY <1>2, <1>3 DEF NoThread
<1>. QED
  BY <1>1, <1>2, <1>3, <1>4, <1>5 DEF Begins

\* Only produce_draft() begins a delivery, and it looks at is_producing.
LEMMA OneDeliveryKept == IInv /\ [Next]_vars => OneDelivery'
<1>. SUFFICES ASSUME IInv, [Next]_vars PROVE OneDelivery'
  OBVIOUS
<1>. USE DEF IInv, composerVars, serviceVars, clusterVars, threadOnly, closerOnly
<1>1. CASE EditDraft
  BY <1>1 DEF EditDraft, OneDelivery, TypeOK, Thread
<1>2. CASE Produce
  <2>1. UNCHANGED <<reported, fate, callback>>
    BY <1>2 DEF Produce
  <2>2. ProduceDraft \/ Idles
    BY <1>2 DEF Produce, Idles
  <2>3. CASE Begins
    BY <2>1, <2>3 DEF Begins, OneDelivery, TypeOK
  <2>4. CASE Idles
    BY <2>1, <2>4 DEF Idles, OneDelivery, TypeOK
  <2>. QED
    BY <2>2, <2>3, <2>4, ProduceDraftStep
<1>3. CASE Unmount
  BY <1>3 DEF Unmount, OneDelivery, TypeOK, Thread
<1>4. CASE CancelWorkers
  BY <1>4 DEF CancelWorkers, OneDelivery, TypeOK, Thread
<1>5. CASE LookupEnds
  BY <1>5 DEF LookupEnds, OneDelivery, TypeOK, Thread
<1>6. CASE LookupReturns
  <2>1. UNCHANGED <<reported, fate, callback>>
    BY <1>6 DEF LookupReturns
  <2>2. ProduceDraft \/ Idles
    BY <1>6 DEF LookupReturns, Idles
  <2>3. CASE Begins
    BY <2>1, <2>3 DEF Begins, OneDelivery, TypeOK
  <2>4. CASE Idles
    BY <2>1, <2>4 DEF Idles, OneDelivery, TypeOK
  <2>. QED
    BY <2>2, <2>3, <2>4, ProduceDraftStep
<1>7. CASE StartReturns
  BY <1>7 DEF StartReturns, OneDelivery, TypeOK, Thread
<1>8. CASE Queue
  BY <1>8 DEF Queue, OneDelivery, TypeOK, Thread, Ends
<1>9. CASE Concludes
  BY <1>9 DEF Concludes, OneDelivery, TypeOK, Thread, Ends, Outcome
<1>10. CASE GoesOnPolling
  BY <1>10 DEF GoesOnPolling, OneDelivery, TypeOK, Thread, Outcome
<1>11. CASE PollReturns
  BY <1>11 DEF PollReturns, OneDelivery, TypeOK, Thread, Ends, ServeCallbacks
<1>12. CASE DeliveryReturns
  BY <1>12 DEF DeliveryReturns, OneDelivery, TypeOK, Thread, NoThread
<1>13. CASE DeadlinePasses
  BY <1>13 DEF DeadlinePasses, OneDelivery, TypeOK, Thread, Ends, Outcome
<1>14. CASE CloseBegins
  BY <1>14 DEF CloseBegins, OneDelivery, TypeOK, Thread
<1>15. CASE FlushReturns
  BY <1>15 DEF FlushReturns, OneDelivery, TypeOK, Thread, ServeCallbacks
<1>16. CASE DropClient
  BY <1>16 DEF DropClient, OneDelivery, TypeOK, Thread
<1>17. CASE CloseSerializers
  BY <1>17 DEF CloseSerializers, OneDelivery, TypeOK, Thread
<1>18. CASE ClusterAnswers
  BY <1>18 DEF ClusterAnswers, OneDelivery, TypeOK, Thread
<1>19. CASE UNCHANGED vars
  BY <1>19 DEF vars, OneDelivery, TypeOK, Thread
<1>20. CASE DraftChanged
  BY <1>20 DEF DraftChanged, OneDelivery, TypeOK, Thread
<1>. QED
  BY <1>1, <1>2, <1>3, <1>4, <1>5, <1>6, <1>7, <1>8, <1>9, <1>10, <1>11, <1>12, <1>13, <1>14, <1>15, <1>16, <1>17, <1>18,
     <1>19, <1>20 DEF Next, LookupStep, DeliveryStep, CloseStep

\* A client is dropped by close(), and never after the one built anew.
LEMMA OneClientKept == IInv /\ [Next]_vars => OneClient'
<1>. SUFFICES ASSUME IInv, [Next]_vars PROVE OneClient'
  OBVIOUS
<1>. USE DEF IInv, composerVars, serviceVars, clusterVars, threadOnly, closerOnly
<1>1. CASE EditDraft
  BY <1>1 DEF EditDraft, OneClient, TypeOK
<1>2. CASE Produce
  BY <1>2 DEF Produce, OneClient, TypeOK, ProduceDraft, NoThread, MayProduce
<1>3. CASE Unmount
  BY <1>3 DEF Unmount, OneClient, TypeOK
<1>4. CASE CancelWorkers
  BY <1>4 DEF CancelWorkers, OneClient, TypeOK
<1>5. CASE LookupEnds
  BY <1>5 DEF LookupEnds, OneClient, TypeOK
<1>6. CASE LookupReturns
  BY <1>6 DEF LookupReturns, OneClient, TypeOK, ProduceDraft, NoThread, MayProduce
<1>7. CASE StartReturns
  BY <1>7 DEF StartReturns, OneClient, TypeOK
<1>8. CASE Queue
  BY <1>8 DEF Queue, OneClient, TypeOK, Ends
<1>9. CASE Concludes
  BY <1>9 DEF Concludes, OneClient, TypeOK, Ends, Outcome
<1>10. CASE GoesOnPolling
  BY <1>10 DEF GoesOnPolling, OneClient, TypeOK, Outcome
<1>11. CASE PollReturns
  BY <1>11 DEF PollReturns, OneClient, TypeOK, Ends, ServeCallbacks
<1>12. CASE DeliveryReturns
  BY <1>12 DEF DeliveryReturns, OneClient, TypeOK, NoThread
<1>13. CASE DeadlinePasses
  BY <1>13 DEF DeadlinePasses, OneClient, TypeOK, Ends, Outcome
<1>14. CASE CloseBegins
  BY <1>14 DEF CloseBegins, OneClient, TypeOK
<1>15. CASE FlushReturns
  BY <1>15 DEF FlushReturns, OneClient, TypeOK, ServeCallbacks
<1>16. CASE DropClient
  BY <1>16 DEF DropClient, OneClient, TypeOK
<1>17. CASE CloseSerializers
  BY <1>17 DEF CloseSerializers, OneClient, TypeOK
<1>18. CASE ClusterAnswers
  BY <1>18 DEF ClusterAnswers, OneClient, TypeOK
<1>19. CASE UNCHANGED vars
  BY <1>19 DEF vars, OneClient, TypeOK
<1>20. CASE DraftChanged
  BY <1>20 DEF DraftChanged, OneClient, TypeOK
<1>. QED
  BY <1>1, <1>2, <1>3, <1>4, <1>5, <1>6, <1>7, <1>8, <1>9, <1>10, <1>11, <1>12, <1>13, <1>14, <1>15, <1>16, <1>17, <1>18,
     <1>19, <1>20 DEF Next, LookupStep, DeliveryStep, CloseStep

\* Of an attempt that begins nothing is known.
LEMMA BeginsOwnOutcome ==
  ASSUME IInv, Begins, UNCHANGED <<reported, fate, callback>>
  PROVE  OwnOutcome'
<1>1. attempts \in Nat /\ attempts' = attempts + 1 /\ attempts' \in Records
  BY DeliveryAssumption DEF Begins, IInv, TypeOK, Records
<1>2. thread'.stage = "starting"
  BY DEF Begins
<1>3. \A r \in Records : r > attempts' => r > attempts
  BY <1>1 DEF Records
<1>4. \A r \in Records : r > attempts => reported[r] = "nothing" /\ fate[r] = "none"
  BY DEF IInv, OwnOutcome
<1>5. fate[attempts'] = "none"
  BY <1>1, <1>4
<1>6. \A r \in Records :
        /\ callback[r] # "none" => fate[r] \in {"written", "rejected"}
        /\ callback[r] = "acknowledged" => fate[r] = "written"
  BY DEF IInv, OwnOutcome
<1>. QED
  BY <1>2, <1>3, <1>4, <1>5, <1>6 DEF OwnOutcome

\* The callbacks of the clients tell of each record what became of it.
LEMMA OwnOutcomeKept == IInv /\ [Next]_vars => OwnOutcome'
<1>. SUFFICES ASSUME IInv, [Next]_vars PROVE OwnOutcome'
  OBVIOUS
<1>. USE DEF IInv, composerVars, serviceVars, clusterVars, threadOnly, closerOnly
<1>1. CASE EditDraft
  BY <1>1 DEF EditDraft, OwnOutcome, TypeOK, OneDelivery, Thread, Records
<1>2. CASE Produce
  <2>1. UNCHANGED <<reported, fate, callback>>
    BY <1>2 DEF Produce
  <2>2. ProduceDraft \/ Idles
    BY <1>2 DEF Produce, Idles
  <2>3. CASE Begins
    BY <2>1, <2>3, BeginsOwnOutcome
  <2>4. CASE Idles
    BY <2>1, <2>4 DEF Idles, OwnOutcome, OneDelivery, TypeOK, Records
  <2>. QED
    BY <2>2, <2>3, <2>4, ProduceDraftStep
<1>3. CASE Unmount
  BY <1>3 DEF Unmount, OwnOutcome, TypeOK, OneDelivery, Thread, Records
<1>4. CASE CancelWorkers
  BY <1>4 DEF CancelWorkers, OwnOutcome, TypeOK, OneDelivery, Thread, Records
<1>5. CASE LookupEnds
  BY <1>5 DEF LookupEnds, OwnOutcome, TypeOK, OneDelivery, Thread, Records
<1>6. CASE LookupReturns
  <2>1. UNCHANGED <<reported, fate, callback>>
    BY <1>6 DEF LookupReturns
  <2>2. ProduceDraft \/ Idles
    BY <1>6 DEF LookupReturns, Idles
  <2>3. CASE Begins
    BY <2>1, <2>3, BeginsOwnOutcome
  <2>4. CASE Idles
    BY <2>1, <2>4 DEF Idles, OwnOutcome, OneDelivery, TypeOK, Records
  <2>. QED
    BY <2>2, <2>3, <2>4, ProduceDraftStep
<1>7. CASE StartReturns
  BY <1>7 DEF StartReturns, OwnOutcome, TypeOK, OneDelivery, Thread, Records
<1>8. CASE Queue
  <2>1. /\ attempts \in Records /\ attempts' = attempts /\ UNCHANGED <<reported, callback>>
        /\ fate[attempts] = "none"
    BY <1>8 DEF Queue, TypeOK, OneDelivery, OwnOutcome, Records
  <2>2. callback[attempts] = "none"
    BY <2>1 DEF OwnOutcome
  <2>3. CASE /\ thread' = [thread EXCEPT !.stage = "waiting"]
             /\ fate' = [fate EXCEPT ![attempts] = "queued"]
    <3>1. thread'.stage = "waiting"
      BY <2>3 DEF TypeOK, Thread
    <3>2. \A r \in Records : fate'[r] = IF r = attempts THEN "queued" ELSE fate[r]
      BY <2>3 DEF TypeOK
    <3>3. \A r \in Records : r > attempts => r # attempts
      BY <2>1 DEF Records
    <3>. QED
      BY <2>1, <2>2, <3>1, <3>2, <3>3 DEF OwnOutcome
  <2>4. CASE Ends(IF client = 0 THEN "broken" ELSE "failed") /\ UNCHANGED fate
    BY <2>1, <2>4 DEF Ends, OwnOutcome
  <2>. QED
    BY <1>8, <2>3, <2>4 DEF Queue
<1>9. CASE Concludes
  BY <1>9 DEF Concludes, OwnOutcome, TypeOK, OneDelivery, Thread, Records, Ends, Outcome
<1>10. CASE GoesOnPolling
  BY <1>10 DEF GoesOnPolling, OwnOutcome, TypeOK, OneDelivery, Thread, Records, Outcome
<1>11. CASE PollReturns
  <2>1. UNCHANGED <<attempts, reported, fate>>
    BY <1>11 DEF PollReturns
  <2>2. CASE Ends("broken") /\ UNCHANGED callback
    BY <2>1, <2>2 DEF Ends, OwnOutcome
  <2>3. CASE thread' = [thread EXCEPT !.stage = "waiting"] /\ ServeCallbacks(client)
    <3>1. thread'.stage = "waiting"
      BY <2>3 DEF TypeOK, Thread
    <3>. QED
      BY <2>1, <2>3, <3>1 DEF ServeCallbacks, OwnOutcome
  <2>. QED
    BY <1>11, <2>2, <2>3 DEF PollReturns
<1>12. CASE DeliveryReturns
  BY <1>12 DEF DeliveryReturns, OwnOutcome, TypeOK, OneDelivery, Thread, Records, NoThread
<1>13. CASE DeadlinePasses
  BY <1>13 DEF DeadlinePasses, OwnOutcome, TypeOK, OneDelivery, Thread, Records, Ends, Outcome
<1>14. CASE CloseBegins
  BY <1>14 DEF CloseBegins, OwnOutcome, TypeOK, OneDelivery, Thread, Records
<1>15. CASE FlushReturns
  BY <1>15 DEF FlushReturns, OwnOutcome, TypeOK, OneDelivery, Thread, Records, ServeCallbacks
<1>16. CASE DropClient
  BY <1>16 DEF DropClient, OwnOutcome, TypeOK, OneDelivery, Thread, Records
<1>17. CASE CloseSerializers
  BY <1>17 DEF CloseSerializers, OwnOutcome, TypeOK, OneDelivery, Thread, Records
<1>18. CASE ClusterAnswers
  BY <1>18 DEF ClusterAnswers, OwnOutcome, TypeOK, OneDelivery, Thread, Records
<1>19. CASE UNCHANGED vars
  BY <1>19 DEF vars, OwnOutcome, TypeOK, OneDelivery, Thread, Records
<1>20. CASE DraftChanged
  BY <1>20 DEF DraftChanged, OwnOutcome, TypeOK, OneDelivery, Thread, Records
<1>. QED
  BY <1>1, <1>2, <1>3, <1>4, <1>5, <1>6, <1>7, <1>8, <1>9, <1>10, <1>11, <1>12, <1>13, <1>14, <1>15, <1>16, <1>17, <1>18,
     <1>19, <1>20 DEF Next, LookupStep, DeliveryStep, CloseStep

\* What produce_draft() writes has its type.
LEMMA ProduceDraftTypes ==
  ASSUME IInv, Begins \/ Idles
  PROVE  /\ attempts' \in 0..MaxRecords
         /\ is_producing' \in BOOLEAN /\ refused' \in BOOLEAN /\ delivering' \in BOOLEAN
         /\ thread' \in Thread
<1>1. CASE Begins
  BY <1>1, DeliveryAssumption DEF Begins, IInv, TypeOK, Thread
<1>2. CASE Idles
  BY <1>2 DEF Idles, IInv, TypeOK
<1>. QED
  BY <1>1, <1>2

\* What each step writes has its type: there are never more than two clients.
LEMMA TypeKept == IInv /\ [Next]_vars => TypeOK'
<1>. SUFFICES ASSUME IInv, [Next]_vars PROVE TypeOK'
  OBVIOUS
<1>. USE DEF IInv, composerVars, serviceVars, clusterVars, threadOnly, closerOnly
<1>1. CASE EditDraft
  BY <1>1, ProblemsListed DEF EditDraft, TypeOK
<1>2. CASE Produce
  <2>1. ProduceDraft \/ Idles
    BY <1>2 DEF Produce, Idles
  <2>2. UNCHANGED <<mounted, draft, changed, summary, missing, reported, closing, client,
                    built, closer, clusterVars>>
    BY <1>2 DEF Produce
  <2>3. lookup' \in Lookup /\ is_resolving' \in BOOLEAN
    <3>1. CASE lookup' = Calling(NextField(1), TRUE) /\ missing # {} /\ is_resolving' = TRUE
      <4>1. /\ NextField(1) \in 0..2
            /\ missing # {} /\ missing \subseteq {"key", "value"} => NextField(1) # 0
        BY NextFieldFound
      <4>2. NextField(1) \in 1..2
        BY <3>1, <4>1, DeliveryAssumption DEF TypeOK
      <4>. QED
        BY <3>1, <4>2, CallingLookup
    <3>2. CASE UNCHANGED <<is_resolving, lookup>>
      BY <3>2 DEF TypeOK
    <3>. QED
      BY <1>2, <3>1, <3>2 DEF Produce
  <2>. QED
    BY <2>1, <2>2, <2>3, ProduceDraftStep, ProduceDraftTypes DEF TypeOK
<1>3. CASE Unmount
  BY <1>3 DEF Unmount, TypeOK
<1>4. CASE CancelWorkers
  <2>1. lookup' \in Lookup
    BY <1>4 DEF CancelWorkers, TypeOK, Lookup
  <2>2. thread' \in Thread
    BY <1>4 DEF CancelWorkers, TypeOK, Thread
  <2>. QED
    BY <1>4, <2>1, <2>2 DEF CancelWorkers, TypeOK
<1>5. CASE LookupEnds
  BY <1>5 DEF LookupEnds, TypeOK, Lookup
<1>6. CASE LookupReturns
  <2>1. ProduceDraft \/ Idles
    BY <1>6 DEF LookupReturns, Idles
  <2>2. UNCHANGED <<mounted, draft, changed, missing, reported, closing, client, built,
                    closer, clusterVars>>
    BY <1>6 DEF LookupReturns
  <2>3. lookup' \in Lookup
    <3>1. CASE /\ NextField(lookup.field + 1) # 0
               /\ lookup' = Calling(NextField(lookup.field + 1), lookup.produce)
      <4>1. lookup.field \in {1, 2} /\ lookup.produce \in BOOLEAN
        BY DEF TypeOK, Lookup
      <4>2. lookup.field = 1
        BY <3>1, <4>1 DEF NextField
      <4>3. NextField(2) \in 0..2
        BY NextFieldFound
      <4>. QED
        BY <3>1, <4>1, <4>2, <4>3, CallingLookup
    <3>2. CASE lookup' = NoLookup
      BY <3>2 DEF NoLookup, Lookup
    <3>. QED
      BY <1>6, <3>1, <3>2 DEF LookupReturns
  <2>4. is_resolving' \in BOOLEAN
    BY <1>6 DEF LookupReturns, TypeOK
  <2>5. summary' \subseteq {"key", "value", "headers"}
    <3>1. summary' \in {summary, Problems(draft, missing)}
      BY <1>6 DEF LookupReturns, SummaryAfterLookup
    <3>2. Problems(draft, missing) \subseteq {"key", "value", "headers"}
      BY ProblemsListed
    <3>. QED
      BY <3>1, <3>2 DEF TypeOK
  <2>. QED
    BY <2>1, <2>2, <2>3, <2>4, <2>5, ProduceDraftStep, ProduceDraftTypes DEF TypeOK
<1>7. CASE StartReturns
  BY <1>7 DEF StartReturns, TypeOK, OneClient, Thread
<1>8. CASE Queue
  BY <1>8 DEF Queue, TypeOK, OneDelivery, OwnOutcome, Records, Ends, Thread
<1>9. CASE Concludes
  BY <1>9 DEF Concludes, TypeOK, Ends, Thread, Outcome
<1>10. CASE GoesOnPolling
  BY <1>10 DEF GoesOnPolling, TypeOK, Thread, Outcome
<1>11. CASE PollReturns
  BY <1>11 DEF PollReturns, TypeOK, Ends, Thread, ServeCallbacks
<1>12. CASE DeliveryReturns
  BY <1>12 DEF DeliveryReturns, TypeOK, OneDelivery, OwnOutcome, Records, Thread, NoThread
<1>13. CASE DeadlinePasses
  BY <1>13 DEF DeadlinePasses, TypeOK, Ends, Thread, Outcome
<1>14. CASE CloseBegins
  BY <1>14 DEF CloseBegins, TypeOK
<1>15. CASE FlushReturns
  BY <1>15 DEF FlushReturns, TypeOK, ServeCallbacks
<1>16. CASE DropClient
  BY <1>16 DEF DropClient, TypeOK
<1>17. CASE CloseSerializers
  BY <1>17 DEF CloseSerializers, TypeOK
<1>18. CASE ClusterAnswers
  BY <1>18 DEF ClusterAnswers, TypeOK
<1>19. CASE UNCHANGED vars
  BY <1>19 DEF vars, TypeOK
<1>20. CASE DraftChanged
  BY <1>20, ProblemsListed DEF DraftChanged, TypeOK
<1>. QED
  BY <1>1, <1>2, <1>3, <1>4, <1>5, <1>6, <1>7, <1>8, <1>9, <1>10, <1>11, <1>12, <1>13, <1>14, <1>15, <1>16, <1>17, <1>18,
     <1>19, <1>20 DEF Next, LookupStep, DeliveryStep, CloseStep

\* Edits, lookups and the end of the composer: the others leave the Summary.
LEMMA FreshSummaryKept == IInv /\ [Next]_vars => FreshSummary'
<1>. SUFFICES ASSUME IInv, [Next]_vars PROVE FreshSummary'
  OBVIOUS
<1>. USE DEF IInv, composerVars, serviceVars, clusterVars, threadOnly, closerOnly
<1>1. CASE EditDraft
  BY <1>1 DEF EditDraft, FreshSummary, TypeOK, Lookup
<1>2. CASE Produce
  BY <1>2 DEF Produce, FreshSummary, TypeOK, Lookup, Calling, NoLookup
<1>3. CASE Unmount
  BY <1>3 DEF Unmount, FreshSummary, TypeOK, Lookup
<1>4. CASE CancelWorkers
  BY <1>4 DEF CancelWorkers, FreshSummary, TypeOK, Lookup
<1>5. CASE LookupEnds
  BY <1>5 DEF LookupEnds, FreshSummary, TypeOK, Lookup
<1>6. CASE LookupReturns
  <2>1. UNCHANGED <<mounted, draft, missing>> /\ is_resolving
    BY <1>6 DEF LookupReturns, FreshSummary
  <2>2. CASE /\ lookup' = NoLookup /\ is_resolving' = FALSE
             /\ mounted => summary' = Problems(draft, missing)
    BY <2>1, <2>2 DEF NoLookup, FreshSummary
  <2>3. CASE /\ lookup' = Calling(NextField(lookup.field + 1), lookup.produce)
             /\ UNCHANGED is_resolving
    BY <2>1, <2>3 DEF Calling, FreshSummary
  <2>. QED
    BY <1>6, <2>2, <2>3 DEF LookupReturns, SummaryAfterLookup, FreshSummary
<1>7. CASE StartReturns
  BY <1>7 DEF StartReturns, FreshSummary
<1>8. CASE Queue
  BY <1>8 DEF Queue, FreshSummary
<1>9. CASE Concludes
  BY <1>9 DEF Concludes, FreshSummary
<1>10. CASE GoesOnPolling
  BY <1>10 DEF GoesOnPolling, FreshSummary
<1>11. CASE PollReturns
  BY <1>11 DEF PollReturns, FreshSummary
<1>12. CASE DeliveryReturns
  BY <1>12 DEF DeliveryReturns, FreshSummary
<1>13. CASE DeadlinePasses
  BY <1>13 DEF DeadlinePasses, FreshSummary
<1>14. CASE CloseBegins
  BY <1>14 DEF CloseBegins, FreshSummary
<1>15. CASE FlushReturns
  BY <1>15 DEF FlushReturns, FreshSummary
<1>16. CASE DropClient
  BY <1>16 DEF DropClient, FreshSummary
<1>17. CASE CloseSerializers
  BY <1>17 DEF CloseSerializers, FreshSummary
<1>18. CASE ClusterAnswers
  BY <1>18 DEF ClusterAnswers, FreshSummary
<1>19. CASE UNCHANGED vars
  BY <1>19 DEF vars, FreshSummary
<1>20. CASE DraftChanged
  BY <1>20 DEF DraftChanged, FreshSummary, TypeOK, Lookup
<1>. QED
  BY <1>1, <1>2, <1>3, <1>4, <1>5, <1>6, <1>7, <1>8, <1>9, <1>10, <1>11, <1>12, <1>13, <1>14, <1>15, <1>16, <1>17, <1>18,
     <1>19, <1>20 DEF Next, LookupStep, DeliveryStep, CloseStep

LEMMA InvariantsHold == Spec => []IInv
<1>1. IInv /\ [Next]_vars => IInv'
  BY TypeKept, OneDeliveryKept, OneClientKept, OwnOutcomeKept, FreshSummaryKept DEF IInv
<1>. QED
  BY InitIInv, <1>1, PTL DEF Spec

\* Whatever the drafts and however many records: there are never more than two
\* clients, what is said of a record is "delivered" or "failed", and composer,
\* service and thread agree on whether a delivery is under way.
THEOREM TypeCorrect == Spec => [](TypeOK /\ OneDelivery)
<1>1. IInv => TypeOK /\ OneDelivery
  BY DEF IInv
<1>. QED
  BY <1>1, InvariantsHold, PTL

\* The composer never asks the service for a second delivery: is_producing is
\* set exactly while the service delivers.
THEOREM NoDeliveryIsRefused == Spec => []NeverRefused
<1>1. IInv => NeverRefused
  BY DEF IInv, OneDelivery, NeverRefused
<1>. QED
  BY <1>1, InvariantsHold, PTL

\* The Summary tells what producing the draft would do whenever no lookup is
\* under way and the draft's last change was handled.
THEOREM SummaryTellsTheDraft == Spec => []SummaryIsCurrent
<1>1. IInv => SummaryIsCurrent
  BY DEF IInv, FreshSummary, SummaryIsCurrent
<1>. QED
  BY <1>1, InvariantsHold, PTL

----------------------------------------------------------------------------
(* The refinement: the attempt under way is current while the service      *)
(* delivers.                                                               *)

Current == IF delivering THEN attempts ELSE 0
Written == {r \in Records : fate[r] = "written"}

AbstractStep == Reported!Next \/ UNCHANGED <<Current, Written, reported>>

LEMMA BeginsSimulated ==
  ASSUME IInv, Begins, UNCHANGED <<reported, fate>>
  PROVE  AbstractStep
<1>1. attempts \in Nat /\ attempts' = attempts + 1 /\ attempts' \in Records
  BY DeliveryAssumption DEF Begins, IInv, TypeOK, Records
<1>2. reported[attempts'] = "nothing"
  BY <1>1 DEF IInv, OwnOutcome
<1>3. Current = 0 /\ Current' = attempts' /\ Written' = Written
  BY DEF Begins, Current, Written
<1>4. Reported!Begin
  BY <1>1, <1>2, <1>3 DEF Reported!Begin, Current, Written
<1>. QED
  BY <1>4 DEF AbstractStep, Reported!Next

LEMMA QueueSimulated ==
  ASSUME IInv, Queue
  PROVE  AbstractStep
<1>1. UNCHANGED <<reported, delivering, attempts>>
  BY DEF Queue, threadOnly, composerVars
<1>2. attempts \in Records /\ fate[attempts] = "none"
  BY DEF Queue, IInv, TypeOK, OneDelivery, OwnOutcome, Records
<1>3. \A r \in Records : fate'[r] = "written" <=> fate[r] = "written"
  <2>1. fate' = fate \/ fate' = [fate EXCEPT ![attempts] = "queued"]
    BY DEF Queue
  <2>. QED
    BY <1>2, <2>1 DEF IInv, TypeOK
<1>4. Written' = Written
  BY <1>3 DEF Written
<1>. QED
  BY <1>1, <1>4 DEF AbstractStep, Current

LEMMA AnswerSimulated ==
  ASSUME IInv, ClusterAnswers
  PROVE  AbstractStep
<1>1. UNCHANGED <<reported, delivering, attempts>>
  BY DEF ClusterAnswers, composerVars, serviceVars
<1>2. Current' = Current
  BY <1>1 DEF Current
<1>3. PICK r \in Records, answer \in {"written", "rejected"} :
        fate[r] = "queued" /\ fate' = [fate EXCEPT ![r] = answer]
  BY DEF ClusterAnswers
<1>4. \A q \in Records : fate'[q] = IF q = r THEN answer ELSE fate[q]
  BY <1>3 DEF IInv, TypeOK
<1>5. CASE answer = "written"
  <2>1. r \notin Written /\ Written' = Written \cup {r}
    BY <1>3, <1>4, <1>5 DEF Written
  <2>2. Reported!Write
    BY <1>1, <1>2, <2>1 DEF Reported!Write, Current, Written
  <2>. QED
    BY <2>2 DEF AbstractStep, Reported!Next
<1>6. CASE answer = "rejected"
  <2>1. Written' = Written
    BY <1>3, <1>4, <1>6 DEF Written
  <2>. QED
    BY <1>1, <1>2, <2>1 DEF AbstractStep
<1>. QED
  BY <1>5, <1>6

LEMMA ReturnSimulated ==
  ASSUME IInv, DeliveryReturns
  PROVE  AbstractStep
<1>1. delivering /\ attempts # 0 /\ attempts \in Records
  BY DEF DeliveryReturns, IInv, TypeOK, OneDelivery, Records
<1>2. Current = attempts /\ Current # 0 /\ Current' = 0
  BY <1>1 DEF DeliveryReturns, Current
<1>3. Written' = Written
  BY DEF DeliveryReturns, clusterVars, Written
<1>4. CASE reported' = reported
  <2>1. Reported!Abandon
    BY <1>2, <1>3, <1>4 DEF Reported!Abandon, Current, Written
  <2>. QED
    BY <2>1 DEF AbstractStep, Reported!Next
<1>5. CASE /\ reported' = [reported EXCEPT ![attempts] = thread.result]
           /\ thread.result # "broken"
  <2>1. thread.result \in {"delivered", "failed"}
    BY <1>5 DEF DeliveryReturns, IInv, TypeOK, Thread, OwnOutcome
  <2>2. thread.result = "delivered" => attempts \in Written
    BY <1>1 DEF DeliveryReturns, IInv, OwnOutcome, Written
  <2>3. Reported!Report
    BY <1>2, <1>3, <1>5, <2>1, <2>2 DEF Reported!Report, Current, Written
  <2>. QED
    BY <2>3 DEF AbstractStep, Reported!Next
<1>. QED
  BY <1>4, <1>5 DEF DeliveryReturns

\* The other steps are none of the abstract specification's.
LEMMA OthersSimulated ==
  ASSUME UNCHANGED <<attempts, delivering, reported, fate>>
  PROVE  AbstractStep
BY DEF AbstractStep, Current, Written

\* A record is reported as delivered only once the cluster has written that
\* very record, one attempt at a time: every behaviour of producer mode is one
\* of ReportedDelivery.
THEOREM ImplementsReportedDelivery == Spec => RefinesReportedDelivery
<1>1. Init => Reported!Init
  BY DEF Init, Reported!Init
<1>2. IInv /\ [Next]_vars => AbstractStep
  <2>. SUFFICES ASSUME IInv, [Next]_vars PROVE AbstractStep
    OBVIOUS
  <2>. USE DEF composerVars, serviceVars, clusterVars, threadOnly, closerOnly
  <2>1. CASE Produce \/ LookupReturns
    <3>1. UNCHANGED <<reported, fate>> /\ (ProduceDraft \/ Idles)
      BY <2>1 DEF Produce, LookupReturns, Idles
    <3>. QED
      BY <3>1, ProduceDraftStep, BeginsSimulated, OthersSimulated DEF Idles
  <2>2. CASE Queue
    BY <2>2, QueueSimulated
  <2>3. CASE ClusterAnswers
    BY <2>3, AnswerSimulated
  <2>4. CASE DeliveryReturns
    BY <2>4, ReturnSimulated
  <2>5. CASE \/ EditDraft \/ DraftChanged \/ Unmount \/ CancelWorkers \/ LookupEnds \/ CloseStep
             \/ UNCHANGED vars
    BY <2>5, OthersSimulated
       DEF EditDraft, DraftChanged, Unmount, CancelWorkers, LookupEnds, CloseStep, CloseBegins,
           FlushReturns, DropClient, CloseSerializers, vars
  <2>6. CASE StartReturns \/ Concludes \/ GoesOnPolling \/ PollReturns \/ DeadlinePasses
    BY <2>6, OthersSimulated
       DEF StartReturns, Concludes, GoesOnPolling, PollReturns, DeadlinePasses
  <2>. QED
    BY <2>1, <2>2, <2>3, <2>4, <2>5, <2>6 DEF Next, LookupStep, DeliveryStep
<1>3. IInv /\ [Next]_vars => [Reported!Next]_<<Current, Written, reported>>
  BY <1>2 DEF AbstractStep
<1>. QED
  BY <1>1, <1>3, InvariantsHold, PTL
     DEF Spec, RefinesReportedDelivery, Reported!Spec, Reported!vars, Current, Written
=============================================================================

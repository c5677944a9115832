-------------------------- MODULE ConsumerSession --------------------------
(***************************************************************************)
(* Consumer mode: the ConsumerService clients of                           *)
(* kaskade/consumer_service.py, the record list of                         *)
(* kaskade/consumer/records.py that pages through them, and the worker     *)
(* threads their blocking calls run in.  A step on the event loop runs     *)
(* from one await to the next; a call in a thread ends in a step of its    *)
(* own, and may have been cancelled meanwhile.                             *)
(*                                                                         *)
(* A task is what holds or waits for a service's operation lock: the       *)
(* records-consume workers and the list's on_unmount().  A worker task     *)
(* takes its first step before any other input is handled, so starting it  *)
(* and that step are one action here.                                      *)
(***************************************************************************)
EXTENDS Selection, FiniteSets

CONSTANTS
  Services,          \* bound: the ConsumerService objects ever built
  Workers,           \* worker tasks that can be under way at once
  Manual,            \* the values of manually_assigned: --earliest, --partition
  LastOffset,        \* bound: the log holds the offsets 0 .. LastOffset - 1
  Matching,          \* the offsets the filter "some" lets through
  PageSizes,         \* the chunk sizes on offer
  DefaultPage,       \* the page size a new service has
  MaxPolls,          \* empty polls in a row that end a page (consumer.idle)
  MaxWaits,          \* polls without an assignment that end it (consumer.assignment)
  MaxRebalances,     \* bound: rebalances one service lives through
  Faults             \* what may go wrong: a subset of Fault

Fault == {"start", "authorization", "message", "factory"}

ASSUME ConsumerAssumption ==
  /\ Services \subseteq Nat /\ 1 \in Services
  /\ Workers # {} /\ Workers \cap {"unmount", "free"} = {}
  /\ Manual \subseteq BOOLEAN /\ Manual # {}
  /\ LastOffset \in Nat \ {0}
  /\ Matching \subseteq 0..LastOffset - 1
  /\ PageSizes \subseteq Nat \ {0} /\ DefaultPage \in PageSizes
  /\ \E largest \in PageSizes : \A size \in PageSizes : size <= largest
  /\ MaxPolls \in Nat \ {0} /\ MaxWaits \in Nat \ {0}
  /\ MaxRebalances \in Nat
  /\ Faults \subseteq Fault

VARIABLES
  clients,    \* the Kafka client of each service
  services,   \* what else a ConsumerService object keeps
  lock,       \* per service, who holds _operation_lock
  tasks,      \* the workers and on_unmount()
  pages,      \* per task, the locals of _consume()
  current,    \* ListRecords.consumer
  consuming,  \* ListRecords._is_consuming
  filters,    \* ListRecords.filters
  shown,      \* ListRecords.records, in table order
  screen,     \* "list", or the modal screen above it
  mounted,    \* is the list mounted?
  crashed,    \* has a row with a key the table has ended the application?
  failed,     \* a history: was an error shown since the list was cleared?
  poolOpen    \* is the deserializer pool open?

listVars == <<current, consuming, filters, shown, crashed, failed>>
serviceVars == <<clients, services>>
taskVars == <<lock, tasks, pages>>
vars == <<serviceVars, taskVars, listVars, screen, mounted, poolOpen>>

Offset == 0..LastOffset - 1
Filter == {"none", "some"}
Unassigned == -1
Tasks == Workers \cup {"unmount"}

\* assigned: the group (or assign()) has given the client partitions, which
\* stable, once set, goes on claiming; error: _consumer_error; next: the
\* client's position.
Service ==
  [started : BOOLEAN, stable : BOOLEAN, manual : BOOLEAN, assigned : BOOLEAN,
   rebalances : 0..MaxRebalances, error : BOOLEAN,
   next : (0..LastOffset) \cup {Unassigned}, page : PageSizes]

Task ==
  [kind : {"none", "consume", "replace", "unmount"},
   stage : {"idle", "waiting", "starting", "polling", "scanning", "closing"},
   service : Services, cancelled : BOOLEAN]

\* from: where the page started, a history of the log position; rows: the
\* matched records so far; batch: the polled ones.
Page ==
  [filter : Filter, from : (0..LastOffset) \cup {Unassigned},
   rows : Seq(Offset), batch : Seq(Offset), polls : 0..MaxPolls, waits : 0..MaxWaits]

NewTask(kind, stage, s) == [kind |-> kind, stage |-> stage, service |-> s, cancelled |-> FALSE]
NoTask == NewTask("none", "idle", 1)

NewPage(filter, from) ==
  [filter |-> filter, from |-> from, rows |-> <<>>, batch |-> <<>>, polls |-> 0, waits |-> 0]
NoPage == NewPage("none", Unassigned)

\* ConsumerService.__init__.
NewService(manual) ==
  [started |-> FALSE, stable |-> FALSE, manual |-> manual, assigned |-> FALSE,
   rebalances |-> 0, error |-> FALSE, next |-> Unassigned, page |-> DefaultPage]

\* start(): assign() takes effect at once, subscribe() in some later poll.
StartedService(s) ==
  IF s.manual
  THEN [s EXCEPT !.started = TRUE, !.stable = TRUE, !.assigned = TRUE, !.next = 0]
  ELSE [s EXCEPT !.started = TRUE]

\* on_assign(), what a rebalance does, and what consume() does with n records.
AssignedService(s, offset) == [s EXCEPT !.stable = TRUE, !.assigned = TRUE, !.next = offset]
RevokedService(s) == [s EXCEPT !.assigned = FALSE, !.rebalances = @ + 1]
PolledService(s, n) == [s EXCEPT !.next = IF n > 0 THEN @ + n ELSE @, !.error = FALSE]

Busy(t) == tasks[t].kind # "none"
FreeWorker(t) == t \in Workers /\ ~Busy(t)
Serving(t) == services[tasks[t].service]

\* A defect, of Entered: every page starts its service.
EnteredAnew(kind, service) == IF kind = "consume" THEN "starting" ELSE "closing"

\* What a task does once it holds the lock.
Entered(kind, service) ==
  IF kind # "consume" THEN "closing"
  ELSE IF service.started THEN "polling" ELSE "starting"

\* A task asks for the lock of service s: it goes on at once or waits.
Asking(kind, s) ==
  NewTask(kind, IF lock[s] = "free" THEN Entered(kind, services[s]) ELSE "waiting", s)

\* A page has the filter that was active when it was asked for.
AskForLock(t, kind, s, filter) ==
  /\ tasks' = [tasks EXCEPT ![t] = Asking(kind, s)]
  /\ pages' = [pages EXCEPT ![t] = NewPage(filter, services[s].next)]
  /\ lock' = IF lock[s] = "free" THEN [lock EXCEPT ![s] = t] ELSE lock
----------------------------------------------------------------------------
\* KaskadeConsumer.__init__ starts the first service, and on_mount() begins
\* the first page.
Init ==
  /\ clients = [s \in Services |-> IF s = 1 THEN "open" ELSE "none"]
  /\ \E manual \in Manual :
       services = [s \in Services |-> IF s = 1 THEN StartedService(NewService(manual))
                                               ELSE NewService(manual)]
  /\ \E w \in Workers :
       /\ tasks = [t \in Tasks |-> IF t = w THEN NewTask("consume", "polling", 1) ELSE NoTask]
       /\ pages = [t \in Tasks |-> IF t = w THEN NewPage("none", services[1].next) ELSE NoPage]
       /\ lock = [s \in Services |-> IF s = 1 THEN w ELSE "free"]
  /\ current = 1
  /\ consuming = TRUE
  /\ filters = "none"
  /\ shown = <<>>
  /\ screen = "list"
  /\ mounted = TRUE
  /\ crashed = FALSE
  /\ failed = FALSE
  /\ poolOpen = TRUE
----------------------------------------------------------------------------
(* A page: the loop of _consume(), under the lock.                         *)

\* The table refuses a second row for a partition and offset, and nobody
\* catches its DuplicateKey.
Repeats(rows) == ToSet(rows) \cap ToSet(shown) # {} \/ ~IsInjective(rows)

\* The worker's finally clause lets the list consume again.
Release(t) ==
  /\ tasks' = [tasks EXCEPT ![t] = NoTask]
  /\ pages' = [pages EXCEPT ![t] = NoPage]
  /\ lock' = [lock EXCEPT ![tasks[t].service] = "free"]
  /\ consuming' = FALSE

\* The page ends, with rows for the list unless its worker was cancelled.
\* When the list is gone the title is too: the worker then fails in the end,
\* after all that is here, in an application that is closing.
EndPage(t, rows) ==
  /\ Release(t)
  /\ IF tasks[t].cancelled \/ Repeats(rows)
     THEN shown' = shown /\ crashed' = (crashed \/ ~tasks[t].cancelled)
     ELSE shown' = shown \o rows /\ crashed' = crashed
  /\ UNCHANGED failed

\* A defect, of FailPage: only a page that succeeds says that it is over.
FailPageSilently(t) ==
  /\ tasks' = [tasks EXCEPT ![t] = NoTask]
  /\ pages' = [pages EXCEPT ![t] = NoPage]
  /\ lock' = [lock EXCEPT ![tasks[t].service] = "free"]
  /\ UNCHANGED <<shown, consuming, crashed, failed>>

\* The page raises a KafkaException, which the list shows, and what it had
\* read is gone.
FailPage(t) ==
  /\ Release(t)
  /\ failed' = (failed \/ ~tasks[t].cancelled)
  /\ UNCHANGED <<shown, crashed>>

\* A call in a thread has returned to run_blocking(): a cancelled task ends
\* there, whatever the outcome.
Continue(t, stage, page) ==
  IF tasks[t].cancelled THEN EndPage(t, <<>>)
  ELSE /\ tasks' = [tasks EXCEPT ![t].stage = stage]
       /\ pages' = [pages EXCEPT ![t] = page]
       /\ UNCHANGED <<lock, shown, consuming, crashed, failed>>

\* start() returns, or fails and is tried again by the next page.
StartReturns(t) ==
  /\ tasks[t].stage = "starting"
  /\ LET started == StartedService(Serving(t)) IN
     /\ services' = [services EXCEPT ![tasks[t].service] = started]
     /\ Continue(t, "polling", [pages[t] EXCEPT !.from = started.next])
  /\ UNCHANGED <<clients, current, filters, screen, mounted, poolOpen>>

StartFails(t) ==
  /\ "start" \in Faults
  /\ tasks[t].stage = "starting"
  /\ FailPage(t)
  /\ UNCHANGED <<serviceVars, current, filters, screen, mounted, poolOpen>>

\* on_assign(), in the thread that polls.  Without a committed offset the
\* position is the log's end; with one, anywhere.
Assign(t) ==
  /\ tasks[t].stage = "polling" /\ ~Serving(t).assigned
  /\ \E offset \in 0..LastOffset :
       /\ services' = [services EXCEPT ![tasks[t].service] = AssignedService(@, offset)]
       /\ pages' = [pages EXCEPT ![t].from = IF @ = Unassigned THEN offset ELSE @]
  /\ UNCHANGED <<clients, lock, tasks, listVars, screen, mounted, poolOpen>>

\* The group takes the partitions back; no callback hears of it.
Rebalance(t) ==
  /\ ~Serving(t).manual /\ Serving(t).rebalances < MaxRebalances
  /\ tasks[t].stage = "polling" /\ Serving(t).assigned
  /\ services' = [services EXCEPT ![tasks[t].service] = RevokedService(@)]
  /\ UNCHANGED <<clients, taskVars, listVars, screen, mounted, poolOpen>>

\* _on_consumer_error(), in the thread that polls.
AuthorizationError(t) ==
  /\ "authorization" \in Faults
  /\ tasks[t].stage = "polling"
  /\ services' = [services EXCEPT ![tasks[t].service].error = TRUE]
  /\ UNCHANGED <<clients, taskVars, listVars, screen, mounted, poolOpen>>

\* How many records a page still wants, read from page_size when asked.
Wanted(t) == Serving(t).page - Len(pages[t].rows)

\* The loop's limits to polls without an assignment and to idle polls.
GivesUp(waits, polls) == waits >= MaxWaits \/ polls >= MaxPolls

\* Consumer.consume() returns n records.
PollReturns(t, n) ==
  LET page    == pages[t]
      service == Serving(t)
      batch   == [i \in 1..n |-> service.next + i - 1]
      waited  == page.waits + 1
      polled  == page.polls + 1
  IN
  /\ tasks[t].stage = "polling"
  /\ n > 0 => service.assigned /\ n <= Wanted(t) /\ service.next + n <= LastOffset
  /\ services' = [services EXCEPT ![tasks[t].service] = PolledService(@, n)]
  /\ IF service.error THEN FailPage(t)
     ELSE IF ~service.stable
     THEN IF GivesUp(waited, page.polls) THEN EndPage(t, page.rows)
          ELSE Continue(t, "polling", [page EXCEPT !.waits = waited])
     ELSE IF n = 0
     THEN IF GivesUp(0, polled) THEN EndPage(t, page.rows)
          ELSE Continue(t, "polling", [page EXCEPT !.waits = 0, !.polls = polled])
     ELSE Continue(t, "scanning", [page EXCEPT !.waits = 0, !.polls = 0, !.batch = batch])
  /\ UNCHANGED <<clients, current, filters, screen, mounted, poolOpen>>

\* _records_from_batch(): the matching records of the batch, at most Wanted.
Matches(offset, f) == f = "none" \/ offset \in Matching
Passing(f) == {offset \in Offset : Matches(offset, f)}

\* A defect, of Scanned: the limit is off by one.
ScannedShort(t) ==
  LET matched == Kept(pages[t].batch, Passing(pages[t].filter))
  IN SubSeq(matched, 1, IF Len(matched) > 1 THEN Len(matched) - 1 ELSE Len(matched))

Scanned(t) ==
  LET matched == Kept(pages[t].batch, Passing(pages[t].filter))
  IN SubSeq(matched, 1, IF Len(matched) > Wanted(t) THEN Wanted(t) ELSE Len(matched))

BatchScanned(t) ==
  /\ tasks[t].stage = "scanning"
  /\ LET rows == pages[t].rows \o Scanned(t) IN
     IF Len(rows) >= Serving(t).page THEN EndPage(t, rows)
     ELSE Continue(t, "polling", [pages[t] EXCEPT !.rows = rows, !.batch = <<>>])
  /\ UNCHANGED <<serviceVars, current, filters, screen, mounted, poolOpen>>

\* An error event among the messages: the page is given up.
BatchFails(t) ==
  /\ "message" \in Faults
  /\ tasks[t].stage = "scanning"
  /\ FailPage(t)
  /\ UNCHANGED <<serviceVars, current, filters, screen, mounted, poolOpen>>
----------------------------------------------------------------------------
(* The list.  check_action() disables consume, filter and chunk size while *)
(* a page is under way.                                                    *)

\* A defect, of CanAct: nothing is disabled during a page.
CanActAnyway == mounted /\ ~crashed /\ screen = "list"

CanAct == mounted /\ ~crashed /\ screen = "list" /\ ~consuming

ConsumeMore(t) ==
  /\ CanAct
  /\ FreeWorker(t)
  /\ consuming' = TRUE
  /\ AskForLock(t, "consume", current, filters)
  /\ UNCHANGED <<serviceVars, current, filters, shown, crashed, failed, screen, mounted, poolOpen>>

OpenScreen(kind) ==
  /\ CanAct
  /\ screen' = kind
  /\ UNCHANGED <<serviceVars, taskVars, listVars, mounted, poolOpen>>

CloseScreen ==
  /\ mounted /\ ~crashed /\ screen # "list"
  /\ screen' = "list"
  /\ UNCHANGED <<serviceVars, taskVars, listVars, mounted, poolOpen>>

SelectChunk(size) ==
  /\ mounted /\ ~crashed /\ screen = "chunk"
  /\ services' = [services EXCEPT ![current].page = size]
  /\ screen' = "list"
  /\ UNCHANGED <<clients, taskVars, listVars, mounted, poolOpen>>

\* _filter() and the first step of replace_consumer(): a new service takes
\* the list over and the previous one is closed.
Replace(t, filter) ==
  /\ FreeWorker(t)
  /\ filters' = filter
  /\ shown' = <<>>
  /\ consuming' = TRUE
  /\ \E s \in Services :
       /\ clients[s] = "none"
       /\ \A r \in Services : clients[r] = "none" => s <= r
       /\ clients' = [clients EXCEPT ![s] = "open"]
       /\ services' = [services EXCEPT ![s] = NewService(services[1].manual)]
       /\ current' = s
  /\ AskForLock(t, "replace", current, filter)
  /\ failed' = FALSE
  /\ UNCHANGED crashed

\* No client can be built: the list goes on with the one it has.
ReplaceFails(t, filter) ==
  /\ "factory" \in Faults
  /\ FreeWorker(t)
  /\ filters' = filter
  /\ shown' = <<>>
  /\ consuming' = TRUE
  /\ AskForLock(t, "consume", current, filter)
  /\ failed' = FALSE
  /\ UNCHANGED <<serviceVars, current, crashed>>

ApplyFilter(t, filter) ==
  /\ mounted /\ ~crashed /\ screen = "filter"
  /\ screen' = "list"
  /\ Replace(t, filter) \/ ReplaceFails(t, filter)
  /\ UNCHANGED <<mounted, poolOpen>>

ShowAll(t) ==
  /\ CanAct /\ filters # "none"
  /\ Replace(t, "none") \/ ReplaceFails(t, "none")
  /\ UNCHANGED <<screen, mounted, poolOpen>>
----------------------------------------------------------------------------
(* Closing.                                                                *)

\* A defect, of Unmount: the service the application built first is closed.
UnmountFirst ==
  /\ mounted
  /\ mounted' = FALSE
  /\ AskForLock("unmount", "unmount", 1, filters)
  /\ UNCHANGED <<serviceVars, listVars, screen, poolOpen>>

\* on_unmount() begins: aclose() of the service that is current by then.
Unmount ==
  /\ mounted
  /\ mounted' = FALSE
  /\ AskForLock("unmount", "unmount", current, filters)
  /\ UNCHANGED <<serviceVars, listVars, screen, poolOpen>>

TakeLock(t) ==
  /\ tasks[t].stage = "waiting"
  /\ lock[tasks[t].service] = "free"
  /\ lock' = [lock EXCEPT ![tasks[t].service] = t]
  /\ tasks' = [tasks EXCEPT ![t].stage = Entered(tasks[t].kind, Serving(t))]
  /\ pages' = [pages EXCEPT ![t].from = Serving(t).next]
  /\ UNCHANGED <<serviceVars, listVars, screen, mounted, poolOpen>>

\* close() returns, or raises with the client closed all the same.  The
\* replaced service's page follows, while the list is there: once it is gone
\* action_consume() finds no table and raises before a page starts, in an
\* application that is closing.  on_unmount() closes the pool.
CloseReturns(t) ==
  LET task == tasks[t] IN
  /\ task.stage = "closing"
  /\ clients' = [clients EXCEPT ![task.service] = "closed"]
  /\ IF task.kind = "replace" /\ mounted /\ ~task.cancelled
     THEN /\ tasks' = [tasks EXCEPT ![t] = Asking("consume", current)]
          /\ pages' = [pages EXCEPT ![t] = NewPage(filters, services[current].next)]
          /\ lock' = [s \in Services |-> IF s = current THEN t
                                         ELSE IF s = task.service THEN "free" ELSE lock[s]]
          /\ UNCHANGED <<consuming, poolOpen>>
     ELSE /\ tasks' = [tasks EXCEPT ![t] = NoTask]
          /\ pages' = [pages EXCEPT ![t] = NoPage]
          /\ lock' = [lock EXCEPT ![task.service] = "free"]
          /\ consuming' = (consuming /\ task.kind = "unmount")
          /\ poolOpen' = (poolOpen /\ task.kind # "unmount")
  /\ UNCHANGED <<services, current, filters, shown, crashed, failed, screen, mounted>>

\* A defect, of CancelWorker: a cancelled task frees its lock before its call ends.
CancelAtOnce(t) ==
  /\ ~mounted
  /\ t \in Workers /\ Busy(t) /\ ~tasks[t].cancelled
  /\ tasks' = [tasks EXCEPT ![t].cancelled = TRUE]
  /\ lock' = [s \in Services |-> IF lock[s] = t THEN "free" ELSE lock[s]]
  /\ UNCHANGED <<serviceVars, pages, listVars, screen, mounted, poolOpen>>

\* Textual cancels the list's workers at some point of its removal.
CancelWorker(t) ==
  /\ ~mounted
  /\ t \in Workers /\ Busy(t) /\ ~tasks[t].cancelled
  /\ IF tasks[t].stage = "waiting"
     THEN /\ tasks' = [tasks EXCEPT ![t] = NoTask]
          /\ pages' = [pages EXCEPT ![t] = NoPage]
          /\ consuming' = FALSE
     ELSE /\ tasks' = [tasks EXCEPT ![t].cancelled = TRUE]
          /\ UNCHANGED <<pages, consuming>>
  /\ UNCHANGED <<serviceVars, lock, current, filters, shown, crashed, failed, screen, mounted,
                 poolOpen>>
----------------------------------------------------------------------------
TaskStep(t) ==
  \/ StartReturns(t) \/ StartFails(t)
  \/ \E n \in 0..LastOffset : PollReturns(t, n)
  \/ BatchScanned(t) \/ BatchFails(t)
  \/ TakeLock(t) \/ CloseReturns(t)

ClientEvent(t) == Assign(t) \/ Rebalance(t) \/ AuthorizationError(t)

UserStep ==
  \/ \E t \in Workers : ConsumeMore(t)
  \/ \E t \in Workers, filter \in Filter : ApplyFilter(t, filter)
  \/ \E t \in Workers : ShowAll(t)
  \/ \E kind \in {"filter", "chunk"} : OpenScreen(kind)
  \/ CloseScreen
  \/ \E size \in PageSizes : SelectChunk(size)
  \/ Unmount

Next ==
  \/ \E t \in Tasks : TaskStep(t) \/ ClientEvent(t)
  \/ \E t \in Workers : CancelWorker(t)
  \/ UserStep

Spec == Init /\ [][Next]_vars

\* Every blocking call returns (polls, requests and closing have deadlines)
\* and the event loop runs what can run.  Nothing is assumed of the user.
FairSpec == Spec /\ \A t \in Tasks : WF_vars(TaskStep(t))
----------------------------------------------------------------------------
(* What a reader may rely on.                                              *)

InCall(t) == tasks[t].stage \in {"starting", "polling", "scanning", "closing"}

\* A client is never used by two threads, nor after it was closed, nor closed
\* twice, and deserializers are not closed under a batch: a cancelled task
\* keeps its lock until its thread is done.
ClientsUsedSafely ==
  /\ \A t \in Tasks : InCall(t) => clients[tasks[t].service] = "open"
  /\ \A t \in Tasks : tasks[t].stage = "scanning" => poolOpen
  /\ \A t, u \in Tasks :
       t # u /\ InCall(t) /\ InCall(u) => tasks[t].service # tasks[u].service

\* The list takes one page at a time, is never left thinking that it still
\* consumes when no worker does, and shows nothing that a page brought which
\* was started under another filter.
OneWorkerAtATime == Cardinality({w \in Workers : Busy(w)}) = IF consuming THEN 1 ELSE 0

OnePageAtATime ==
  /\ OneWorkerAtATime
  /\ \A i \in DOMAIN shown : Matches(shown[i], filters)

LargestPage == CHOOSE size \in PageSizes : \A other \in PageSizes : other <= size

\* What the list shows and where its next page starts.
PageTasks == {w \in Workers : tasks[w].kind = "consume"}

Position ==
  IF PageTasks = {} THEN services[current].next
  ELSE pages[CHOOSE w \in PageTasks : TRUE].from

Paged == INSTANCE PagedRecords
  WITH filter <- filters, position <- Position, open <- mounted,
       trouble <- failed \/ services[current].rebalances > 0

\* No matching record is skipped unless an error was shown or the partitions
\* were taken back, none is shown twice, no page is longer than the chunk
\* size, and a filter starts over.
RefinesPagedRecords == Paged!Spec

\* The row key that ends the application needs a group that gave the list's
\* partitions away and gave them back at an earlier offset.
OnlyRebalancesRepeat == crashed => services[current].rebalances > 0

\* A page ends: there is a limit to idle polls, to polls without an
\* assignment and to what the log holds.
PagesEnd == []<>~consuming

\* Once the list is gone every client is closed, and the deserializers too.
EverythingIsClosed ==
  ~mounted ~> ~poolOpen /\ \A s \in Services : clients[s] # "open"
----------------------------------------------------------------------------
(* What the code's comments and documents say beyond that.                 *)

\* "Restart consumption from the configured position."
FilterRestarts == [][filters' # filters => ~services'[current'].started]_vars

\* "Wait for initial assignment or rebalance": a page that ends without an
\* assignment has waited for one.
AssignmentIsAwaited ==
  [][\A w \in Workers :
       /\ tasks[w].stage = "polling" /\ ~tasks[w].cancelled
       /\ ~Serving(w).assigned /\ ~Serving(w).error
       /\ ~Busy(w)'
       => pages[w].waits = MaxWaits - 1]_vars
============================================================================

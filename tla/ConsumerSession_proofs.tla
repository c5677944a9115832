------------------------ MODULE ConsumerSession_proofs ------------------------
(***************************************************************************)
(* Consumer mode uses its Kafka clients safely, for any number of clients,  *)
(* workers, records and faults, however pages, filters, cancellations and   *)
(* the removal of the list interleave; and it shows the log as PagedRecords *)
(* promises it: every step of the services, the pages and the list is a     *)
(* step of PagedRecords or none.                                            *)
(***************************************************************************)
EXTENDS ConsumerSession, Operators_proofs, FiniteSetTheorems

\* Nothing below depends on what a service keeps beside its client, nor on the
\* rows of its page.
SessionTypes ==
  /\ clients \in [Services -> {"none", "open", "closed"}]
  /\ lock \in [Services -> Tasks \cup {"free"}]
  /\ tasks \in [Tasks -> Task]
  /\ current \in Services
  /\ consuming \in BOOLEAN /\ mounted \in BOOLEAN /\ poolOpen \in BOOLEAN

\* Only on_unmount() ever waits for a lock: a worker starts when nobody else
\* works.
TaskShape ==
  /\ \A w \in Workers :
       \/ tasks[w].kind = "none" /\ tasks[w].stage = "idle"
       \/ tasks[w].kind = "consume" /\ tasks[w].stage \in {"starting", "polling", "scanning"}
       \/ tasks[w].kind = "replace" /\ tasks[w].stage = "closing"
  /\ \/ tasks["unmount"].kind = "none" /\ tasks["unmount"].stage = "idle"
     \/ tasks["unmount"].kind = "unmount" /\ tasks["unmount"].stage \in {"waiting", "closing"}

\* A lock is held by the task whose call it is for, until that call returns.
LocksAreHeld ==
  /\ \A t \in Tasks : InCall(t) => lock[tasks[t].service] = t
  /\ \A s \in Services :
       lock[s] # "free" => InCall(lock[s]) /\ tasks[lock[s]].service = s

\* The flag of the list stands for the one worker there is.
FlagIsTrue ==
  /\ consuming <=> \E w \in Workers : Busy(w)
  /\ \A v, w \in Workers : Busy(v) /\ Busy(w) => v = w
  /\ screen # "list" => ~consuming

\* A page uses the current client, which only on_unmount() closes; a worker
\* that replaces a client closes one that is not current any more.
OwnClients ==
  /\ mounted => ~Busy("unmount")
  /\ Busy("unmount") => tasks["unmount"].service = current
  /\ mounted \/ Busy("unmount") => clients[current] = "open" /\ poolOpen
  /\ \A w \in Workers :
       /\ tasks[w].kind = "consume" =>
            tasks[w].service = current /\ (mounted \/ Busy("unmount"))
       /\ tasks[w].kind = "replace" =>
            tasks[w].service # current /\ clients[tasks[w].service] = "open"

IInv == SessionTypes /\ TaskShape /\ LocksAreHeld /\ FlagIsTrue /\ OwnClients

\* What IInv is about.
sessionVars == <<clients, lock, tasks, current, consuming, screen, mounted, poolOpen>>

LEMMA TasksAre ==
  /\ "unmount" \in Tasks /\ "unmount" \notin Workers
  /\ "free" \notin Tasks
  /\ \A t \in Tasks : t \in Workers \/ t = "unmount"
  /\ Workers \subseteq Tasks
BY ConsumerAssumption DEF Tasks

LEMMA NewTaskIsTask ==
  ASSUME NEW kind \in {"none", "consume", "replace", "unmount"},
         NEW stage \in {"idle", "waiting", "starting", "polling", "scanning", "closing"},
         NEW s \in Services
  PROVE  /\ NewTask(kind, stage, s) \in Task
         /\ NewTask(kind, stage, s).kind = kind
         /\ NewTask(kind, stage, s).stage = stage
         /\ NewTask(kind, stage, s).service = s
BY DEF NewTask, Task

LEMMA NoTaskIsTask ==
  NoTask \in Task /\ NoTask.kind = "none" /\ NoTask.stage = "idle"
BY NewTaskIsTask, ConsumerAssumption DEF NoTask

LEMMA InitHolds == Init => IInv
<1>. SUFFICES ASSUME Init PROVE IInv
  OBVIOUS
<1>. USE TasksAre
<1>1. PICK w \in Workers :
        /\ tasks = [t \in Tasks |-> IF t = w THEN NewTask("consume", "polling", 1) ELSE NoTask]
        /\ lock = [s \in Services |-> IF s = 1 THEN w ELSE "free"]
  BY DEF Init
<1>2. 1 \in Services
  BY ConsumerAssumption
<1>3. /\ tasks[w] = NewTask("consume", "polling", 1)
      /\ \A t \in Tasks : t # w => tasks[t] = NoTask
      /\ NewTask("consume", "polling", 1) \in Task
      /\ tasks[w].kind = "consume" /\ tasks[w].stage = "polling" /\ tasks[w].service = 1
      /\ \A t \in Tasks : t # w => tasks[t].kind = "none" /\ tasks[t].stage = "idle"
  BY <1>1, <1>2, NewTaskIsTask, NoTaskIsTask
<1>4. SessionTypes
  BY <1>1, <1>2, <1>3, NoTaskIsTask DEF Init, SessionTypes
<1>5. TaskShape
  BY <1>3 DEF TaskShape
<1>6. LocksAreHeld
  BY <1>1, <1>2, <1>3 DEF LocksAreHeld, InCall
<1>7. FlagIsTrue
  BY <1>3 DEF FlagIsTrue, Busy, Init
<1>8. OwnClients
  BY <1>2, <1>3 DEF OwnClients, Busy, Init
<1>. QED
  BY <1>4, <1>5, <1>6, <1>7, <1>8 DEF IInv
----------------------------------------------------------------------------
(* The ways a task changes.                                                *)

\* Nobody works, so no lock is held.
LEMMA NobodyWorks ==
  ASSUME IInv, mounted, ~consuming
  PROVE  /\ \A t \in Tasks : tasks[t].kind = "none" /\ tasks[t].stage = "idle"
         /\ \A s \in Services : lock[s] = "free"
<1>. USE TasksAre DEF IInv
<1>1. \A t \in Tasks : ~Busy(t)
  BY DEF FlagIsTrue, OwnClients
<1>2. \A t \in Tasks : tasks[t].kind = "none" /\ tasks[t].stage = "idle"
  BY <1>1 DEF Busy, TaskShape
<1>3. \A t \in Tasks : ~InCall(t)
  BY <1>2 DEF InCall
<1>4. \A s \in Services : lock[s] = "free"
  BY <1>3 DEF LocksAreHeld, SessionTypes
<1>. QED
  BY <1>2, <1>4

\* A page that ends gives its lock back, and the flag.
LEMMA PageEnds ==
  ASSUME IInv, NEW t \in Tasks, tasks[t].stage \in {"starting", "polling", "scanning"},
         tasks' = [tasks EXCEPT ![t] = NoTask],
         lock' = [lock EXCEPT ![tasks[t].service] = "free"],
         consuming' = FALSE,
         UNCHANGED <<clients, current, screen, mounted, poolOpen>>
  PROVE  IInv'
<1>. USE TasksAre, NoTaskIsTask DEF IInv
<1>1. t \in Workers /\ InCall(t)
  BY DEF TaskShape, InCall
<1>2. /\ tasks'[t].kind = "none" /\ tasks'[t].stage = "idle"
      /\ \A u \in Tasks : u # t => tasks'[u] = tasks[u]
  BY DEF SessionTypes
<1>3. tasks[t].service \in Services /\ lock[tasks[t].service] = t
  BY <1>1 DEF SessionTypes, LocksAreHeld, Task
<1>4. SessionTypes'
  BY <1>3 DEF SessionTypes
<1>5. TaskShape'
  BY <1>2 DEF TaskShape
<1>6. LocksAreHeld'
  <2>1. \A u \in Tasks : InCall(u)' <=> u # t /\ InCall(u)
    BY <1>2 DEF InCall
  <2>2. ASSUME NEW u \in Tasks, InCall(u)' PROVE lock'[tasks'[u].service] = u
    <3>1. u # t /\ lock[tasks[u].service] = u /\ tasks[u].service \in Services
      BY <2>1, <2>2 DEF LocksAreHeld, SessionTypes, Task
    <3>. QED
      BY <3>1, <1>2, <1>3 DEF SessionTypes
  <2>3. ASSUME NEW s \in Services, lock'[s] # "free"
        PROVE  InCall(lock[s])' /\ tasks'[lock'[s]].service = s
    <3>1. s # tasks[t].service /\ lock'[s] = lock[s] /\ lock[s] \in Tasks
      BY <2>3, <1>3 DEF SessionTypes
    <3>2. lock[s] # t /\ InCall(lock[s]) /\ tasks[lock[s]].service = s
      BY <3>1, <2>3 DEF LocksAreHeld
    <3>. QED
      BY <3>1, <3>2, <2>1, <1>2 DEF InCall
  <2>. QED
    BY <2>2, <2>3 DEF LocksAreHeld, InCall
<1>7. FlagIsTrue'
  BY <1>1, <1>2 DEF FlagIsTrue, Busy, TaskShape
<1>8. OwnClients'
  BY <1>1, <1>2 DEF OwnClients, Busy
<1>. QED
  BY <1>4, <1>5, <1>6, <1>7, <1>8

\* A page that goes on, and a worker that is cancelled, change none of this.
LEMMA TaskGoesOn ==
  ASSUME IInv, NEW t \in Workers, tasks' \in [Tasks -> Task],
         \A u \in Tasks : u # t => tasks'[u] = tasks[u],
         tasks'[t].kind = tasks[t].kind, tasks'[t].service = tasks[t].service,
         \/ tasks'[t].stage = tasks[t].stage
         \/ /\ tasks[t].stage \in {"starting", "polling", "scanning"}
            /\ tasks'[t].stage \in {"polling", "scanning"},
         UNCHANGED <<clients, lock, current, consuming, screen, mounted, poolOpen>>
  PROVE  IInv'
<1>. USE TasksAre DEF IInv
<1>1. \A u \in Tasks : tasks'[u].kind = tasks[u].kind /\ tasks'[u].service = tasks[u].service
  OBVIOUS
<1>2. \A u \in Tasks : (InCall(u)' <=> InCall(u)) /\ (Busy(u)' <=> Busy(u))
  BY <1>1 DEF InCall, Busy
<1>3. SessionTypes'
  BY DEF SessionTypes
<1>4. TaskShape'
  BY DEF TaskShape
<1>5. LocksAreHeld'
  BY <1>1, <1>2 DEF LocksAreHeld, SessionTypes
<1>6. FlagIsTrue'
  BY <1>2 DEF FlagIsTrue
<1>7. OwnClients'
  BY <1>1, <1>2 DEF OwnClients
<1>. QED
  BY <1>3, <1>4, <1>5, <1>6, <1>7

LEMMA Unchanged ==
  ASSUME IInv, UNCHANGED sessionVars
  PROVE  IInv'
BY DEF IInv, sessionVars, SessionTypes, TaskShape, LocksAreHeld, FlagIsTrue, OwnClients, InCall,
       Busy
----------------------------------------------------------------------------
(* One lemma for each action that starts, moves or ends a task.            *)

\* What a page does after a call has returned.
LEMMA PageContinues ==
  ASSUME IInv, NEW t \in Tasks, tasks[t].stage \in {"starting", "polling", "scanning"},
         NEW stage \in {"polling", "scanning"}, NEW page, Continue(t, stage, page),
         UNCHANGED <<clients, current, screen, mounted, poolOpen>>
  PROVE  IInv'
<1>1. CASE tasks[t].cancelled
  BY <1>1, PageEnds DEF Continue, EndPage, Release
<1>2. CASE ~tasks[t].cancelled
  <2>1. /\ t \in Workers
        /\ tasks' = [tasks EXCEPT ![t].stage = stage]
        /\ UNCHANGED <<clients, lock, current, consuming, screen, mounted, poolOpen>>
    BY <1>2, TasksAre DEF Continue, IInv, TaskShape
  <2>2. tasks \in [Tasks -> Task]
    BY DEF IInv, SessionTypes
  <2>3. /\ tasks' \in [Tasks -> Task]
        /\ tasks'[t].kind = tasks[t].kind /\ tasks'[t].service = tasks[t].service
        /\ tasks'[t].stage = stage
        /\ \A u \in Tasks : u # t => tasks'[u] = tasks[u]
    BY <2>1, <2>2 DEF Task
  <2>. QED
    BY <2>1, <2>3, TaskGoesOn
<1>. QED
  BY <1>1, <1>2

LEMMA PollStep ==
  ASSUME IInv, NEW t \in Tasks, NEW n \in 0..LastOffset, PollReturns(t, n)
  PROVE  IInv'
<1>1. /\ tasks[t].stage = "polling"
      /\ UNCHANGED <<clients, current, screen, mounted, poolOpen>>
  BY DEF PollReturns
<1>2. CASE FailPage(t)
  BY <1>1, <1>2, PageEnds DEF FailPage, Release
<1>3. CASE EndPage(t, pages[t].rows)
  BY <1>1, <1>3, PageEnds DEF EndPage, Release
<1>4. CASE \E page : Continue(t, "polling", page)
  BY <1>1, <1>4, PageContinues
<1>5. CASE \E page : Continue(t, "scanning", page)
  BY <1>1, <1>5, PageContinues
<1>. QED
  BY <1>2, <1>3, <1>4, <1>5 DEF PollReturns

LEMMA ScanStep ==
  ASSUME IInv, NEW t \in Tasks, BatchScanned(t)
  PROVE  IInv'
<1>1. /\ tasks[t].stage = "scanning"
      /\ UNCHANGED <<clients, current, screen, mounted, poolOpen>>
  BY DEF BatchScanned, serviceVars
<1>2. CASE \E rows : EndPage(t, rows)
  BY <1>1, <1>2, PageEnds DEF EndPage, Release
<1>3. CASE \E page : Continue(t, "polling", page)
  BY <1>1, <1>3, PageContinues
<1>. QED
  BY <1>2, <1>3 DEF BatchScanned

LEMMA StartStep ==
  ASSUME IInv, NEW t \in Tasks, StartReturns(t) \/ StartFails(t) \/ BatchFails(t)
  PROVE  IInv'
<1>1. CASE StartReturns(t)
  <2>1. \E page : Continue(t, "polling", page)
    BY <1>1 DEF StartReturns
  <2>. QED
    BY <1>1, <2>1, PageContinues DEF StartReturns
<1>2. CASE StartFails(t) \/ BatchFails(t)
  BY <1>2, PageEnds DEF StartFails, BatchFails, FailPage, Release, serviceVars
<1>. QED
  BY <1>1, <1>2

\* Only on_unmount() takes a lock it has waited for.
LEMMA LockStep ==
  ASSUME IInv, NEW t \in Tasks, TakeLock(t)
  PROVE  IInv'
<1>. USE TasksAre DEF IInv
<1>1. /\ t = "unmount" /\ tasks[t].kind = "unmount" /\ tasks[t].stage = "waiting"
      /\ tasks[t].service \in Services /\ lock[tasks[t].service] = "free"
  BY DEF TakeLock, TaskShape, SessionTypes, Task
<1>2. /\ tasks' = [tasks EXCEPT ![t].stage = "closing"]
      /\ lock' = [lock EXCEPT ![tasks[t].service] = t]
      /\ UNCHANGED <<clients, current, consuming, screen, mounted, poolOpen>>
  BY <1>1 DEF TakeLock, Entered, serviceVars, listVars
<1>3. /\ tasks' \in [Tasks -> Task]
      /\ tasks'[t].kind = "unmount" /\ tasks'[t].stage = "closing"
      /\ tasks'[t].service = tasks[t].service
      /\ \A u \in Tasks : u # t => tasks'[u] = tasks[u]
  BY <1>1, <1>2 DEF SessionTypes, Task
<1>4. SessionTypes'
  BY <1>1, <1>2, <1>3 DEF SessionTypes
<1>5. TaskShape'
  BY <1>1, <1>3 DEF TaskShape
<1>6. LocksAreHeld'
  <2>1. \A u \in Tasks : InCall(u)' <=> u = t \/ InCall(u)
    BY <1>3 DEF InCall
  <2>2. ASSUME NEW u \in Tasks, InCall(u)' PROVE lock'[tasks'[u].service] = u
    <3>1. CASE u = t
      BY <3>1, <1>1, <1>2, <1>3 DEF SessionTypes
    <3>2. CASE u # t
      <4>1. lock[tasks[u].service] = u /\ tasks[u].service \in Services
        BY <3>2, <2>1, <2>2 DEF LocksAreHeld, SessionTypes, Task
      <4>. QED
        BY <4>1, <3>2, <1>1, <1>2, <1>3 DEF SessionTypes
    <3>. QED
      BY <3>1, <3>2
  <2>3. ASSUME NEW s \in Services, lock'[s] # "free"
        PROVE  InCall(lock[s])' /\ tasks'[lock'[s]].service = s
    <3>1. CASE s = tasks[t].service
      BY <3>1, <1>1, <1>2, <1>3, <2>1 DEF SessionTypes, InCall
    <3>2. CASE s # tasks[t].service
      <4>1. lock'[s] = lock[s] /\ lock[s] \in Tasks
        BY <2>3, <3>2, <1>2 DEF SessionTypes
      <4>2. lock[s] # t /\ InCall(lock[s]) /\ tasks[lock[s]].service = s
        BY <4>1, <2>3, <3>2 DEF LocksAreHeld
      <4>. QED
        BY <4>1, <4>2, <1>3, <2>1 DEF InCall
    <3>. QED
      BY <3>1, <3>2
  <2>. QED
    BY <2>2, <2>3 DEF LocksAreHeld, InCall
<1>7. FlagIsTrue'
  BY <1>1, <1>2, <1>3 DEF FlagIsTrue, Busy
<1>8. OwnClients'
  BY <1>1, <1>2, <1>3 DEF OwnClients, Busy
<1>. QED
  BY <1>4, <1>5, <1>6, <1>7, <1>8

\* A task that starts when nobody works, and what it starts with.
LEMMA TaskStarts ==
  ASSUME IInv, mounted, ~consuming, NEW t \in Workers, NEW kind \in {"consume", "replace"},
         NEW filter, AskForLock(t, kind, current, filter), consuming' = TRUE,
         current' \in Services, clients' \in [Services -> {"none", "open", "closed"}],
         kind = "consume" => current' = current,
         kind = "replace" => current' # current,
         clients'[current] = "open", clients'[current'] = "open",
         screen' = "list",
         UNCHANGED <<mounted, poolOpen>>
  PROVE  IInv'
<1>. USE TasksAre DEF IInv
<1>1. /\ \A u \in Tasks : tasks[u].kind = "none" /\ tasks[u].stage = "idle"
      /\ \A s \in Services : lock[s] = "free"
  BY NobodyWorks
<1>. DEFINE stage == Entered(kind, services[current])
<1>2. current \in Services /\ lock[current] = "free"
  BY <1>1 DEF SessionTypes
<1>3. /\ tasks' = [tasks EXCEPT ![t] = NewTask(kind, stage, current)]
      /\ lock' = [lock EXCEPT ![current] = t]
  BY <1>2 DEF AskForLock, Asking
<1>4. \/ kind = "consume" /\ stage \in {"starting", "polling"}
      \/ kind = "replace" /\ stage = "closing"
  BY DEF Entered
<1>. HIDE DEF stage
<1>5. /\ tasks' \in [Tasks -> Task]
      /\ tasks'[t].kind = kind /\ tasks'[t].stage = stage /\ tasks'[t].service = current
      /\ \A u \in Tasks : u # t => tasks'[u].kind = "none" /\ tasks'[u].stage = "idle"
  <2>1. /\ NewTask(kind, stage, current) \in Task
        /\ NewTask(kind, stage, current).kind = kind
        /\ NewTask(kind, stage, current).stage = stage
        /\ NewTask(kind, stage, current).service = current
    BY <1>2, <1>4, NewTaskIsTask
  <2>. QED
    BY <2>1, <1>1, <1>3 DEF SessionTypes
<1>6. lock' \in [Services -> Tasks \cup {"free"}] /\ lock'[current] = t
      /\ \A s \in Services : s # current => lock'[s] = "free"
  BY <1>1, <1>2, <1>3 DEF SessionTypes
<1>7. SessionTypes'
  BY <1>5, <1>6 DEF SessionTypes
<1>8. TaskShape'
  BY <1>4, <1>5 DEF TaskShape
<1>9. LocksAreHeld'
  BY <1>2, <1>4, <1>5, <1>6 DEF LocksAreHeld, InCall
<1>10. FlagIsTrue'
  BY <1>4, <1>5 DEF FlagIsTrue, Busy
<1>11. OwnClients'
  BY <1>2, <1>4, <1>5 DEF OwnClients, Busy
<1>. QED
  BY <1>7, <1>8, <1>9, <1>10, <1>11

LEMMA ConsumeStep ==
  ASSUME IInv, NEW t \in Workers, ConsumeMore(t)
  PROVE  IInv'
<1>1. /\ mounted /\ ~consuming /\ screen' = "list" /\ consuming' = TRUE
      /\ AskForLock(t, "consume", current, filters)
      /\ UNCHANGED <<clients, current, mounted, poolOpen>>
  BY DEF ConsumeMore, CanAct, serviceVars
<1>2. current \in Services /\ clients \in [Services -> {"none", "open", "closed"}]
  BY DEF IInv, SessionTypes
<1>3. clients[current] = "open"
  BY <1>1 DEF IInv, OwnClients
<1>. QED
  BY <1>1, <1>2, <1>3, TaskStarts

LEMMA FilterStep ==
  ASSUME IInv, NEW t \in Workers, NEW filter, mounted, ~consuming, screen' = "list",
         Replace(t, filter) \/ ReplaceFails(t, filter),
         UNCHANGED <<mounted, poolOpen>>
  PROVE  IInv'
<1>1. current \in Services /\ clients \in [Services -> {"none", "open", "closed"}]
  BY DEF IInv, SessionTypes
<1>2. clients[current] = "open"
  BY DEF IInv, OwnClients
<1>3. CASE Replace(t, filter)
  <2>1. PICK s \in Services :
          clients[s] = "none" /\ clients' = [clients EXCEPT ![s] = "open"] /\ current' = s
    BY <1>3 DEF Replace
  <2>2. /\ current' \in Services /\ current' # current
        /\ clients' \in [Services -> {"none", "open", "closed"}]
        /\ clients'[current] = "open" /\ clients'[current'] = "open"
    BY <2>1, <1>1, <1>2
  <2>3. AskForLock(t, "replace", current, filter) /\ consuming' = TRUE
    BY <1>3 DEF Replace
  <2>. QED
    BY <2>2, <2>3, TaskStarts
<1>4. CASE ReplaceFails(t, filter)
  <2>1. /\ AskForLock(t, "consume", current, filter) /\ consuming' = TRUE
        /\ UNCHANGED <<clients, current>>
    BY <1>4 DEF ReplaceFails, serviceVars
  <2>. QED
    BY <2>1, <1>1, <1>2, TaskStarts
<1>. QED
  BY <1>3, <1>4

\* on_unmount() goes on at once or waits for the page under way.
LEMMA UnmountStep ==
  ASSUME IInv, Unmount
  PROVE  IInv'
<1>. USE TasksAre DEF IInv
<1>. DEFINE t == "unmount"
             stage == IF lock[current] = "free" THEN "closing" ELSE "waiting"
<1>1. /\ mounted /\ ~mounted' /\ mounted' \in BOOLEAN
      /\ UNCHANGED <<clients, current, consuming, screen, poolOpen>>
  BY DEF Unmount, serviceVars, listVars
<1>2. current \in Services /\ tasks[t].kind = "none" /\ tasks[t].stage = "idle"
  BY <1>1 DEF SessionTypes, OwnClients, Busy, TaskShape
<1>3. /\ tasks' = [tasks EXCEPT ![t] = NewTask("unmount", stage, current)]
      /\ lock' = IF lock[current] = "free" THEN [lock EXCEPT ![current] = t] ELSE lock
  BY DEF Unmount, AskForLock, Asking, Entered
<1>4. /\ tasks' \in [Tasks -> Task]
      /\ tasks'[t].kind = "unmount" /\ tasks'[t].stage = stage /\ tasks'[t].service = current
      /\ \A u \in Tasks : u # t => tasks'[u] = tasks[u]
  <2>1. /\ NewTask("unmount", stage, current) \in Task
        /\ NewTask("unmount", stage, current).kind = "unmount"
        /\ NewTask("unmount", stage, current).stage = stage
        /\ NewTask("unmount", stage, current).service = current
    BY <1>2, NewTaskIsTask
  <2>. QED
    BY <2>1, <1>3 DEF SessionTypes
<1>5. SessionTypes'
  BY <1>1, <1>2, <1>3, <1>4 DEF SessionTypes
<1>6. TaskShape'
  BY <1>4 DEF TaskShape
<1>7. LocksAreHeld'
  <2>1. \A u \in Tasks : u # t => (InCall(u)' <=> InCall(u))
    BY <1>4 DEF InCall
  <2>2. InCall(t)' <=> lock[current] = "free"
    BY <1>4 DEF InCall
  <2>3. ASSUME NEW u \in Tasks, InCall(u)' PROVE lock'[tasks'[u].service] = u
    <3>1. CASE u = t
      BY <3>1, <2>2, <2>3, <1>2, <1>3, <1>4 DEF SessionTypes
    <3>2. CASE u # t
      <4>1. lock[tasks[u].service] = u /\ tasks[u].service \in Services
        BY <3>2, <2>1, <2>3 DEF LocksAreHeld, SessionTypes, Task
      <4>. QED
        BY <4>1, <3>2, <1>2, <1>3, <1>4 DEF SessionTypes
    <3>. QED
      BY <3>1, <3>2
  <2>4. ASSUME NEW s \in Services, lock'[s] # "free"
        PROVE  InCall(lock[s])' /\ tasks'[lock'[s]].service = s
    <3>1. CASE lock[s] = "free"
      <4>1. s = current /\ lock'[s] = t
        BY <3>1, <2>4, <1>2, <1>3 DEF SessionTypes
      <4>. QED
        BY <4>1, <3>1, <2>2, <1>4 DEF InCall
    <3>2. CASE lock[s] # "free"
      <4>1. /\ lock'[s] = lock[s] /\ lock[s] \in Tasks
            /\ InCall(lock[s]) /\ tasks[lock[s]].service = s
        BY <3>2, <2>4, <1>3 DEF SessionTypes, LocksAreHeld
      <4>2. lock[s] # t
        BY <4>1, <1>2 DEF InCall
      <4>. QED
        BY <4>1, <4>2, <2>1, <1>4 DEF InCall
    <3>. QED
      BY <3>1, <3>2
  <2>. QED
    BY <2>3, <2>4 DEF LocksAreHeld, InCall
<1>8. FlagIsTrue'
  BY <1>1, <1>4 DEF FlagIsTrue, Busy
<1>9. OwnClients'
  BY <1>1, <1>2, <1>4 DEF OwnClients, Busy
<1>. QED
  BY <1>5, <1>6, <1>7, <1>8, <1>9

\* A cancelled worker keeps its lock: none of them waits for one.
LEMMA CancelStep ==
  ASSUME IInv, NEW t \in Workers, CancelWorker(t)
  PROVE  IInv'
<1>1. /\ tasks' = [tasks EXCEPT ![t].cancelled = TRUE]
      /\ UNCHANGED <<clients, lock, current, consuming, screen, mounted, poolOpen>>
  BY DEF CancelWorker, IInv, TaskShape, serviceVars
<1>2. /\ tasks' \in [Tasks -> Task]
      /\ tasks'[t].kind = tasks[t].kind /\ tasks'[t].service = tasks[t].service
      /\ tasks'[t].stage = tasks[t].stage
      /\ \A u \in Tasks : u # t => tasks'[u] = tasks[u]
  BY <1>1, TasksAre DEF IInv, SessionTypes, Task
<1>. QED
  BY <1>1, <1>2, TaskGoesOn

\* What is left when the lock of a closing task is given back.
LEMMA LockGivenBack ==
  ASSUME IInv, NEW t \in Tasks, tasks[t].stage = "closing",
         tasks' = [tasks EXCEPT ![t] = NoTask],
         lock' = [lock EXCEPT ![tasks[t].service] = "free"]
  PROVE  LocksAreHeld'
<1>. USE TasksAre, NoTaskIsTask DEF IInv
<1>1. /\ tasks'[t].kind = "none" /\ tasks'[t].stage = "idle"
      /\ \A u \in Tasks : u # t => tasks'[u] = tasks[u]
  BY DEF SessionTypes
<1>2. tasks[t].service \in Services /\ lock[tasks[t].service] = t
  BY DEF SessionTypes, LocksAreHeld, Task, InCall
<1>3. \A u \in Tasks : InCall(u)' <=> u # t /\ InCall(u)
  BY <1>1 DEF InCall
<1>4. ASSUME NEW u \in Tasks, InCall(u)' PROVE lock'[tasks'[u].service] = u
  <2>1. u # t /\ lock[tasks[u].service] = u /\ tasks[u].service \in Services
    BY <1>3, <1>4 DEF LocksAreHeld, SessionTypes, Task
  <2>. QED
    BY <2>1, <1>1, <1>2 DEF SessionTypes
<1>5. ASSUME NEW s \in Services, lock'[s] # "free"
      PROVE  InCall(lock[s])' /\ tasks'[lock'[s]].service = s
  <2>1. s # tasks[t].service /\ lock'[s] = lock[s] /\ lock[s] \in Tasks
    BY <1>5, <1>2 DEF SessionTypes
  <2>2. lock[s] # t /\ InCall(lock[s]) /\ tasks[lock[s]].service = s
    BY <2>1, <1>5 DEF LocksAreHeld
  <2>. QED
    BY <2>1, <2>2, <1>3, <1>1 DEF InCall
<1>. QED
  BY <1>4, <1>5 DEF LocksAreHeld, InCall

LEMMA CloseStep ==
  ASSUME IInv, NEW t \in Tasks, CloseReturns(t)
  PROVE  IInv'
<1>. USE TasksAre, NoTaskIsTask DEF IInv
<1>. DEFINE closed == tasks[t].service
<1>1. /\ tasks[t].stage = "closing" /\ InCall(t) /\ Busy(t)
      /\ closed \in Services /\ lock[closed] = t
      /\ clients' = [clients EXCEPT ![closed] = "closed"]
      /\ UNCHANGED <<current, screen, mounted>>
  BY DEF CloseReturns, SessionTypes, Task, InCall, LocksAreHeld, Busy, TaskShape
<1>2. clients' \in [Services -> {"none", "open", "closed"}]
  BY <1>1 DEF SessionTypes
<1>3. CASE /\ tasks[t].kind = "replace" /\ mounted
           /\ tasks' = [tasks EXCEPT ![t] = Asking("consume", current)]
           /\ lock' = [s \in Services |-> IF s = current THEN t
                                          ELSE IF s = closed THEN "free" ELSE lock[s]]
           /\ UNCHANGED <<consuming, poolOpen>>
  <2>1. /\ t \in Workers /\ closed # current /\ current \in Services
        /\ \A u \in Tasks : u # t => tasks[u].kind = "none" /\ tasks[u].stage = "idle"
    <3>1. t \in Workers /\ closed # current /\ current \in Services /\ ~Busy("unmount")
      BY <1>3 DEF TaskShape, OwnClients, SessionTypes
    <3>2. \A u \in Tasks : u # t => ~Busy(u)
      BY <3>1, <1>1 DEF FlagIsTrue
    <3>. QED
      BY <3>1, <3>2 DEF Busy, TaskShape
  <2>2. \A s \in Services : s # closed => lock[s] = "free"
    <3>1. \A u \in Tasks : u # t => ~InCall(u)
      BY <2>1 DEF InCall
    <3>. QED
      BY <3>1 DEF LocksAreHeld, SessionTypes
  <2>. DEFINE stage == Entered("consume", services[current])
  <2>3. tasks' = [tasks EXCEPT ![t] = NewTask("consume", stage, current)]
    BY <1>3, <2>1, <2>2 DEF Asking
  <2>4. stage \in {"starting", "polling"}
    BY DEF Entered
  <2>. HIDE DEF stage
  <2>5. /\ tasks' \in [Tasks -> Task]
        /\ tasks'[t].kind = "consume" /\ tasks'[t].stage = stage
        /\ tasks'[t].service = current
        /\ \A u \in Tasks : u # t => tasks'[u].kind = "none" /\ tasks'[u].stage = "idle"
    <3>1. /\ NewTask("consume", stage, current) \in Task
          /\ NewTask("consume", stage, current).kind = "consume"
          /\ NewTask("consume", stage, current).stage = stage
          /\ NewTask("consume", stage, current).service = current
      BY <2>1, <2>4, NewTaskIsTask
    <3>. QED
      BY <3>1, <2>1, <2>3 DEF SessionTypes
  <2>6. /\ lock' \in [Services -> Tasks \cup {"free"}] /\ lock'[current] = t
        /\ \A s \in Services : s # current => lock'[s] = "free"
    BY <1>3, <2>1, <2>2 DEF SessionTypes
  <2>7. SessionTypes'
    BY <1>1, <1>2, <1>3, <2>5, <2>6 DEF SessionTypes
  <2>8. TaskShape'
    BY <2>1, <2>4, <2>5 DEF TaskShape
  <2>9. LocksAreHeld'
    BY <2>1, <2>4, <2>5, <2>6 DEF LocksAreHeld, InCall
  <2>10. FlagIsTrue'
    BY <1>1, <1>3, <2>1, <2>5 DEF FlagIsTrue, Busy
  <2>11. OwnClients'
    BY <1>1, <1>3, <2>1, <2>5 DEF OwnClients, Busy, SessionTypes
  <2>. QED
    BY <2>7, <2>8, <2>9, <2>10, <2>11
<1>4. CASE /\ tasks' = [tasks EXCEPT ![t] = NoTask]
           /\ lock' = [lock EXCEPT ![closed] = "free"]
           /\ consuming' = (consuming /\ tasks[t].kind = "unmount")
           /\ poolOpen' = (poolOpen /\ tasks[t].kind # "unmount")
  <2>1. /\ tasks'[t].kind = "none" /\ tasks'[t].stage = "idle"
        /\ \A u \in Tasks : u # t => tasks'[u] = tasks[u]
    BY <1>4 DEF SessionTypes
  <2>2. SessionTypes'
    BY <1>1, <1>2, <1>4 DEF SessionTypes
  <2>3. TaskShape'
    BY <2>1 DEF TaskShape
  <2>4. LocksAreHeld'
    BY <1>1, <1>4, LockGivenBack
  <2>5. CASE t = "unmount"
    <3>1. /\ tasks[t].kind = "unmount" /\ closed = current /\ ~mounted
          /\ UNCHANGED consuming
      BY <2>5, <1>1, <1>4 DEF TaskShape, OwnClients, SessionTypes
    <3>2. FlagIsTrue'
      BY <2>1, <2>5, <3>1, <1>1 DEF FlagIsTrue, Busy
    <3>3. \A w \in Workers : tasks[w].kind # "consume"
      <4>1. SUFFICES ASSUME NEW w \in Workers, tasks[w].kind = "consume" PROVE FALSE
        OBVIOUS
      <4>2. tasks[w].service = current /\ InCall(w)
        BY <4>1 DEF OwnClients, TaskShape, InCall
      <4>. QED
        BY <4>2, <3>1, <1>1, <2>5 DEF LocksAreHeld
    <3>4. OwnClients'
      BY <1>1, <2>1, <2>5, <3>1, <3>3 DEF OwnClients, Busy, SessionTypes
    <3>. QED
      BY <2>2, <2>3, <2>4, <3>2, <3>4
  <2>6. CASE t \in Workers
    <3>1. /\ tasks[t].kind = "replace" /\ closed # current /\ ~consuming'
          /\ UNCHANGED poolOpen
      BY <2>6, <1>1, <1>4 DEF TaskShape, OwnClients, SessionTypes
    <3>2. \A w \in Workers : w # t => ~Busy(w)
      BY <2>6, <1>1 DEF FlagIsTrue
    <3>3. FlagIsTrue'
      BY <2>1, <3>1, <3>2, <1>1 DEF FlagIsTrue, Busy
    <3>4. OwnClients'
      BY <1>1, <2>1, <2>6, <3>1, <3>2 DEF OwnClients, Busy, SessionTypes
    <3>. QED
      BY <2>2, <2>3, <2>4, <3>3, <3>4
  <2>. QED
    BY <2>5, <2>6
<1>. QED
  BY <1>3, <1>4 DEF CloseReturns
----------------------------------------------------------------------------
(* The invariant, and what follows from it.                                *)

LEMMA StepHolds == IInv /\ [Next]_vars => IInv'
<1>. SUFFICES ASSUME IInv, [Next]_vars PROVE IInv'
  OBVIOUS
<1>1. ASSUME NEW t \in Tasks, TaskStep(t) PROVE IInv'
  BY <1>1, StartStep, PollStep, ScanStep, LockStep, CloseStep DEF TaskStep
<1>2. ASSUME NEW t \in Tasks, ClientEvent(t) PROVE IInv'
  <2>1. UNCHANGED sessionVars
    BY <1>2 DEF ClientEvent, Assign, Rebalance, AuthorizationError, sessionVars, listVars,
                taskVars
  <2>. QED
    BY <2>1, Unchanged
<1>3. ASSUME NEW t \in Workers, CancelWorker(t) PROVE IInv'
  BY <1>3, CancelStep
<1>4. ASSUME NEW t \in Workers, ConsumeMore(t) PROVE IInv'
  BY <1>4, ConsumeStep
<1>5. ASSUME NEW t \in Workers, NEW filter, ApplyFilter(t, filter) PROVE IInv'
  <2>1. mounted /\ ~consuming /\ screen' = "list" /\ UNCHANGED <<mounted, poolOpen>>
    BY <1>5 DEF ApplyFilter, IInv, FlagIsTrue
  <2>. QED
    BY <1>5, <2>1, FilterStep DEF ApplyFilter
<1>6. ASSUME NEW t \in Workers, ShowAll(t) PROVE IInv'
  <2>1. mounted /\ ~consuming /\ screen' = "list" /\ UNCHANGED <<mounted, poolOpen>>
    BY <1>6 DEF ShowAll, CanAct
  <2>. QED
    BY <1>6, <2>1, FilterStep DEF ShowAll
<1>7. ASSUME NEW kind, OpenScreen(kind) PROVE IInv'
  BY <1>7 DEF OpenScreen, CanAct, IInv, serviceVars, taskVars, listVars, SessionTypes, TaskShape,
              LocksAreHeld, FlagIsTrue, OwnClients, InCall, Busy
<1>8. ASSUME CloseScreen \/ \E size \in PageSizes : SelectChunk(size) PROVE IInv'
  BY <1>8 DEF CloseScreen, SelectChunk, IInv, serviceVars, taskVars, listVars, SessionTypes,
              TaskShape, LocksAreHeld, FlagIsTrue, OwnClients, InCall, Busy
<1>9. ASSUME Unmount PROVE IInv'
  BY <1>9, UnmountStep
<1>10. ASSUME UNCHANGED vars PROVE IInv'
  <2>1. UNCHANGED sessionVars
    BY <1>10 DEF vars, sessionVars, serviceVars, taskVars, listVars
  <2>. QED
    BY <2>1, Unchanged
<1>. QED
  BY <1>1, <1>2, <1>3, <1>4, <1>5, <1>6, <1>7, <1>8, <1>9, <1>10 DEF Next, UserStep

LEMMA Invariant == Spec => []IInv
BY InitHolds, StepHolds, PTL DEF Spec

LEMMA SafeUse == IInv => ClientsUsedSafely
<1>. SUFFICES ASSUME IInv PROVE ClientsUsedSafely
  OBVIOUS
<1>. USE TasksAre DEF IInv
<1>1. ASSUME NEW t \in Tasks, InCall(t) PROVE clients[tasks[t].service] = "open"
  <2>1. CASE t = "unmount"
    BY <2>1, <1>1 DEF TaskShape, InCall, OwnClients, Busy
  <2>2. CASE t \in Workers
    BY <2>2, <1>1 DEF TaskShape, InCall, OwnClients
  <2>. QED
    BY <2>1, <2>2
<1>2. ASSUME NEW t \in Tasks, tasks[t].stage = "scanning" PROVE poolOpen
  BY <1>2 DEF TaskShape, OwnClients
<1>3. ASSUME NEW t \in Tasks, NEW u \in Tasks, t # u, InCall(t), InCall(u)
      PROVE  tasks[t].service # tasks[u].service
  BY <1>3 DEF LocksAreHeld
<1>. QED
  BY <1>1, <1>2, <1>3 DEF ClientsUsedSafely

LEMMA OneBusy == IInv => OneWorkerAtATime
<1>. SUFFICES ASSUME IInv PROVE OneWorkerAtATime
  OBVIOUS
<1>. DEFINE busy == {w \in Workers : Busy(w)}
<1>1. CASE consuming
  <2>1. PICK w \in Workers : Busy(w)
    BY <1>1 DEF IInv, FlagIsTrue
  <2>2. busy = {w}
    BY <2>1 DEF IInv, FlagIsTrue
  <2>. QED
    BY <2>2, <1>1, FS_Singleton DEF OneWorkerAtATime
<1>2. CASE ~consuming
  <2>1. busy = {}
    BY <1>2 DEF IInv, FlagIsTrue
  <2>. QED
    BY <2>1, <1>2, FS_EmptySet DEF OneWorkerAtATime
<1>. QED
  BY <1>1, <1>2

\* No client is used by two threads, after it was closed, or with a closed
\* pool of deserializers: a cancelled call of run_blocking() keeps the
\* operation lock of its service, and the list starts one worker at a time.
THEOREM ClientsAreSafe == Spec => []ClientsUsedSafely
BY Invariant, SafeUse, PTL

\* _is_consuming is set exactly while one worker pages or replaces the client,
\* so check_action(), which consults only the flag, never admits a second one.
THEOREM OneWorker == Spec => []OneWorkerAtATime
BY Invariant, OneBusy, PTL
-----------------------------------------------------------------------------
\* What the list shows, of any log.

\* What a service keeps goes together: a stable one has a position, and only a
\* rebalance takes partitions away.
ServiceShape(s) ==
  /\ s.stable <=> s.next # Unassigned
  /\ s.assigned => s.stable
  /\ s.stable => s.started
  /\ s.rebalances = 0 /\ s.stable => s.assigned

\* The polled records are the last before the service's position.
BatchIsNext(p, s) ==
  \A i \in 1..Len(p.batch) : p.batch[i] = s.next - Len(p.batch) + i - 1

\* The rows are all that match from the page's start to where the batch starts.
RowsAreAll(p, s) ==
  /\ p.from <= s.next - Len(p.batch)
  /\ Ascending(p.rows)
  /\ ToSet(p.rows) = Paged!MatchingIn(p.from, s.next - Len(p.batch), p.filter)

\* What a page has read, of the service it reads from.
PageShape(p, s, stage) ==
  /\ p.from = Unassigned <=> s.next = Unassigned
  /\ p.from = Unassigned => p.rows = <<>>
  /\ stage = "starting" <=> ~s.started
  /\ IF stage = "scanning" THEN s.next # Unassigned ELSE p.batch = <<>>
  /\ Len(p.rows) + Len(p.batch) <= s.page
  /\ \A o \in ToSet(p.rows) : Matches(o, p.filter)
  /\ BatchIsNext(p, s)
  /\ s.rebalances = 0 /\ s.next # Unassigned => RowsAreAll(p, s)

ContentTypes ==
  /\ services \in [Services -> Service]
  /\ pages \in [Tasks -> Page]
  /\ filters \in Filter
  /\ shown \in Seq(Offset)
  /\ crashed \in BOOLEAN /\ failed \in BOOLEAN

PagesAreSound ==
  \A w \in Workers :
    /\ tasks[w].kind = "consume" =>
         pages[w].filter = filters /\ PageShape(pages[w], services[current], tasks[w].stage)
    /\ tasks[w].cancelled => ~mounted

ListIsSound ==
  /\ \A o \in ToSet(shown) : Matches(o, filters)
  /\ IsInjective(shown)
  /\ services[current].rebalances = 0 => ~crashed /\ \A o \in ToSet(shown) : o < Position

CInv ==
  /\ ContentTypes
  /\ \A s \in Services : ServiceShape(services[s])
  /\ PagesAreSound
  /\ ListIsSound
----------------------------------------------------------------------------
(* The constants, and the position.                                        *)

LEMMA OffsetsAre ==
  /\ LastOffset \in Nat /\ 0 \in Offset /\ Offset \subseteq Int
  /\ \A o \in Offset : o >= 0 /\ o < LastOffset
  /\ Unassigned = -1 /\ Unassigned \in Int
  /\ (0..LastOffset) \subseteq Int /\ Unassigned \notin 0..LastOffset
<1>2. LastOffset \in Nat /\ LastOffset > 0
  BY ConsumerAssumption
<1>3. 0 \in Offset /\ Offset \subseteq Int /\ \A o \in Offset : o >= 0 /\ o < LastOffset
  BY <1>2 DEF Offset
<1>4. Unassigned = -1 /\ Unassigned \in Int /\ Unassigned \notin 0..LastOffset
  BY <1>2 DEF Unassigned
<1>5. (0..LastOffset) \subseteq Int
  BY <1>2
<1>. QED
  BY <1>2, <1>3, <1>4, <1>5

\* PagedRecords has the same offsets and filters.
LEMMA SameTerms == Paged!Offset = Offset /\ Paged!Unassigned = Unassigned /\ Paged!Filter = Filter
BY DEF Offset, Unassigned, Filter, Paged!Offset, Paged!Unassigned, Paged!Filter

LEMMA SameOperators ==
  /\ \A r : Paged!ToSet(r) = ToSet(r)
  /\ \A r : Paged!IsInjective(r) <=> IsInjective(r)
  /\ \A r : Paged!Ascending(r) <=> Ascending(r)
  /\ \A S, n : Paged!BoundedSeq(S, n) = BoundedSeq(S, n)
<1>1. \A r : Paged!ToSet(r) = ToSet(r)
  BY DEF Paged!ToSet, ToSet
<1>2. \A r : Paged!IsInjective(r) <=> IsInjective(r)
  BY DEF Paged!IsInjective, IsInjective
<1>3. \A r : Paged!Ascending(r) <=> Ascending(r)
  BY DEF Paged!Ascending, Paged!IsSorted, Ascending, IsSorted
<1>4. \A S, n : Paged!BoundedSeq(S, n) = BoundedSeq(S, n)
  BY DEF Paged!BoundedSeq, Paged!SeqOf, BoundedSeq, SeqOf
<1>. QED
  BY <1>1, <1>2, <1>3, <1>4

\* MatchingIn, in the terms of ConsumerSession.
LEMMA MatchingIs ==
  \A first, next, f, o :
    o \in Paged!MatchingIn(first, next, f) <=>
      o \in Offset /\ first <= o /\ o < next /\ Matches(o, f)
BY DEF Matches, Offset, Paged!Matches, Paged!Offset, Paged!MatchingIn

\* The largest page there is.
LEMMA LargestIs ==
  /\ LargestPage \in PageSizes /\ LargestPage \in Nat
  /\ \A size \in PageSizes : size \in Nat /\ size > 0 /\ size <= LargestPage
<1>1. \E largest \in PageSizes : \A size \in PageSizes : size <= largest
  BY ConsumerAssumption
<1>2. LargestPage \in PageSizes /\ \A size \in PageSizes : size <= LargestPage
  BY <1>1, Zenon DEF LargestPage
<1>3. \A size \in PageSizes : size \in Nat /\ size > 0
  BY ConsumerAssumption
<1>. QED
  BY <1>2, <1>3

PositionIsTrue ==
  /\ \A w \in Workers : tasks[w].kind = "consume" => Position = pages[w].from
  /\ (\A w \in Workers : tasks[w].kind # "consume") => Position = services[current].next

\* The next page starts where the one under way did, or where the service is.
LEMMA PositionIs == IInv => PositionIsTrue
<1>. SUFFICES ASSUME IInv PROVE PositionIsTrue
  OBVIOUS
<1>1. ASSUME NEW w \in Workers, tasks[w].kind = "consume" PROVE Position = pages[w].from
  <2>1. PageTasks = {w}
    BY <1>1 DEF PageTasks, IInv, FlagIsTrue, Busy
  <2>. QED
    BY <2>1 DEF Position
<1>2. ASSUME \A w \in Workers : tasks[w].kind # "consume"
      PROVE  Position = services[current].next
  BY <1>2 DEF Position, PageTasks
<1>. QED
  BY <1>1, <1>2 DEF PositionIsTrue

LEMMA NextPositionIs == IInv' => PositionIsTrue'
BY PositionIs, PTL

\* What the list's page and position have to do with its service.
LEMMA PositionHolds ==
  ASSUME IInv, CInv
  PROVE  /\ current \in Services /\ services[current] \in Service
         /\ ServiceShape(services[current])
         /\ Position \in (0..LastOffset) \cup {Unassigned}
         /\ Position = Unassigned <=> services[current].next = Unassigned
<1>. USE TasksAre
<1>1. /\ current \in Services /\ services[current] \in Service
      /\ ServiceShape(services[current])
      /\ services[current].next \in (0..LastOffset) \cup {Unassigned}
  BY DEF IInv, SessionTypes, CInv, ContentTypes, Service
<1>2. PositionIsTrue
  BY PositionIs
<1>3. CASE \E w \in Workers : tasks[w].kind = "consume"
  <2>1. PICK w \in Workers : tasks[w].kind = "consume"
    BY <1>3
  <2>2. pages[w] \in Page /\ PageShape(pages[w], services[current], tasks[w].stage)
    BY <2>1 DEF CInv, ContentTypes, PagesAreSound
  <2>. QED
    BY <2>1, <2>2, <1>1, <1>2 DEF PositionIsTrue, PageShape, Page
<1>4. CASE \A w \in Workers : tasks[w].kind # "consume"
  BY <1>4, <1>1, <1>2 DEF PositionIsTrue
<1>. QED
  BY <1>1, <1>3, <1>4
----------------------------------------------------------------------------
(* What a page reads.                                                      *)

LEMMA NothingRead ==
  /\ <<>> \in Seq(Offset) /\ Len(<<>>) = 0 /\ ToSet(<<>>) = {}
  /\ Ascending(<<>>) /\ IsInjective(<<>>)
BY DEF ToSet, Ascending, IsSorted, IsInjective

LEMMA RowsAre ==
  \A rows \in Seq(Offset) :
    /\ Len(rows) \in Nat /\ DOMAIN rows = 1..Len(rows)
    /\ \A i \in 1..Len(rows) : rows[i] \in Offset
    /\ rows \in Seq(Int)
    /\ SubSeq(rows, 1, Len(rows)) = rows
<1>. SUFFICES ASSUME NEW rows \in Seq(Offset)
              PROVE  /\ Len(rows) \in Nat /\ DOMAIN rows = 1..Len(rows)
                     /\ \A i \in 1..Len(rows) : rows[i] \in Offset
                     /\ rows \in Seq(Int)
                     /\ SubSeq(rows, 1, Len(rows)) = rows
  OBVIOUS
<1>1. /\ Len(rows) \in Nat /\ DOMAIN rows = 1..Len(rows)
      /\ \A i \in 1..Len(rows) : rows[i] \in Offset
  OBVIOUS
<1>2. rows \in Seq(Int)
  <2>1. \A i \in 1..Len(rows) : rows[i] \in Int
    BY <1>1, OffsetsAre
  <2>2. rows \in [1..Len(rows) -> Int]
    BY <1>1, <2>1
  <2>. QED
    BY <1>1, <2>2
<1>3. SubSeq(rows, 1, Len(rows)) = rows
  OBVIOUS
<1>. QED
  BY <1>1, <1>2, <1>3

LEMMA NoPageIsPage == NoPage \in Page
<1>1. NoPage = [filter |-> "none", from |-> Unassigned, rows |-> <<>>, batch |-> <<>>,
                polls |-> 0, waits |-> 0]
  BY DEF NoPage, NewPage
<1>2. 0 \in 0..MaxPolls /\ 0 \in 0..MaxWaits /\ "none" \in Filter
  BY ConsumerAssumption DEF Filter
<1>. QED
  BY <1>1, <1>2, NothingRead DEF Page

\* A page that begins where the service is.
LEMMA PageBegins ==
  ASSUME NEW s \in Service, ServiceShape(s), NEW filter \in Filter
  PROVE  /\ NewPage(filter, s.next) \in Page
         /\ NewPage(filter, s.next).filter = filter
         /\ NewPage(filter, s.next).from = s.next
         /\ PageShape(NewPage(filter, s.next), s, Entered("consume", s))
<1>. DEFINE p == NewPage(filter, s.next)
<1>1. s.next \in (0..LastOffset) \cup {Unassigned} /\ s.page \in Nat
  BY LargestIs DEF Service
<1>2. /\ p.filter = filter /\ p.from = s.next /\ p.rows = <<>> /\ p.batch = <<>>
      /\ p.polls = 0 /\ p.waits = 0
  BY DEF NewPage
<1>3. p \in Page
  <2>1. p = [filter |-> filter, from |-> s.next, rows |-> <<>>, batch |-> <<>>,
             polls |-> 0, waits |-> 0]
    BY DEF NewPage
  <2>2. 0 \in 0..MaxPolls /\ 0 \in 0..MaxWaits
    BY ConsumerAssumption
  <2>. QED
    BY <2>1, <2>2, <1>1, NothingRead DEF Page
<1>. HIDE DEF p
<1>4. RowsAreAll(p, s) \/ s.next = Unassigned
  <2>. SUFFICES ASSUME s.next # Unassigned PROVE RowsAreAll(p, s)
    OBVIOUS
  <2>1. s.next \in Int /\ s.next - 0 = s.next /\ s.next <= s.next
    BY <1>1, OffsetsAre
  <2>2. \A o \in Offset : ~(s.next <= o /\ o < s.next)
    BY <2>1, OffsetsAre
  <2>3. Paged!MatchingIn(s.next, s.next, filter) = {}
    BY <2>2, MatchingIs
  <2>. QED
    BY <2>1, <2>3, <1>2, NothingRead DEF RowsAreAll
<1>5. PageShape(p, s, Entered("consume", s))
  BY <1>1, <1>2, <1>4, NothingRead DEF PageShape, Entered, BatchIsNext
<1>. QED
  BY <1>2, <1>3, <1>5 DEF p

\* start() gives a service with partitions of its own the log's beginning.
LEMMA ServiceStarts ==
  ASSUME NEW s \in Service, ServiceShape(s), ~s.started
  PROVE  /\ StartedService(s) \in Service /\ ServiceShape(StartedService(s))
         /\ StartedService(s).started
         /\ StartedService(s).page = s.page
         /\ StartedService(s).rebalances = s.rebalances
         /\ s.next = Unassigned
<1>. DEFINE st == StartedService(s)
<1>1. s.next = Unassigned /\ ~s.stable /\ ~s.assigned
  BY DEF ServiceShape, Service
<1>2. CASE s.manual
  <2>1. st = [s EXCEPT !.started = TRUE, !.stable = TRUE, !.assigned = TRUE, !.next = 0]
    BY <1>2 DEF StartedService
  <2>2. /\ st.started = TRUE /\ st.stable = TRUE /\ st.assigned = TRUE /\ st.next = 0
        /\ st.page = s.page /\ st.rebalances = s.rebalances /\ st.manual = s.manual
        /\ st.error = s.error
    BY <2>1, Zenon DEF Service
  <2>3. 0 \in (0..LastOffset) \cup {Unassigned} /\ 0 # Unassigned
    BY OffsetsAre
  <2>4. st \in Service
    BY <2>1, <2>3, Zenon DEF Service
  <2>. QED
    BY <1>1, <2>2, <2>3, <2>4 DEF ServiceShape
<1>3. CASE ~s.manual
  <2>1. st = [s EXCEPT !.started = TRUE]
    BY <1>3 DEF StartedService
  <2>2. /\ st \in Service /\ st.started = TRUE /\ st.stable = s.stable
        /\ st.assigned = s.assigned /\ st.next = s.next /\ st.page = s.page
        /\ st.rebalances = s.rebalances
    BY <2>1 DEF Service
  <2>. QED
    BY <1>1, <2>2 DEF ServiceShape
<1>. QED
  BY <1>2, <1>3

LEMMA PageStarts ==
  ASSUME NEW s \in Service, ServiceShape(s), NEW p \in Page, PageShape(p, s, "starting"),
         NEW q, q = [p EXCEPT !.from = StartedService(s).next]
  PROVE  /\ q \in Page /\ q.filter = p.filter /\ q.from = StartedService(s).next
         /\ p.from = Unassigned
         /\ PageShape(q, StartedService(s), "polling")
<1>. DEFINE st == StartedService(s)
<1>1. /\ st \in Service /\ ServiceShape(st) /\ st.page = s.page /\ st.started
      /\ st.rebalances = s.rebalances /\ s.next = Unassigned /\ p.from = Unassigned
  BY ServiceStarts DEF PageShape
<1>. HIDE DEF st
<1>2. /\ q \in Page /\ q.filter = p.filter /\ q.from = st.next
      /\ q.rows = <<>> /\ q.batch = <<>>
  BY <1>1 DEF Page, Service, PageShape, st
<1>3. PageShape(NewPage(p.filter, st.next), st, Entered("consume", st))
  BY <1>1, PageBegins DEF Page
<1>4. PageShape(q, st, "polling")
  BY <1>1, <1>2, <1>3 DEF PageShape, NewPage, Entered, BatchIsNext, RowsAreAll
<1>. QED
  BY <1>1, <1>2, <1>4 DEF st

\* The first assignment is where a page without a position starts; a later one
\* moves a page that may have lost records.
LEMMA PageIsAssigned ==
  ASSUME NEW s \in Service, ServiceShape(s), ~s.assigned, s.started,
         NEW p \in Page, PageShape(p, s, "polling"), NEW offset \in 0..LastOffset,
         NEW st \in Service, st.next = offset, st.page = s.page, st.rebalances = s.rebalances,
         st.started, st.stable,
         NEW q, q = [p EXCEPT !.from = IF p.from = Unassigned THEN offset ELSE p.from]
  PROVE  /\ q \in Page /\ q.filter = p.filter
         /\ q.from = IF p.from = Unassigned THEN offset ELSE p.from
         /\ PageShape(q, st, "polling")
<1>. USE OffsetsAre
<1>1. /\ q \in Page /\ q.filter = p.filter /\ q.rows = p.rows /\ q.batch = <<>>
      /\ q.from = IF p.from = Unassigned THEN offset ELSE p.from
  BY DEF Page, PageShape
<1>2. q.from # Unassigned /\ st.next # Unassigned /\ p.batch = <<>>
  BY <1>1 DEF PageShape
<1>3. ASSUME s.rebalances = 0 PROVE p.from = Unassigned /\ p.rows = <<>>
  BY <1>3 DEF ServiceShape, PageShape
<1>4. ASSUME s.rebalances = 0 PROVE RowsAreAll(q, st)
  <2>1. q.from = offset /\ q.rows = <<>> /\ offset \in Int
    BY <1>1, <1>3, <1>4
  <2>2. st.next - Len(q.batch) = offset /\ offset <= offset
    BY <1>1, <2>1, NothingRead
  <2>3. \A o \in Offset : ~(offset <= o /\ o < offset)
    BY <2>1
  <2>4. Paged!MatchingIn(offset, offset, q.filter) = {}
    BY <2>3, MatchingIs
  <2>. QED
    BY <2>1, <2>2, <2>4, NothingRead DEF RowsAreAll
<1>5. BatchIsNext(q, st)
  BY <1>1, NothingRead DEF BatchIsNext
<1>6. Len(q.rows) + Len(q.batch) <= st.page
  BY <1>1, <1>2 DEF PageShape
<1>7. \A o \in ToSet(q.rows) : Matches(o, q.filter)
  BY <1>1 DEF PageShape
<1>. QED
  BY <1>1, <1>2, <1>4, <1>5, <1>6, <1>7 DEF PageShape

\* A poll moves the service past the records it returns.
LEMMA ServicePolls ==
  ASSUME NEW s \in Service, ServiceShape(s), NEW n \in 0..LastOffset,
         n > 0 => s.assigned /\ s.next + n <= LastOffset
  PROVE  /\ PolledService(s, n) \in Service /\ ServiceShape(PolledService(s, n))
         /\ PolledService(s, n).page = s.page
         /\ PolledService(s, n).rebalances = s.rebalances
         /\ PolledService(s, n).started = s.started
         /\ n = 0 => PolledService(s, n).next = s.next
         /\ n > 0 => s.next \in 0..LastOffset /\ PolledService(s, n).next = s.next + n
<1>. DEFINE st == PolledService(s, n)
            next == IF n > 0 THEN s.next + n ELSE s.next
<1>1. n > 0 => s.next \in 0..LastOffset
  BY DEF ServiceShape, Service
<1>2. next \in (0..LastOffset) \cup {Unassigned} /\ (next = Unassigned <=> s.next = Unassigned)
  BY <1>1, OffsetsAre DEF Service
<1>3. n = 0 \/ n > 0
  OBVIOUS
<1>4. st = [s EXCEPT !.next = next, !.error = FALSE]
  BY DEF PolledService
<1>. HIDE DEF next
<1>5. /\ st.next = next /\ st.started = s.started /\ st.stable = s.stable
      /\ st.assigned = s.assigned /\ st.page = s.page /\ st.rebalances = s.rebalances
      /\ st \in Service
  BY <1>2, <1>4, Zenon DEF Service
<1>. HIDE DEF st
<1>6. ServiceShape(st)
  BY <1>2, <1>5 DEF ServiceShape
<1>. QED
  BY <1>1, <1>3, <1>5, <1>6 DEF next, st

LEMMA ServiceAssigned ==
  ASSUME NEW s \in Service, s.started, NEW offset \in 0..LastOffset
  PROVE  /\ AssignedService(s, offset) \in Service
         /\ ServiceShape(AssignedService(s, offset))
         /\ AssignedService(s, offset).page = s.page
         /\ AssignedService(s, offset).rebalances = s.rebalances
         /\ AssignedService(s, offset).next = offset
         /\ AssignedService(s, offset).started /\ AssignedService(s, offset).stable
<1>. DEFINE st == AssignedService(s, offset)
<1>1. offset # Unassigned /\ offset \in (0..LastOffset) \cup {Unassigned}
  BY OffsetsAre
<1>2. st = [s EXCEPT !.stable = TRUE, !.assigned = TRUE, !.next = offset]
  BY DEF AssignedService
<1>3. /\ st.next = offset /\ st.started = s.started /\ st.stable = TRUE
      /\ st.assigned = TRUE /\ st.page = s.page /\ st.rebalances = s.rebalances
      /\ st \in Service
  BY <1>1, <1>2, Zenon DEF Service
<1>. QED
  BY <1>1, <1>3 DEF ServiceShape

\* What a page that ends with these rows has read: all that matches between its
\* start and where the service is, unless a rebalance moved it.
PageRead(p, s, rows) ==
  /\ rows \in Seq(Offset) /\ Len(rows) <= s.page
  /\ \A o \in ToSet(rows) : Matches(o, p.filter)
  /\ s.next = Unassigned => rows = <<>>
  /\ s.rebalances = 0 /\ s.next # Unassigned =>
       /\ p.from <= s.next
       /\ Ascending(rows)
       /\ ToSet(rows) = Paged!MatchingIn(p.from, s.next, p.filter)

LEMMA ReadSoFar ==
  ASSUME NEW s \in Service, NEW p \in Page, PageShape(p, s, "polling")
  PROVE  PageRead(p, s, p.rows) /\ p.batch = <<>>
<1>1. p.batch = <<>> /\ p.rows \in Seq(Offset)
  BY DEF PageShape, Page
<1>2. Len(p.rows) <= s.page
  <2>1. Len(p.rows) \in Nat /\ Len(p.rows) + 0 <= s.page /\ s.page \in Nat
    BY <1>1, NothingRead, RowsAre, LargestIs DEF PageShape, Service
  <2>. QED
    BY <2>1
<1>3. s.next # Unassigned => s.next - Len(p.batch) = s.next
  BY <1>1, NothingRead, OffsetsAre DEF Service
<1>. QED
  BY <1>1, <1>2, <1>3 DEF PageRead, PageShape, RowsAreAll

\* A page that goes on with its rows, its batch done.
LEMMA PageGoesOn ==
  ASSUME NEW s \in Service, NEW p \in Page, NEW rows, PageRead(p, s, rows),
         NEW q \in Page, q.filter = p.filter, q.from = p.from, q.rows = rows, q.batch = <<>>,
         p.from = Unassigned <=> s.next = Unassigned, s.started
  PROVE  PageShape(q, s, "polling")
<1>1. Len(q.batch) = 0 /\ Len(rows) \in Nat
  BY NothingRead DEF PageRead
<1>2. Len(q.rows) + Len(q.batch) <= s.page
  BY <1>1, LargestIs DEF PageRead, Service
<1>3. BatchIsNext(q, s)
  BY <1>1 DEF BatchIsNext
<1>4. s.next # Unassigned => s.next - Len(q.batch) = s.next
  BY <1>1, OffsetsAre DEF Service
<1>. QED
  BY <1>2, <1>3, <1>4 DEF PageRead, PageShape, RowsAreAll

\* A poll's records are the service's next.
Polled(s, st, p, q, n) ==
  /\ s.next \in 0..LastOffset /\ s.next + n <= LastOffset
  /\ n <= s.page - Len(p.rows)
  /\ st.page = s.page /\ st.rebalances = s.rebalances /\ st.next = s.next + n
  /\ st.started = s.started
  /\ q.filter = p.filter /\ q.from = p.from /\ q.rows = p.rows
  /\ q.batch = [i \in 1..n |-> s.next + i - 1]

LEMMA PageIsPolled ==
  ASSUME NEW s \in Service, NEW st \in Service, NEW p \in Page, PageShape(p, s, "polling"),
         NEW n \in 1..LastOffset, NEW q \in Page, Polled(s, st, p, q, n)
  PROVE  PageShape(q, st, "scanning")
<1>1. PageRead(p, s, p.rows) /\ Len(p.rows) \in Nat /\ s.page \in Nat
  <2>1. PageRead(p, s, p.rows)
    BY ReadSoFar
  <2>2. p.rows \in Seq(Offset)
    BY DEF Page
  <2>3. s.page \in PageSizes
    BY DEF Service
  <2>. QED
    BY <2>1, <2>2, <2>3, LargestIs, RowsAre
<1>2. Len(q.batch) = n /\ \A i \in 1..n : q.batch[i] = s.next + i - 1
  BY DEF Polled
<1>3. st.next # Unassigned /\ s.next # Unassigned /\ st.next - Len(q.batch) = s.next
  <2>1. LastOffset \in Nat /\ Unassigned = -1
    BY OffsetsAre
  <2>. QED
    BY <1>2, <2>1 DEF Polled
<1>4. Len(q.rows) + Len(q.batch) <= st.page
  BY <1>1, <1>2 DEF Polled
<1>5. BatchIsNext(q, st)
  BY <1>2, <1>3 DEF BatchIsNext
<1>6. /\ q.filter = p.filter /\ q.from = p.from /\ q.rows = p.rows
      /\ st.rebalances = s.rebalances /\ st.started = s.started
  BY DEF Polled
<1>. QED
  BY <1>1, <1>3, <1>4, <1>5, <1>6 DEF PageShape, PageRead, RowsAreAll

\* Scanning a batch misses none of its matching records: there are never more
\* of them than the page still wants.
RowsScanned(p, s) ==
  LET matched == Kept(p.batch, Passing(p.filter))
      wanted  == s.page - Len(p.rows)
  IN p.rows \o SubSeq(matched, 1, IF Len(matched) > wanted THEN wanted ELSE Len(matched))

LEMMA BatchIsScanned ==
  ASSUME NEW s \in Service, NEW p \in Page, PageShape(p, s, "scanning")
  PROVE  PageRead(p, s, RowsScanned(p, s))
<1>. DEFINE matched == Kept(p.batch, Passing(p.filter))
            wanted  == s.page - Len(p.rows)
            rows    == RowsScanned(p, s)
<1>1. /\ p.rows \in Seq(Offset) /\ Len(p.rows) \in Nat
      /\ p.batch \in Seq(Offset) /\ Len(p.batch) \in Nat
      /\ p.from \in (0..LastOffset) \cup {Unassigned}
      /\ s.page \in Nat /\ s.next \in 0..LastOffset
  <2>1. /\ p.rows \in Seq(Offset) /\ p.batch \in Seq(Offset)
        /\ p.from \in (0..LastOffset) \cup {Unassigned}
    BY DEF Page
  <2>2. s.page \in PageSizes /\ s.next \in (0..LastOffset) \cup {Unassigned}
    BY DEF Service
  <2>3. s.next # Unassigned
    BY DEF PageShape
  <2>. QED
    BY <2>1, <2>2, <2>3, LargestIs, RowsAre
<1>. DEFINE start == s.next - Len(p.batch)
<1>16. Len(p.rows) + Len(p.batch) <= s.page
  BY DEF PageShape
<1>2. start \in Int /\ s.next \in Int /\ s.next # Unassigned
  BY <1>1, OffsetsAre
<1>3. \A i \in 1..Len(p.batch) : p.batch[i] = start + i - 1
  BY DEF PageShape, BatchIsNext
<1>4. \A o \in Offset : o \in ToSet(p.batch) <=> start <= o /\ o < s.next
  <2>1. DOMAIN p.batch = 1..Len(p.batch)
    BY <1>1
  <2>2. ASSUME NEW o \in Offset, start <= o, o < s.next PROVE o \in ToSet(p.batch)
    <3>1. o - start + 1 \in 1..Len(p.batch)
      <4>1. o \in Int
        BY OffsetsAre
      <4>. QED
        BY <1>1, <1>2, <2>2, <4>1
    <3>2. p.batch[o - start + 1] = o
      <4>1. p.batch[o - start + 1] = start + (o - start + 1) - 1
        BY <1>3, <3>1
      <4>2. o \in Int
        BY OffsetsAre
      <4>3. start + (o - start + 1) - 1 = o
        BY <1>2, <4>2
      <4>. QED
        BY <4>1, <4>3
    <3>. QED
      BY <2>1, <3>1, <3>2 DEF ToSet
  <2>3. ASSUME NEW i \in 1..Len(p.batch) PROVE start <= p.batch[i] /\ p.batch[i] < s.next
    BY <1>1, <1>2, <1>3
  <2>. QED
    BY <2>1, <2>2, <2>3 DEF ToSet
<1>5. ToSet(p.batch) \subseteq Offset
  BY <1>1 DEF ToSet
<1>6. Ascending(p.batch)
  <2>1. \A i, j \in 1..Len(p.batch) : i < j => p.batch[i] < p.batch[j]
    BY <1>2, <1>3
  <2>. QED
    BY <2>1 DEF Ascending, IsSorted
<1>7. /\ matched \in Seq(Offset) /\ Len(matched) <= Len(p.batch) /\ Len(matched) \in Nat
      /\ ToSet(matched) = ToSet(p.batch) \cap Passing(p.filter)
  BY <1>1, KeptElements
<1>8. Ascending(matched)
  <2>1. p.batch \in Seq(Int)
    BY <1>1, RowsAre
  <2>. QED
    BY <2>1, <1>6, KeptIncreases
<1>17. ~(Len(matched) > wanted) /\ Len(p.rows) + Len(matched) <= s.page
  <2>1. \A a, b, c, d \in Nat : a <= b /\ c + b <= d => ~(a > d - c) /\ c + a <= d
    OBVIOUS
  <2>2. Len(matched) \in Nat /\ Len(matched) <= Len(p.batch)
    BY <1>7
  <2>. HIDE DEF matched
  <2>. QED
    BY <1>1, <1>16, <2>1, <2>2
<1>9. rows = p.rows \o matched
  <2>1. ~(Len(matched) > wanted)
    BY <1>17
  <2>2. rows = p.rows \o SubSeq(matched, 1, Len(matched))
    BY <2>1 DEF RowsScanned
  <2>3. SubSeq(matched, 1, Len(matched)) = matched
    BY <1>7, RowsAre
  <2>. QED
    BY <2>2, <2>3
<1>. HIDE DEF matched, rows
<1>10. /\ rows \in Seq(Offset) /\ Len(rows) = Len(p.rows) + Len(matched)
       /\ ToSet(rows) = ToSet(p.rows) \cup ToSet(matched)
  BY <1>1, <1>7, <1>9, ElementsTogether
<1>11. Len(rows) <= s.page
  BY <1>10, <1>17
<1>12. \A o \in ToSet(matched) : o \in Offset /\ Matches(o, p.filter)
  BY <1>7 DEF Passing
<1>13. \A o \in ToSet(rows) : Matches(o, p.filter)
  BY <1>10, <1>12 DEF PageShape
<1>14. ASSUME s.rebalances = 0
       PROVE  /\ p.from <= s.next
              /\ Ascending(rows)
              /\ ToSet(rows) = Paged!MatchingIn(p.from, s.next, p.filter)
  <2>1. RowsAreAll(p, s)
    BY <1>1, <1>14 DEF PageShape
  <2>2. \A o : o \in ToSet(p.rows) <=>
                 o \in Offset /\ p.from <= o /\ o < start /\ Matches(o, p.filter)
    BY <2>1, MatchingIs DEF RowsAreAll
  <2>3. p.from <= start /\ p.from \in Int
    BY <1>1, <2>1, OffsetsAre DEF RowsAreAll
  <2>4. \A o : o \in ToSet(matched) <=>
                 o \in Offset /\ start <= o /\ o < s.next /\ Matches(o, p.filter)
    BY <1>4, <1>5, <1>7 DEF Passing
  <2>5. start <= s.next
    BY <1>1
  <2>11. \A o \in Offset : o \in Int
    BY OffsetsAre
  <2>6. \A o \in Offset : p.from <= o /\ o < s.next <=>
                           (p.from <= o /\ o < start) \/ (start <= o /\ o < s.next)
    BY <1>2, <2>3, <2>5, <2>11
  <2>7. \A o : o \in ToSet(rows) <=> o \in Paged!MatchingIn(p.from, s.next, p.filter)
    BY <1>10, <2>2, <2>4, <2>6, MatchingIs
  <2>8. ToSet(rows) = Paged!MatchingIn(p.from, s.next, p.filter)
    BY <2>7
  <2>9. Ascending(rows)
    <3>1. \A x, y \in Offset : x < start /\ start <= y => x < y
      BY <1>2, OffsetsAre
    <3>2. \A x \in ToSet(p.rows), y \in ToSet(matched) : x < y
      BY <2>2, <2>4, <3>1
    <3>3. p.rows \in Seq(Int) /\ matched \in Seq(Int)
      BY <1>1, <1>7, RowsAre
    <3>4. Ascending(p.rows)
      BY <2>1 DEF RowsAreAll
    <3>. QED
      BY <3>2, <3>3, <3>4, <1>8, <1>9, AscendingTogether
  <2>10. p.from <= s.next
    BY <1>1, <1>2, <2>3, <2>5
  <2>. QED
    BY <2>8, <2>9, <2>10
<1>15. PageRead(p, s, rows)
  BY <1>2, <1>10, <1>11, <1>13, <1>14 DEF PageRead
<1>. QED
  BY <1>15 DEF rows
----------------------------------------------------------------------------
(* The ways the list's page and position change.                           *)

PagedStep == [Paged!Next]_(Paged!vars)

Trouble == failed \/ services[current].rebalances > 0

\* The worker of a page, its service and what it has read.
LEMMA PageOf ==
  ASSUME IInv, CInv, NEW t \in Tasks, tasks[t].stage \in {"starting", "polling", "scanning"}
  PROVE  /\ t \in Workers /\ tasks[t].kind = "consume" /\ tasks[t].service = current
         /\ current \in Services /\ services[current] \in Service
         /\ ServiceShape(services[current])
         /\ pages[t] \in Page /\ pages[t].filter = filters
         /\ PageShape(pages[t], services[current], tasks[t].stage)
         /\ Position = pages[t].from
         /\ tasks[t].cancelled => ~mounted
         /\ \A w \in Workers : w # t => tasks[w].kind # "consume"
<1>. USE TasksAre DEF IInv
<1>1. t \in Workers /\ tasks[t].kind = "consume" /\ tasks[t].service = current
  BY DEF TaskShape, OwnClients
<1>2. \A w \in Workers : w # t => tasks[w].kind # "consume"
  BY <1>1 DEF FlagIsTrue, Busy
<1>3. Position = pages[t].from
  BY <1>1, PositionIs DEF PositionIsTrue
<1>. QED
  BY <1>1, <1>2, <1>3, PositionHolds DEF CInv, ContentTypes, PagesAreSound

\* Nothing that PagedRecords knows of changes.
LEMMA PagedStutters ==
  ASSUME UNCHANGED <<shown, filters, mounted, failed>>, Position' = Position,
         services'[current'].rebalances = services[current].rebalances
  PROVE  PagedStep
BY DEF PagedStep, Paged!vars

\* A step in which records may be lost, or after which they may be.
LEMMA PagedDisturbs ==
  ASSUME UNCHANGED <<shown, filters, mounted>>,
         Position' \in (0..LastOffset) \cup {Unassigned},
         Trouble' \/ ~mounted, failed' \in BOOLEAN
  PROVE  PagedStep
<1>1. CASE Trouble'
  BY <1>1, SameTerms DEF PagedStep, Paged!Next, Paged!Disturb, Trouble
<1>2. CASE ~mounted
  <2>1. (failed \/ services[current].rebalances > 0)' \in BOOLEAN
    OBVIOUS
  <2>. QED
    BY <1>2, <2>1, SameTerms DEF PagedStep, Paged!Next, Paged!Abandon
<1>. QED
  BY <1>1, <1>2

\* Of the pages there is the one of this worker.
LEMMA OnePage ==
  ASSUME NEW t \in Workers, tasks'[t].kind = "consume" => PageShape(pages[t], services[current], tasks[t].stage)',
         tasks'[t].kind = "consume" => pages'[t].filter = filters',
         tasks'[t].cancelled => ~mounted',
         \A w \in Workers : w # t => tasks'[w].kind # "consume",
         \A w \in Workers : w # t => (tasks'[w].cancelled => ~mounted')
  PROVE  PagesAreSound'
BY DEF PagesAreSound

\* A page goes on, its service moved, assigned or revoked.
LEMMA PageMoves ==
  ASSUME IInv, CInv, IInv', NEW t \in Tasks,
         tasks[t].stage \in {"starting", "polling", "scanning"},
         tasks'[t].kind = "consume", tasks'[t].cancelled = tasks[t].cancelled,
         \A u \in Workers : u # t => tasks'[u] = tasks[u],
         NEW st \in Service, ServiceShape(st),
         services' = [services EXCEPT ![current] = st],
         NEW q \in Page, q.filter = filters, PageShape(q, st, tasks'[t].stage),
         pages' = [pages EXCEPT ![t] = q],
         \/ /\ st.rebalances = services[current].rebalances
            /\ q.from = pages[t].from \/ pages[t].from = Unassigned
         \/ st.rebalances > 0 /\ q.from = pages[t].from,
         UNCHANGED <<current, filters, shown, crashed, failed, mounted>>
  PROVE  CInv' /\ PagedStep
<1>. USE TasksAre
<1>1. /\ t \in Workers /\ current \in Services /\ services[current] \in Service
      /\ Position = pages[t].from
      /\ tasks[t].cancelled => ~mounted
      /\ \A w \in Workers : w # t => tasks[w].kind # "consume"
  BY PageOf
<1>2. services'[current] = st /\ pages'[t] = q
      /\ \A s \in Services : services'[s] = services[s] \/ services'[s] = st
  BY <1>1 DEF CInv, ContentTypes
<1>3. Position' = q.from
  BY <1>1, <1>2, NextPositionIs DEF PositionIsTrue
<1>4. ContentTypes'
  BY <1>1 DEF CInv, ContentTypes
<1>5. \A s \in Services : ServiceShape(services[s])'
  BY <1>2 DEF CInv, ServiceShape
<1>6. PagesAreSound'
  <2>1. PageShape(pages[t], services[current], tasks[t].stage)'
    BY <1>2
  <2>2. \A w \in Workers : w # t => tasks'[w].kind # "consume" /\ (tasks'[w].cancelled => ~mounted')
    BY <1>1 DEF CInv, PagesAreSound
  <2>. QED
    BY <1>1, <1>2, <2>1, <2>2, OnePage
<1>7. ListIsSound'
  <2>1. ASSUME st.rebalances = 0 PROVE ~crashed /\ \A o \in ToSet(shown) : o < q.from
    <3>1. services[current].rebalances = 0
      BY <2>1
    <3>2. ~crashed /\ \A o \in ToSet(shown) : o < pages[t].from
      BY <3>1, <1>1 DEF CInv, ListIsSound
    <3>3. CASE q.from = pages[t].from
      BY <3>2, <3>3
    <3>4. CASE pages[t].from = Unassigned
      <4>1. ToSet(shown) \subseteq Offset
        BY RowsAre DEF CInv, ContentTypes, ToSet
      <4>2. \A o \in Offset : ~(o < Unassigned)
        BY OffsetsAre
      <4>. QED
        BY <3>2, <3>4, <4>1, <4>2
    <3>. QED
      BY <3>3, <3>4, <2>1
  <2>2. services'[current'].rebalances = st.rebalances
    BY <1>2
  <2>. QED
    BY <2>1, <2>2, <1>3 DEF CInv, ListIsSound
<1>8. PagedStep
  <2>1. CASE st.rebalances = services[current].rebalances /\ q.from = pages[t].from
    BY <2>1, <1>1, <1>2, <1>3, PagedStutters
  <2>2. CASE /\ st.rebalances = services[current].rebalances
             /\ pages[t].from = Unassigned /\ q.from # Unassigned
    <3>1. q.from \in 0..LastOffset
      BY <2>2 DEF Page
    <3>2. Position = Unassigned /\ Position' \in 0..LastOffset
      BY <1>1, <1>3, <2>2, <3>1
    <3>3. Trouble' = Trouble
      BY <2>2, <1>2 DEF Trouble
    <3>. QED
      BY <3>2, <3>3, SameTerms DEF PagedStep, Paged!Next, Paged!Assign, Trouble
  <2>3. CASE st.rebalances > 0 /\ q.from = pages[t].from
    <3>1. Position' \in (0..LastOffset) \cup {Unassigned}
      BY <1>3 DEF Page
    <3>2. Trouble'
      BY <1>2, <2>3 DEF Trouble
    <3>3. failed' \in BOOLEAN
      BY <1>4 DEF ContentTypes
    <3>. QED
      BY <3>1, <3>2, <3>3, PagedDisturbs
  <2>. QED
    BY <2>1, <2>2, <2>3
<1>. QED
  BY <1>4, <1>5, <1>6, <1>7, <1>8 DEF CInv

\* What a page leaves behind, however it ends.
LEMMA PageIsGone ==
  ASSUME IInv, CInv, IInv', NEW t \in Tasks,
         tasks[t].stage \in {"starting", "polling", "scanning"},
         tasks' = [tasks EXCEPT ![t] = NoTask], pages' = [pages EXCEPT ![t] = NoPage],
         NEW st \in Service, ServiceShape(st),
         services' = [services EXCEPT ![current] = st],
         UNCHANGED <<current, filters, mounted>>
  PROVE  /\ Position' = st.next /\ services'[current'] = st
         /\ services' \in [Services -> Service] /\ pages' \in [Tasks -> Page]
         /\ \A s \in Services : ServiceShape(services[s])'
         /\ PagesAreSound'
<1>. USE TasksAre
<1>1. /\ t \in Workers /\ current \in Services
      /\ \A w \in Workers : w # t => tasks[w].kind # "consume"
  BY PageOf
<1>2. services'[current] = st /\ \A s \in Services : services'[s] \in {services[s], st}
  BY <1>1 DEF CInv, ContentTypes
<1>3. /\ tasks'[t] = NoTask /\ NoTask.kind = "none" /\ NoTask.cancelled = FALSE
      /\ \A w \in Workers : w # t => tasks'[w] = tasks[w]
  BY <1>1 DEF IInv, SessionTypes, NoTask, NewTask
<1>4. \A w \in Workers : tasks'[w].kind # "consume"
  BY <1>1, <1>3
<1>5. Position' = services'[current'].next
  BY <1>4, NextPositionIs DEF PositionIsTrue
<1>6. PagesAreSound'
  BY <1>3, <1>4 DEF CInv, PagesAreSound
<1>7. NoPage \in Page
  BY NoPageIsPage
<1>8. services' \in [Services -> Service] /\ pages' \in [Tasks -> Page]
  BY <1>1, <1>7 DEF CInv, ContentTypes
<1>9. \A s \in Services : ServiceShape(services[s])'
  BY <1>2 DEF CInv, ServiceShape
<1>. QED
  BY <1>2, <1>5, <1>6, <1>8, <1>9

LEMMA ShownAreOffsets == CInv => ToSet(shown) \subseteq Offset
BY RowsAre DEF CInv, ContentTypes, ToSet

\* A page that ends without rows for the list: it failed, was cancelled, or
\* read a record that the list has.
LEMMA PageIsLost ==
  ASSUME IInv, CInv, IInv', NEW t \in Tasks,
         tasks[t].stage \in {"starting", "polling", "scanning"},
         tasks' = [tasks EXCEPT ![t] = NoTask], pages' = [pages EXCEPT ![t] = NoPage],
         NEW st \in Service, ServiceShape(st),
         services' = [services EXCEPT ![current] = st],
         st.rebalances = services[current].rebalances,
         st.rebalances = 0 => pages[t].from = Unassigned \/ pages[t].from <= st.next,
         crashed' \in BOOLEAN, failed' \in BOOLEAN,
         st.rebalances = 0 => crashed' = crashed,
         failed' \/ st.rebalances > 0 \/ ~mounted,
         UNCHANGED <<current, filters, shown, mounted>>
  PROVE  CInv' /\ PagedStep
<1>1. /\ Position' = st.next /\ services'[current'] = st
      /\ services' \in [Services -> Service] /\ pages' \in [Tasks -> Page]
      /\ \A s \in Services : ServiceShape(services[s])'
      /\ PagesAreSound'
  BY PageIsGone
<1>2. Position = pages[t].from /\ pages[t] \in Page
  BY PageOf
<1>3. ListIsSound'
  <2>1. ASSUME st.rebalances = 0 PROVE ~crashed' /\ \A o \in ToSet(shown) : o < st.next
    <3>1. ~crashed' /\ \A o \in ToSet(shown) : o < pages[t].from
      BY <2>1, <1>2 DEF CInv, ListIsSound
    <3>2. ToSet(shown) \subseteq Offset /\ \A o \in Offset : o \in Int /\ ~(o < Unassigned)
      BY ShownAreOffsets, OffsetsAre
    <3>3. CASE pages[t].from = Unassigned
      BY <3>1, <3>2, <3>3
    <3>4. CASE pages[t].from <= st.next
      <4>1. pages[t].from \in Int /\ st.next \in Int
        BY <1>2, OffsetsAre DEF Page, Service
      <4>. QED
        BY <3>1, <3>2, <3>4, <4>1
    <3>. QED
      BY <2>1, <3>1, <3>3, <3>4
  <2>. QED
    BY <1>1, <2>1 DEF CInv, ListIsSound
<1>4. Position' \in (0..LastOffset) \cup {Unassigned}
  BY <1>1 DEF Service
<1>5. Trouble' \/ ~mounted
  BY <1>1 DEF Trouble
<1>6. PagedStep
  BY <1>4, <1>5, PagedDisturbs
<1>7. ContentTypes'
  BY <1>1 DEF CInv, ContentTypes
<1>. QED
  BY <1>1, <1>3, <1>6, <1>7 DEF CInv

\* A page that ends with its rows.
LEMMA PageIsShown ==
  ASSUME IInv, CInv, IInv', NEW t \in Tasks,
         tasks[t].stage \in {"starting", "polling", "scanning"},
         tasks' = [tasks EXCEPT ![t] = NoTask], pages' = [pages EXCEPT ![t] = NoPage],
         NEW st \in Service, ServiceShape(st),
         services' = [services EXCEPT ![current] = st],
         st.rebalances = services[current].rebalances, st.next = services[current].next,
         NEW rows, PageRead(pages[t], st, rows), ~Repeats(rows), shown' = shown \o rows,
         UNCHANGED <<current, filters, crashed, failed, mounted>>
  PROVE  CInv' /\ PagedStep
<1>1. /\ Position' = st.next /\ services'[current'] = st
      /\ services' \in [Services -> Service] /\ pages' \in [Tasks -> Page]
      /\ \A s \in Services : ServiceShape(services[s])'
      /\ PagesAreSound'
  BY PageIsGone
<1>2. /\ Position = pages[t].from /\ pages[t] \in Page /\ pages[t].filter = filters
      /\ pages[t].from = Unassigned <=> st.next = Unassigned
  BY PageOf DEF PageShape
<1>3. rows \in Seq(Offset) /\ shown \in Seq(Offset)
  BY DEF PageRead, CInv, ContentTypes
<1>4. /\ shown' \in Seq(Offset)
      /\ ToSet(shown') = ToSet(shown) \cup ToSet(rows)
  BY <1>3, ElementsTogether
<1>5. ContentTypes'
  BY <1>1, <1>4 DEF CInv, ContentTypes
<1>6. IsInjective(shown')
  <2>1. IsInjective(rows) /\ ToSet(shown) \cap ToSet(rows) = {}
    BY DEF Repeats
  <2>2. IsInjective(shown)
    BY DEF CInv, ListIsSound
  <2>. QED
    BY <1>3, <2>1, <2>2, InjectiveTogether
<1>7. \A o \in ToSet(shown') : Matches(o, filters)
  BY <1>2, <1>4 DEF CInv, ListIsSound, PageRead
<1>8. ASSUME st.rebalances = 0 PROVE ~crashed /\ \A o \in ToSet(shown') : o < st.next
  <2>1. ~crashed /\ \A o \in ToSet(shown) : o < pages[t].from
    BY <1>2, <1>8 DEF CInv, ListIsSound
  <2>2. CASE st.next = Unassigned
    <3>1. ToSet(rows) = {}
      BY <2>2, NothingRead DEF PageRead
    <3>. QED
      BY <1>2, <1>4, <2>1, <2>2, <3>1
  <2>3. CASE st.next # Unassigned
    <3>1. pages[t].from <= st.next /\ ToSet(rows) = Paged!MatchingIn(pages[t].from, st.next, filters)
      BY <1>2, <1>8, <2>3 DEF PageRead
    <3>2. \A o \in ToSet(rows) : o < st.next
      BY <3>1, MatchingIs
    <3>3. pages[t].from \in Int /\ st.next \in Int /\ ToSet(shown) \subseteq Int
      BY <1>2, OffsetsAre, ShownAreOffsets DEF Page, Service
    <3>4. \A o \in ToSet(shown) : o < st.next
      BY <2>1, <3>1, <3>3
    <3>. QED
      BY <1>4, <2>1, <3>2, <3>4
  <2>. QED
    BY <2>2, <2>3
<1>9. ListIsSound'
  BY <1>1, <1>6, <1>7, <1>8 DEF ListIsSound
<1>10. Position \in (0..LastOffset) \cup {Unassigned} /\ Position' \in (0..LastOffset) \cup {Unassigned}
  BY <1>1, <1>2 DEF Page, Service
<1>11. rows \in BoundedSeq(Paged!Offset, LargestPage)
  <2>1. Len(rows) \in 0..LargestPage
    <3>1. Len(rows) \in Nat /\ Len(rows) <= st.page /\ st.page \in PageSizes
      BY <1>3, RowsAre DEF PageRead, Service
    <3>2. st.page \in Nat /\ st.page <= LargestPage /\ LargestPage \in Nat
      BY <3>1, LargestIs
    <3>. QED
      BY <3>1, <3>2
  <2>2. rows \in [1..Len(rows) -> Offset]
    BY <1>3
  <2>. QED
    BY <2>1, <2>2, SameTerms DEF BoundedSeq, SeqOf
<1>12. PagedStep
  <2>1. Trouble' = Trouble
    BY <1>1 DEF Trouble
  <2>2. CASE st.rebalances > 0
    <3>1. Trouble
      BY <2>2 DEF Trouble
    <3>2. \A o \in ToSet(rows) : Paged!Matches(o, filters)
      BY <1>2 DEF PageRead, Matches, Paged!Matches
    <3>4. \E page \in Paged!BoundedSeq(Paged!Offset, LargestPage) :
            (\A o \in Paged!ToSet(page) : Paged!Matches(o, filters)) /\ shown' = shown \o page
      BY <1>11, <3>2, SameOperators
    <3>5. Position' \in (0..LastOffset) \cup {Paged!Unassigned}
      BY <1>10, SameTerms
    <3>3. Paged!ShowDisturbedPage
      BY <1>6, <2>1, <3>1, <3>4, <3>5, SameOperators DEF Paged!ShowDisturbedPage, Trouble
    <3>. QED
      BY <3>3 DEF PagedStep, Paged!Next
  <2>3. CASE st.rebalances = 0 /\ st.next = Unassigned
    <3>1. rows = <<>> /\ Position' = Position
      BY <1>1, <1>2, <2>3 DEF PageRead
    <3>2. shown' = shown
      BY <1>3, <3>1
    <3>. QED
      BY <1>1, <3>1, <3>2, PagedStutters
  <2>4. CASE st.rebalances = 0 /\ st.next # Unassigned
    <3>1. /\ pages[t].from <= st.next /\ Ascending(rows)
          /\ ToSet(rows) = Paged!MatchingIn(pages[t].from, st.next, filters)
      BY <1>2, <2>4 DEF PageRead
    <3>2. Position # Paged!Unassigned /\ Position' \in Position..LastOffset
      BY <1>1, <1>2, <1>10, <2>4, <3>1, OffsetsAre, SameTerms
    <3>4. ToSet(rows) = Paged!MatchingIn(Position, Position', filters)
      BY <1>1, <1>2, <3>1
    <3>5. \E next \in Position..LastOffset, page \in Paged!BoundedSeq(Paged!Offset, LargestPage) :
            /\ Paged!Ascending(page)
            /\ Paged!ToSet(page) = Paged!MatchingIn(Position, next, filters)
            /\ shown' = shown \o page
            /\ Position' = next
      BY <1>11, <3>1, <3>2, <3>4, SameOperators
    <3>3. Paged!ShowPage
      BY <2>1, <3>2, <3>5 DEF Paged!ShowPage, Trouble
    <3>. QED
      BY <3>3 DEF PagedStep, Paged!Next
  <2>5. st.rebalances \in Nat
    BY ConsumerAssumption DEF Service
  <2>. QED
    BY <2>2, <2>3, <2>4, <2>5
<1>. QED
  BY <1>1, <1>5, <1>9, <1>12 DEF CInv

\* A new page takes the place of none, in the same list or a cleared one.
LEMMA PageIsAsked ==
  ASSUME IInv, CInv, IInv', NEW t \in Workers,
         \A w \in Workers : tasks[w].kind # "consume",
         NEW task, task = Asking("consume", current), tasks'[t] = task,
         \A w \in Workers : w # t => tasks'[w] = tasks[w],
         filters' \in Filter,
         pages' = [pages EXCEPT ![t] = NewPage(filters', services[current].next)],
         UNCHANGED <<services, current, mounted>>,
         \/ UNCHANGED <<filters, shown, crashed, failed>>
         \/ mounted /\ shown' = <<>> /\ UNCHANGED crashed /\ failed' = FALSE
  PROVE  CInv' /\ PagedStep
<1>. USE TasksAre
<1>1. /\ services[current] \in Service /\ ServiceShape(services[current])
      /\ current \in Services
  BY PositionHolds
<1>2. /\ tasks'[t].kind = "consume" /\ tasks'[t].cancelled = FALSE
      /\ tasks'[t].stage = Entered("consume", services[current])
  <2>1. /\ task.kind = "consume" /\ task.cancelled = FALSE
        /\ task.stage \in {"waiting", Entered("consume", services[current])}
    BY DEF Asking, NewTask
  <2>2. task.stage # "waiting"
    BY <2>1 DEF IInv, TaskShape
  <2>. QED
    BY <2>1, <2>2
<1>3. /\ pages'[t] \in Page /\ pages'[t].filter = filters'
      /\ pages'[t].from = services[current].next
      /\ PageShape(pages'[t], services[current], Entered("consume", services[current]))
      /\ pages' \in [Tasks -> Page]
  <2>1. pages \in [Tasks -> Page]
    BY DEF CInv, ContentTypes
  <2>. QED
    BY <1>1, <2>1, PageBegins
<1>4. Position = services[current].next /\ Position' = services[current].next
  BY <1>2, <1>3, PositionIs, NextPositionIs DEF PositionIsTrue
<1>5. PagesAreSound'
  <2>1. PageShape(pages[t], services[current], tasks[t].stage)'
    BY <1>2, <1>3
  <2>2. \A w \in Workers : w # t => tasks'[w].kind # "consume" /\ (tasks'[w].cancelled => ~mounted')
    BY DEF CInv, PagesAreSound
  <2>. QED
    BY <1>2, <1>3, <2>1, <2>2, OnePage
<1>6. CASE UNCHANGED <<filters, shown, crashed, failed>>
  <2>1. ContentTypes' /\ ListIsSound'
    BY <1>3, <1>4, <1>6 DEF CInv, ContentTypes, ListIsSound
  <2>2. PagedStep
    BY <1>4, <1>6, PagedStutters
  <2>. QED
    BY <1>5, <2>1, <2>2 DEF CInv
<1>7. CASE mounted /\ shown' = <<>> /\ UNCHANGED crashed /\ failed' = FALSE
  <2>1. ContentTypes'
    BY <1>3, <1>7, NothingRead DEF CInv, ContentTypes
  <2>2. ListIsSound'
    BY <1>7, NothingRead DEF CInv, ListIsSound
  <2>3. Position' \in (0..LastOffset) \cup {Unassigned}
    BY <1>1, <1>4 DEF Service
  <2>4. (failed \/ services[current].rebalances > 0)' \in BOOLEAN
    OBVIOUS
  <2>5. Paged!Restart
    BY <1>7, <2>3, <2>4, SameTerms DEF Paged!Restart
  <2>. QED
    BY <1>5, <2>1, <2>2, <2>5 DEF CInv, PagedStep, Paged!Next
<1>. QED
  BY <1>6, <1>7

\* The list, its page and its position stay; it may be removed.
LEMMA ListStays ==
  ASSUME IInv, CInv, IInv',
         \A w \in Workers : tasks'[w].kind = "consume" <=> tasks[w].kind = "consume",
         \A w \in Workers : tasks[w].kind = "consume" =>
                               tasks'[w].stage = tasks[w].stage /\ pages'[w] = pages[w],
         \A w \in Workers : tasks'[w].cancelled => ~mounted',
         pages' \in [Tasks -> Page],
         UNCHANGED <<services, current, filters, shown, crashed, failed>>,
         \/ UNCHANGED mounted
         \/ mounted /\ mounted' = FALSE
  PROVE  CInv' /\ PagedStep
<1>1. Position' = Position
  <2>1. CASE \E w \in Workers : tasks[w].kind = "consume"
    BY <2>1, PositionIs, NextPositionIs DEF PositionIsTrue
  <2>2. CASE \A w \in Workers : tasks[w].kind # "consume"
    BY <2>2, PositionIs, NextPositionIs DEF PositionIsTrue
  <2>. QED
    BY <2>1, <2>2
<1>2. PagesAreSound'
  BY DEF CInv, PagesAreSound
<1>3. ContentTypes' /\ ListIsSound'
  BY <1>1 DEF CInv, ContentTypes, ListIsSound
<1>4. ASSUME UNCHANGED mounted PROVE PagedStep
  <2>1. services'[current'].rebalances = services[current].rebalances
    OBVIOUS
  <2>2. UNCHANGED <<shown, filters, mounted, failed>>
    BY <1>4
  <2>. QED
    BY <1>1, <2>1, <2>2, PagedStutters
<1>5. ASSUME mounted, mounted' = FALSE PROVE PagedStep
  <2>1. Paged!Close
    BY <1>1, <1>5 DEF Paged!Close
  <2>. QED
    BY <2>1 DEF PagedStep, Paged!Next
<1>. QED
  BY <1>2, <1>3, <1>4, <1>5 DEF CInv
----------------------------------------------------------------------------
(* What the actions do to a page, one lemma for each operator they share.  *)

\* While nobody has rebalanced, a page never reads what the list has.
LEMMA NothingRepeats ==
  ASSUME IInv, CInv, NEW t \in Tasks,
         tasks[t].stage \in {"starting", "polling", "scanning"},
         NEW st \in Service, NEW rows, PageRead(pages[t], st, rows),
         st.rebalances = 0, services[current].rebalances = 0
  PROVE  ~Repeats(rows)
<1>1. Position = pages[t].from
  BY PageOf
<1>2. CASE st.next = Unassigned
  BY <1>2, NothingRead DEF PageRead, Repeats
<1>3. CASE st.next # Unassigned
  <2>1. Ascending(rows) /\ ToSet(rows) = Paged!MatchingIn(pages[t].from, st.next, pages[t].filter)
    BY <1>3 DEF PageRead
  <2>2. IsInjective(rows)
    BY <2>1, RowsAre, AscendingIsInjective DEF PageRead
  <2>3. \A o \in ToSet(rows) : o \in Offset /\ pages[t].from <= o
    BY <2>1, MatchingIs
  <2>4. \A o \in ToSet(shown) : o \in Offset /\ o < pages[t].from
    BY <1>1, ShownAreOffsets DEF CInv, ListIsSound
  <2>5. pages[t].from \in Int /\ Offset \subseteq Int
    BY PageOf, OffsetsAre DEF Page
  <2>6. \A o \in Offset : ~(pages[t].from <= o /\ o < pages[t].from)
    BY <2>5
  <2>7. ToSet(rows) \cap ToSet(shown) = {}
    BY <2>3, <2>4, <2>6
  <2>. QED
    BY <2>2, <2>7 DEF Repeats
<1>. QED
  BY <1>2, <1>3

LEMMA ListPageEnds ==
  ASSUME IInv, CInv, IInv', NEW t \in Tasks,
         tasks[t].stage \in {"starting", "polling", "scanning"},
         NEW rows, EndPage(t, rows),
         NEW st \in Service, ServiceShape(st), PageRead(pages[t], st, rows),
         services' = [services EXCEPT ![current] = st],
         st.rebalances = services[current].rebalances, st.next = services[current].next,
         UNCHANGED <<current, filters, mounted>>
  PROVE  CInv' /\ PagedStep
<1>1. /\ tasks' = [tasks EXCEPT ![t] = NoTask] /\ pages' = [pages EXCEPT ![t] = NoPage]
      /\ failed' = failed
  BY DEF EndPage, Release
<1>2. /\ tasks[t].cancelled => ~mounted
      /\ pages[t].from = Unassigned <=> st.next = Unassigned
  BY PageOf DEF PageShape
<1>3. crashed \in BOOLEAN /\ failed \in BOOLEAN
  BY DEF CInv, ContentTypes
<1>4. CASE tasks[t].cancelled \/ Repeats(rows)
  <2>1. shown' = shown /\ crashed' = (crashed \/ ~tasks[t].cancelled)
    BY <1>4 DEF EndPage
  <2>2. st.rebalances = 0 => tasks[t].cancelled
    BY <1>4, NothingRepeats
  <2>3. st.rebalances = 0 => pages[t].from = Unassigned \/ pages[t].from <= st.next
    BY <1>2 DEF PageRead
  <2>4. st.rebalances \in Nat
    BY ConsumerAssumption DEF Service
  <2>5. st.rebalances > 0 \/ ~mounted
    BY <1>2, <2>2, <2>4
  <2>6. crashed' \in BOOLEAN /\ failed' \in BOOLEAN /\ (st.rebalances = 0 => crashed' = crashed)
    BY <1>1, <1>3, <2>1, <2>2
  <2>. QED
    BY <1>1, <2>1, <2>3, <2>5, <2>6, PageIsLost
<1>5. CASE ~(tasks[t].cancelled \/ Repeats(rows))
  <2>1. shown' = shown \o rows /\ crashed' = crashed
    BY <1>5 DEF EndPage
  <2>. QED
    BY <1>1, <1>5, <2>1, PageIsShown
<1>. QED
  BY <1>4, <1>5

LEMMA ListPageFails ==
  ASSUME IInv, CInv, IInv', NEW t \in Tasks,
         tasks[t].stage \in {"starting", "polling", "scanning"}, FailPage(t),
         NEW st \in Service, ServiceShape(st),
         services' = [services EXCEPT ![current] = st],
         st.rebalances = services[current].rebalances,
         st.rebalances = 0 => pages[t].from = Unassigned \/ pages[t].from <= st.next,
         UNCHANGED <<current, filters, mounted>>
  PROVE  CInv' /\ PagedStep
<1>1. /\ tasks' = [tasks EXCEPT ![t] = NoTask] /\ pages' = [pages EXCEPT ![t] = NoPage]
      /\ failed' = (failed \/ ~tasks[t].cancelled)
      /\ UNCHANGED <<shown, crashed>>
  BY DEF FailPage, Release
<1>2. tasks[t].cancelled => ~mounted
  BY PageOf
<1>3. crashed' \in BOOLEAN /\ failed' \in BOOLEAN /\ (failed' \/ ~mounted)
  BY <1>1, <1>2 DEF CInv, ContentTypes
<1>. QED
  BY <1>1, <1>3, PageIsLost

LEMMA ListPageContinues ==
  ASSUME IInv, CInv, IInv', NEW t \in Tasks,
         tasks[t].stage \in {"starting", "polling", "scanning"},
         NEW stage \in {"polling", "scanning"}, NEW q \in Page, Continue(t, stage, q),
         NEW st \in Service, ServiceShape(st), PageShape(q, st, stage),
         services' = [services EXCEPT ![current] = st],
         st.rebalances = services[current].rebalances,
         q.filter = filters, q.from = pages[t].from \/ pages[t].from = Unassigned,
         UNCHANGED <<current, filters, mounted>>
  PROVE  CInv' /\ PagedStep
<1>1. /\ t \in Workers /\ tasks[t].kind = "consume"
      /\ tasks[t].cancelled => ~mounted
  BY PageOf
<1>2. CASE tasks[t].cancelled
  <2>1. /\ tasks' = [tasks EXCEPT ![t] = NoTask] /\ pages' = [pages EXCEPT ![t] = NoPage]
        /\ UNCHANGED <<shown, failed>> /\ crashed' = (crashed \/ FALSE)
    BY <1>2 DEF Continue, EndPage, Release
  <2>2. crashed \in BOOLEAN /\ failed \in BOOLEAN
    BY DEF CInv, ContentTypes
  <2>3. ASSUME st.rebalances = 0, pages[t].from # Unassigned PROVE pages[t].from <= st.next
    <3>1. q.from = pages[t].from /\ st.next # Unassigned
      BY <2>3 DEF PageShape
    <3>2. q.from <= st.next - Len(q.batch)
      BY <2>3, <3>1 DEF PageShape, RowsAreAll
    <3>3. Len(q.batch) \in Nat /\ q.from \in Int /\ st.next \in Int
      BY RowsAre, OffsetsAre DEF Page, Service
    <3>. QED
      BY <3>1, <3>2, <3>3
  <2>4. crashed' = crashed
    BY <2>1, <2>2
  <2>. QED
    BY <1>1, <1>2, <2>1, <2>2, <2>3, <2>4, PageIsLost
<1>3. CASE ~tasks[t].cancelled
  <2>1. /\ tasks' = [tasks EXCEPT ![t].stage = stage] /\ pages' = [pages EXCEPT ![t] = q]
        /\ UNCHANGED <<shown, crashed, failed>>
    BY <1>3 DEF Continue
  <2>2. tasks \in [Tasks -> Task]
    BY DEF IInv, SessionTypes
  <2>3. /\ tasks'[t].kind = "consume" /\ tasks'[t].cancelled = tasks[t].cancelled
        /\ tasks'[t].stage = stage
        /\ \A u \in Workers : u # t => tasks'[u] = tasks[u]
    BY <1>1, <2>1, <2>2, TasksAre DEF Task
  <2>. QED
    BY <2>1, <2>3, PageMoves
<1>. QED
  BY <1>2, <1>3
----------------------------------------------------------------------------
(* One lemma for each action or kind of action.                            *)

LEMMA ListStart ==
  ASSUME IInv, CInv, IInv', NEW t \in Tasks, StartReturns(t)
  PROVE  CInv' /\ PagedStep
<1>. DEFINE s == services[current]
            st == StartedService(s)
            q == [pages[t] EXCEPT !.from = st.next]
<1>1. /\ tasks[t].stage = "starting" /\ tasks[t].service = current
      /\ s \in Service /\ ServiceShape(s) /\ pages[t] \in Page
      /\ pages[t].filter = filters /\ PageShape(pages[t], s, "starting")
  BY PageOf DEF StartReturns
<1>2. ~s.started
  BY <1>1 DEF PageShape
<1>3. /\ services' = [services EXCEPT ![current] = st]
      /\ Continue(t, "polling", q)
      /\ UNCHANGED <<current, filters, mounted>>
  BY <1>1 DEF StartReturns, Serving
<1>4. st \in Service /\ ServiceShape(st) /\ st.rebalances = s.rebalances
  BY <1>1, <1>2, ServiceStarts
<1>5. /\ q \in Page /\ q.filter = filters /\ pages[t].from = Unassigned
      /\ PageShape(q, st, "polling")
  BY <1>1, PageStarts
<1>. HIDE DEF s, st, q
<1>. QED
  BY <1>1, <1>3, <1>4, <1>5, ListPageContinues DEF s

\* A request that fails before a poll, and a batch that is given up.
LEMMA ListFails ==
  ASSUME IInv, CInv, IInv', NEW t \in Tasks, StartFails(t) \/ BatchFails(t)
  PROVE  CInv' /\ PagedStep
<1>. DEFINE s == services[current]
<1>1. /\ tasks[t].stage \in {"starting", "scanning"} /\ FailPage(t)
      /\ UNCHANGED <<services, current, filters, mounted>>
  BY DEF StartFails, BatchFails, serviceVars
<1>2. /\ s \in Service /\ ServiceShape(s) /\ pages[t] \in Page
      /\ PageShape(pages[t], s, tasks[t].stage)
      /\ current \in Services
  BY <1>1, PageOf
<1>3. services' = [services EXCEPT ![current] = s]
  BY <1>1, <1>2 DEF CInv, ContentTypes
<1>4. ASSUME s.rebalances = 0, pages[t].from # Unassigned PROVE pages[t].from <= s.next
  <2>1. pages[t].from <= s.next - Len(pages[t].batch)
    BY <1>2, <1>4 DEF PageShape, RowsAreAll
  <2>2. Len(pages[t].batch) \in Nat /\ pages[t].from \in Int /\ s.next \in Int
    BY <1>2, RowsAre, OffsetsAre DEF Page, Service
  <2>. QED
    BY <2>1, <2>2
<1>. HIDE DEF s
<1>. QED
  BY <1>1, <1>2, <1>3, <1>4, ListPageFails DEF s

\* What the client does of itself.
LEMMA ListEvent ==
  ASSUME IInv, CInv, IInv', NEW t \in Tasks, ClientEvent(t)
  PROVE  CInv' /\ PagedStep
<1>. DEFINE s == services[current]
<1>1. /\ tasks[t].stage = "polling"
      /\ UNCHANGED <<tasks, current, filters, shown, crashed, failed, mounted>>
  BY DEF ClientEvent, Assign, Rebalance, AuthorizationError, taskVars, listVars
<1>2. /\ t \in Workers /\ tasks[t].kind = "consume" /\ tasks[t].service = current
      /\ s \in Service /\ ServiceShape(s) /\ pages[t] \in Page /\ current \in Services
      /\ pages[t].filter = filters /\ PageShape(pages[t], s, "polling")
  BY <1>1, PageOf
<1>3. CASE Assign(t)
  <2>1. PICK offset \in 0..LastOffset :
          /\ services' = [services EXCEPT ![current] = AssignedService(s, offset)]
          /\ pages' = [pages EXCEPT ![t].from = IF @ = Unassigned THEN offset ELSE @]
    BY <1>2, <1>3 DEF Assign
  <2>. DEFINE st == AssignedService(s, offset)
              q  == [pages[t] EXCEPT !.from = IF pages[t].from = Unassigned THEN offset
                                              ELSE pages[t].from]
  <2>2. ~s.assigned /\ s.started
    BY <1>2, <1>3 DEF Assign, Serving, PageShape
  <2>3. /\ st \in Service /\ ServiceShape(st) /\ st.page = s.page /\ st.next = offset
        /\ st.rebalances = s.rebalances /\ st.started /\ st.stable
    BY <1>2, <2>2, ServiceAssigned
  <2>4. /\ q \in Page /\ q.filter = filters /\ PageShape(q, st, "polling")
        /\ q.from = pages[t].from \/ pages[t].from = Unassigned
    BY <1>2, <2>2, <2>3, PageIsAssigned
  <2>5. pages' = [pages EXCEPT ![t] = q] /\ services' = [services EXCEPT ![current] = st]
    BY <2>1
  <2>. HIDE DEF q, st
  <2>. QED
    BY <1>1, <1>2, <2>3, <2>4, <2>5, PageMoves
<1>4. CASE Rebalance(t)
  <2>. DEFINE st == RevokedService(s)
  <2>1. /\ services' = [services EXCEPT ![current] = st] /\ pages' = pages
        /\ s.assigned /\ s.rebalances < MaxRebalances
    BY <1>2, <1>4 DEF Rebalance, Serving, taskVars
  <2>2. s.rebalances + 1 \in 0..MaxRebalances /\ s.rebalances + 1 > 0
    BY <1>2, <2>1, ConsumerAssumption DEF Service
  <2>3. st = [s EXCEPT !.assigned = FALSE, !.rebalances = s.rebalances + 1]
    BY DEF RevokedService
  <2>. DEFINE count == s.rebalances + 1
  <2>. HIDE DEF count
  <2>4. /\ st \in Service /\ st.started = s.started /\ st.stable = s.stable
        /\ st.assigned = FALSE /\ st.next = s.next /\ st.page = s.page
        /\ st.rebalances = s.rebalances + 1
    BY <1>2, <2>2, <2>3, Zenon DEF Service
  <2>. HIDE DEF st
  <2>5. st.rebalances > 0 /\ st.rebalances # 0
    BY <2>2, <2>4
  <2>6. ServiceShape(st)
    BY <1>2, <2>4, <2>5 DEF ServiceShape
  <2>7. PageShape(pages[t], st, "polling")
    BY <1>2, <2>4, <2>5, NothingRead DEF PageShape, BatchIsNext
  <2>8. pages' = [pages EXCEPT ![t] = pages[t]]
    BY <1>2, <2>1, TasksAre DEF CInv, ContentTypes
  <2>. HIDE DEF s
  <2>. QED
    BY <1>1, <1>2, <2>1, <2>4, <2>5, <2>6, <2>7, <2>8, PageMoves
<1>5. CASE AuthorizationError(t)
  <2>. DEFINE st == [s EXCEPT !.error = TRUE]
  <2>1. services' = [services EXCEPT ![current] = st] /\ pages' = pages
    BY <1>2, <1>5 DEF AuthorizationError, taskVars
  <2>2. /\ st \in Service /\ st.started = s.started /\ st.stable = s.stable
        /\ st.assigned = s.assigned /\ st.next = s.next /\ st.page = s.page
        /\ st.rebalances = s.rebalances
    BY <1>2 DEF Service
  <2>. HIDE DEF st
  <2>3. ServiceShape(st)
    BY <1>2, <2>2 DEF ServiceShape
  <2>4. PageShape(pages[t], st, "polling")
    BY <1>2, <2>2 DEF PageShape, BatchIsNext, RowsAreAll
  <2>5. pages' = [pages EXCEPT ![t] = pages[t]]
    BY <1>2, <2>1, TasksAre DEF CInv, ContentTypes
  <2>. QED
    BY <1>1, <1>2, <2>1, <2>2, <2>3, <2>4, <2>5, PageMoves
<1>. QED
  BY <1>3, <1>4, <1>5 DEF ClientEvent

\* A page goes on waiting or polling: only its counts change.
LEMMA CountsChange ==
  ASSUME IInv, CInv, IInv', NEW t \in Tasks, tasks[t].stage = "polling",
         NEW st \in Service, ServiceShape(st), st.started,
         services' = [services EXCEPT ![current] = st],
         st.rebalances = services[current].rebalances, st.next = services[current].next,
         st.page = services[current].page,
         NEW q \in Page, q.filter = pages[t].filter, q.from = pages[t].from,
         q.rows = pages[t].rows, q.batch = pages[t].batch,
         EndPage(t, pages[t].rows) \/ Continue(t, "polling", q),
         UNCHANGED <<current, filters, mounted>>
  PROVE  CInv' /\ PagedStep
<1>. DEFINE s == services[current]
            p == pages[t]
<1>1. /\ s \in Service /\ p \in Page /\ p.filter = filters /\ PageShape(p, s, "polling")
      /\ p.from = Unassigned <=> s.next = Unassigned
  BY PageOf DEF PageShape
<1>2. PageRead(p, s, p.rows) /\ p.batch = <<>>
  BY <1>1, ReadSoFar
<1>3. PageRead(p, st, p.rows)
  BY <1>2 DEF PageRead
<1>4. CASE EndPage(t, pages[t].rows)
  BY <1>3, <1>4, ListPageEnds
<1>5. CASE Continue(t, "polling", q)
  <2>1. PageShape(q, st, "polling")
    BY <1>1, <1>2, <1>3, PageGoesOn
  <2>. QED
    BY <1>1, <1>5, <2>1, ListPageContinues
<1>. QED
  BY <1>4, <1>5

LEMMA ListPoll ==
  ASSUME IInv, CInv, IInv', NEW t \in Tasks, NEW n \in 0..LastOffset, PollReturns(t, n)
  PROVE  CInv' /\ PagedStep
<1>. DEFINE s == services[current]
            p == pages[t]
            st == PolledService(s, n)
<1>1. tasks[t].stage = "polling"
  BY DEF PollReturns
<1>2. /\ tasks[t].service = current
      /\ s \in Service /\ ServiceShape(s) /\ p \in Page /\ p.filter = filters
      /\ PageShape(p, s, "polling")
  BY <1>1, PageOf
<1>3. /\ services' = [services EXCEPT ![current] = st]
      /\ n > 0 => s.assigned /\ n <= s.page - Len(p.rows) /\ s.next + n <= LastOffset
      /\ UNCHANGED <<current, filters, mounted>>
  BY <1>2 DEF PollReturns, Serving, Wanted
<1>4. /\ st \in Service /\ ServiceShape(st) /\ st.page = s.page
      /\ st.rebalances = s.rebalances /\ st.started = s.started
      /\ n = 0 => st.next = s.next
      /\ n > 0 => s.next \in 0..LastOffset /\ st.next = s.next + n
  BY <1>2, <1>3, ServicePolls
<1>. HIDE DEF st
<1>5. s.started /\ p.batch = <<>> /\ PageRead(p, s, p.rows)
  BY <1>2, ReadSoFar DEF PageShape
<1>6. CASE FailPage(t)
  <2>1. ASSUME s.rebalances = 0, p.from # Unassigned PROVE p.from <= st.next
    <3>1. p.from <= s.next /\ s.next # Unassigned
      BY <1>2, <1>5, <2>1 DEF PageRead, PageShape
    <3>2. p.from \in Int /\ s.next \in Int /\ (n = 0 \/ n > 0)
      BY <1>2, OffsetsAre DEF Page, Service
    <3>. QED
      BY <3>1, <3>2, <1>4
  <2>. QED
    BY <1>1, <1>3, <1>4, <1>6, <2>1, ListPageFails
<1>7. CASE /\ ~s.stable
           /\ LET waited == p.waits + 1
              IN IF GivesUp(waited, p.polls) THEN EndPage(t, p.rows)
                 ELSE Continue(t, "polling", [p EXCEPT !.waits = waited])
  <2>1. n = 0
    BY <1>2, <1>3, <1>7 DEF ServiceShape
  <2>. DEFINE waited == p.waits + 1
              q == [p EXCEPT !.waits = IF waited <= MaxWaits THEN waited ELSE 0]
  <2>2. /\ q \in Page /\ q.filter = p.filter /\ q.from = p.from /\ q.rows = p.rows
        /\ q.batch = p.batch
    <3>1. (IF waited <= MaxWaits THEN waited ELSE 0) \in 0..MaxWaits
      BY <1>2, ConsumerAssumption DEF Page
    <3>. DEFINE count == IF waited <= MaxWaits THEN waited ELSE 0
    <3>. HIDE DEF count
    <3>2. q = [p EXCEPT !.waits = count]
      BY DEF count
    <3>. QED
      BY <1>2, <3>1, <3>2 DEF Page, count
  <2>3. ~GivesUp(waited, p.polls) => q = [p EXCEPT !.waits = waited]
    <3>1. ~GivesUp(waited, p.polls) => waited <= MaxWaits
      BY <1>2, ConsumerAssumption DEF GivesUp, Page
    <3>. QED
      BY <3>1
  <2>. HIDE DEF q
  <2>4. EndPage(t, p.rows) \/ Continue(t, "polling", q)
    BY <1>7, <2>3
  <2>. QED
    BY <1>1, <1>3, <1>4, <1>5, <2>1, <2>2, <2>4, CountsChange
<1>8. CASE /\ n = 0
           /\ LET polled == p.polls + 1
              IN IF GivesUp(0, polled) THEN EndPage(t, p.rows)
                 ELSE Continue(t, "polling", [p EXCEPT !.waits = 0, !.polls = polled])
  <2>. DEFINE polled == p.polls + 1
              count == IF polled <= MaxPolls THEN polled ELSE 0
              q == [p EXCEPT !.waits = 0, !.polls = count]
  <2>1. count \in 0..MaxPolls /\ 0 \in 0..MaxWaits
    BY <1>2, ConsumerAssumption DEF Page
  <2>2. ~GivesUp(0, polled) => count = polled
    BY <1>2, ConsumerAssumption DEF GivesUp, Page
  <2>. HIDE DEF count
  <2>3. /\ q \in Page /\ q.filter = p.filter /\ q.from = p.from /\ q.rows = p.rows
        /\ q.batch = p.batch
    BY <1>2, <2>1, Zenon DEF Page
  <2>4. EndPage(t, p.rows) \/ Continue(t, "polling", q)
    BY <1>8, <2>2
  <2>. HIDE DEF q
  <2>. QED
    BY <1>1, <1>3, <1>4, <1>5, <1>8, <2>3, <2>4, CountsChange
<1>9. CASE /\ n # 0
           /\ Continue(t, "scanning", [p EXCEPT !.waits = 0, !.polls = 0,
                                     !.batch = [i \in 1..n |-> s.next + i - 1]])
  <2>. DEFINE batch == [i \in 1..n |-> s.next + i - 1]
              q == [p EXCEPT !.waits = 0, !.polls = 0, !.batch = batch]
  <2>1. n \in 1..LastOffset /\ n > 0 /\ s.next \in 0..LastOffset
    BY <1>4, <1>9
  <2>2. batch \in Seq(Offset)
    <3>1. LastOffset \in Nat /\ s.next + n <= LastOffset
      BY <1>3, <2>1, OffsetsAre
    <3>2. \A i \in 1..n : s.next + i - 1 \in Offset
      BY <2>1, <3>1 DEF Offset
    <3>3. n \in Nat
      BY <2>1
    <3>. QED
      BY <3>2, <3>3
  <2>3. 0 \in 0..MaxPolls /\ 0 \in 0..MaxWaits
    BY ConsumerAssumption
  <2>. HIDE DEF batch
  <2>4. /\ q \in Page /\ q.filter = p.filter /\ q.from = p.from /\ q.rows = p.rows
        /\ q.batch = batch
    BY <1>2, <2>2, <2>3, Zenon DEF Page
  <2>. HIDE DEF q
  <2>5. Polled(s, st, p, q, n)
    BY <1>3, <1>4, <2>1, <2>4 DEF Polled, batch
  <2>6. PageShape(q, st, "scanning")
    BY <1>2, <1>4, <2>1, <2>4, <2>5, PageIsPolled
  <2>7. Continue(t, "scanning", q)
    BY <1>9 DEF q, batch
  <2>. QED
    BY <1>1, <1>2, <1>3, <1>4, <2>4, <2>6, <2>7, ListPageContinues
<1>10. \/ FailPage(t)
       \/ /\ ~s.stable
          /\ LET waited == p.waits + 1
             IN IF GivesUp(waited, p.polls) THEN EndPage(t, p.rows)
                ELSE Continue(t, "polling", [p EXCEPT !.waits = waited])
       \/ /\ n = 0
          /\ LET polled == p.polls + 1
             IN IF GivesUp(0, polled) THEN EndPage(t, p.rows)
                ELSE Continue(t, "polling", [p EXCEPT !.waits = 0, !.polls = polled])
       \/ /\ n # 0
          /\ Continue(t, "scanning", [p EXCEPT !.waits = 0, !.polls = 0,
                                    !.batch = [i \in 1..n |-> s.next + i - 1]])
  BY <1>2, Zenon DEF PollReturns, Serving
<1>. QED
  BY <1>6, <1>7, <1>8, <1>9, <1>10

LEMMA ListScan ==
  ASSUME IInv, CInv, IInv', NEW t \in Tasks, BatchScanned(t)
  PROVE  CInv' /\ PagedStep
<1>. DEFINE s == services[current]
            p == pages[t]
            rows == RowsScanned(p, s)
            q == [p EXCEPT !.rows = rows, !.batch = <<>>]
<1>1. /\ tasks[t].stage = "scanning"
      /\ UNCHANGED <<services, current, filters, mounted>>
  BY DEF BatchScanned, serviceVars
<1>2. /\ tasks[t].service = current /\ current \in Services
      /\ s \in Service /\ ServiceShape(s) /\ p \in Page /\ p.filter = filters
      /\ PageShape(p, s, "scanning")
      /\ services' = [services EXCEPT ![current] = s]
  BY <1>1, PageOf DEF CInv, ContentTypes
<1>3. PageRead(p, s, rows)
  BY <1>2, BatchIsScanned
<1>4. EndPage(t, rows) \/ Continue(t, "polling", q)
  BY <1>2 DEF BatchScanned, Scanned, Wanted, Serving, RowsScanned
<1>. HIDE DEF rows
<1>5. CASE EndPage(t, rows)
  BY <1>1, <1>2, <1>3, <1>5, ListPageEnds
<1>6. CASE Continue(t, "polling", q)
  <2>1. rows \in Seq(Offset) /\ <<>> \in Seq(Offset)
    BY <1>3 DEF PageRead
  <2>2. /\ q \in Page /\ q.filter = p.filter /\ q.from = p.from /\ q.rows = rows
        /\ q.batch = <<>>
    BY <1>2, <2>1, Zenon DEF Page
  <2>. HIDE DEF q
  <2>3. s.started /\ (p.from = Unassigned <=> s.next = Unassigned)
    BY <1>2 DEF PageShape
  <2>4. PageShape(q, s, "polling")
    BY <1>2, <1>3, <2>2, <2>3, PageGoesOn
  <2>. QED
    BY <1>1, <1>2, <1>6, <2>2, <2>4, ListPageContinues
<1>. QED
  BY <1>4, <1>5, <1>6

\* The steps of on_unmount() and of the screens, and the cancelling of a worker.
LEMMA ListQuiet ==
  ASSUME IInv, CInv, IInv',
         \/ \E t \in Tasks : TakeLock(t)
         \/ \E t \in Workers : CancelWorker(t)
         \/ Unmount \/ CloseScreen \/ \E kind : OpenScreen(kind)
  PROVE  CInv' /\ PagedStep
<1>. USE TasksAre
<1>1. tasks \in [Tasks -> Task] /\ pages \in [Tasks -> Page]
  BY DEF IInv, SessionTypes, CInv, ContentTypes
<1>2. \A w \in Workers : tasks[w].cancelled => ~mounted
  BY DEF CInv, PagesAreSound
<1>3. ASSUME NEW t \in Tasks, TakeLock(t) PROVE CInv' /\ PagedStep
  <2>1. t = "unmount"
    BY <1>3 DEF TakeLock, IInv, TaskShape
  <2>2. /\ \A w \in Workers : tasks'[w] = tasks[w] /\ pages'[w] = pages[w]
        /\ UNCHANGED <<services, current, filters, shown, crashed, failed, mounted>>
    BY <1>1, <1>3, <2>1 DEF TakeLock, serviceVars, listVars
  <2>3. pages' \in [Tasks -> Page]
    <3>1. pages' = [pages EXCEPT ![t].from = services[tasks[t].service].next]
      BY <1>3 DEF TakeLock, Serving
    <3>2. services[tasks[t].service].next \in (0..LastOffset) \cup {Unassigned}
      BY <1>1 DEF CInv, ContentTypes, Service, Task
    <3>. QED
      BY <1>1, <3>1, <3>2 DEF Page
  <2>. QED
    BY <1>2, <2>2, <2>3, ListStays
<1>4. ASSUME NEW t \in Workers, CancelWorker(t) PROVE CInv' /\ PagedStep
  <2>1. /\ ~mounted
        /\ tasks' = [tasks EXCEPT ![t].cancelled = TRUE] /\ pages' = pages
        /\ UNCHANGED <<services, current, filters, shown, crashed, failed, mounted>>
    BY <1>4 DEF CancelWorker, IInv, TaskShape, serviceVars
  <2>2. \A w \in Workers : tasks'[w].kind = tasks[w].kind /\ tasks'[w].stage = tasks[w].stage
    BY <1>1, <2>1 DEF Task
  <2>. QED
    BY <1>1, <2>1, <2>2, ListStays
<1>5. ASSUME Unmount PROVE CInv' /\ PagedStep
  <2>1. /\ mounted /\ mounted' = FALSE
        /\ pages' = [pages EXCEPT !["unmount"] = NewPage(filters, services[current].next)]
        /\ UNCHANGED <<services, current, filters, shown, crashed, failed>>
    BY <1>5 DEF Unmount, AskForLock, serviceVars, listVars
  <2>2. \A w \in Workers : tasks'[w] = tasks[w] /\ pages'[w] = pages[w]
    BY <1>1, <1>5, <2>1 DEF Unmount, AskForLock
  <2>3. pages' \in [Tasks -> Page]
    <3>1. filters \in Filter /\ services[current] \in Service /\ ServiceShape(services[current])
      BY PositionHolds DEF CInv, ContentTypes
    <3>2. NewPage(filters, services[current].next) \in Page
      BY <3>1, PageBegins
    <3>. QED
      BY <1>1, <2>1, <3>2
  <2>. QED
    BY <1>2, <2>1, <2>2, <2>3, ListStays
<1>6. ASSUME NEW kind, CloseScreen \/ OpenScreen(kind) PROVE CInv' /\ PagedStep
  <2>1. UNCHANGED <<tasks, pages, services, current, filters, shown, crashed, failed, mounted>>
    BY <1>6 DEF CloseScreen, OpenScreen, serviceVars, taskVars, listVars
  <2>. QED
    BY <1>1, <1>2, <2>1, ListStays
<1>. QED
  BY <1>3, <1>4, <1>5, <1>6

\* Nothing is read while a screen is open.
LEMMA NoPages ==
  ASSUME IInv, mounted, ~consuming
  PROVE  \A w \in Workers : tasks[w].kind = "none" /\ ~Busy(w)
BY NobodyWorks, TasksAre DEF Busy

LEMMA ListChunk ==
  ASSUME IInv, CInv, IInv', NEW size \in PageSizes, SelectChunk(size)
  PROVE  CInv' /\ PagedStep
<1>. DEFINE s == services[current]
            st == [s EXCEPT !.page = size]
<1>1. /\ services' = [services EXCEPT ![current] = st]
      /\ UNCHANGED <<tasks, pages, current, filters, shown, crashed, failed, mounted>>
      /\ mounted /\ ~consuming
  BY DEF SelectChunk, taskVars, listVars, IInv, FlagIsTrue
<1>2. s \in Service /\ ServiceShape(s) /\ current \in Services
  BY PositionHolds
<1>3. /\ st \in Service /\ st.next = s.next /\ st.rebalances = s.rebalances
      /\ st.stable = s.stable /\ st.started = s.started /\ st.assigned = s.assigned
  BY <1>2 DEF Service
<1>. HIDE DEF st
<1>4. ServiceShape(st)
  BY <1>2, <1>3 DEF ServiceShape
<1>5. /\ services'[current] = st /\ services' \in [Services -> Service]
      /\ \A r \in Services : services'[r] \in {services[r], st}
  BY <1>1, <1>2, <1>3 DEF CInv, ContentTypes
<1>6. \A w \in Workers : tasks[w].kind # "consume" /\ tasks'[w].kind # "consume"
  BY <1>1, NoPages
<1>7. Position = s.next /\ Position' = st.next
  BY <1>1, <1>5, <1>6, PositionIs, NextPositionIs DEF PositionIsTrue
<1>8. ContentTypes'
  BY <1>1, <1>5 DEF CInv, ContentTypes
<1>9. \A r \in Services : ServiceShape(services[r])'
  BY <1>4, <1>5 DEF CInv, ServiceShape
<1>10. PagesAreSound'
  BY <1>1, <1>6 DEF CInv, PagesAreSound
<1>11. ListIsSound'
  BY <1>1, <1>3, <1>5, <1>7 DEF CInv, ListIsSound
<1>12. PagedStep
  BY <1>1, <1>3, <1>5, <1>7, PagedStutters
<1>. QED
  BY <1>8, <1>9, <1>10, <1>11, <1>12 DEF CInv

LEMMA ListConsume ==
  ASSUME IInv, CInv, IInv', NEW t \in Workers, ConsumeMore(t)
  PROVE  CInv' /\ PagedStep
<1>1. /\ mounted /\ ~consuming
      /\ AskForLock(t, "consume", current, filters)
      /\ UNCHANGED <<services, current, filters, shown, crashed, failed, mounted>>
  BY DEF ConsumeMore, CanAct, serviceVars
<1>2. /\ tasks' = [tasks EXCEPT ![t] = Asking("consume", current)]
      /\ pages' = [pages EXCEPT ![t] = NewPage(filters', services[current].next)]
  BY <1>1 DEF AskForLock
<1>3. tasks \in [Tasks -> Task] /\ filters \in Filter
  BY DEF IInv, SessionTypes, CInv, ContentTypes
<1>4. /\ tasks'[t] = Asking("consume", current)
      /\ \A w \in Workers : w # t => tasks'[w] = tasks[w]
  BY <1>2, <1>3, TasksAre
<1>5. \A w \in Workers : tasks[w].kind # "consume"
  BY <1>1, NoPages
<1>. QED
  BY <1>1, <1>2, <1>3, <1>4, <1>5, PageIsAsked

LEMMA NewServiceIsService ==
  ASSUME NEW manual \in BOOLEAN
  PROVE  /\ NewService(manual) \in Service /\ ServiceShape(NewService(manual))
         /\ NewService(manual).next = Unassigned /\ NewService(manual).rebalances = 0
         /\ ~NewService(manual).started
<1>. DEFINE s == NewService(manual)
<1>1. s = [started |-> FALSE, stable |-> FALSE, manual |-> manual, assigned |-> FALSE,
           rebalances |-> 0, error |-> FALSE, next |-> Unassigned, page |-> DefaultPage]
  BY DEF NewService
<1>2. /\ 0 \in 0..MaxRebalances /\ DefaultPage \in PageSizes
      /\ Unassigned \in (0..LastOffset) \cup {Unassigned}
  BY ConsumerAssumption
<1>3. s \in Service
  BY <1>1, <1>2 DEF Service
<1>4. ServiceShape(s)
  BY <1>1 DEF ServiceShape
<1>. QED
  BY <1>1, <1>3, <1>4

\* A filter clears the list, with a new service or, if none can be built, the
\* old one.
LEMMA ListFilter ==
  ASSUME IInv, CInv, IInv', NEW t \in Workers, NEW filter \in Filter,
         mounted, ~crashed, ~consuming, UNCHANGED mounted,
         Replace(t, filter) \/ ReplaceFails(t, filter)
  PROVE  CInv' /\ PagedStep
<1>. USE TasksAre
<1>1. /\ tasks \in [Tasks -> Task] /\ pages \in [Tasks -> Page]
      /\ services \in [Services -> Service] /\ current \in Services
      /\ services[current] \in Service /\ ServiceShape(services[current])
  BY PositionHolds DEF IInv, SessionTypes, CInv, ContentTypes
<1>2. \A w \in Workers : tasks[w].kind = "none"
  BY NoPages
<1>3. CASE ReplaceFails(t, filter)
  <2>1. /\ tasks' = [tasks EXCEPT ![t] = Asking("consume", current)]
        /\ pages' = [pages EXCEPT ![t] = NewPage(filters', services[current].next)]
        /\ filters' = filter /\ shown' = <<>> /\ failed' = FALSE
        /\ UNCHANGED <<services, current, crashed>>
    BY <1>3 DEF ReplaceFails, AskForLock, serviceVars
  <2>2. /\ tasks'[t] = Asking("consume", current)
        /\ \A w \in Workers : w # t => tasks'[w] = tasks[w]
    BY <1>1, <2>1
  <2>3. \A w \in Workers : tasks[w].kind # "consume"
    BY <1>2
  <2>. QED
    BY <2>1, <2>2, <2>3, PageIsAsked
<1>4. CASE Replace(t, filter)
  <2>1. PICK s \in Services :
          /\ services' = [services EXCEPT ![s] = NewService(services[1].manual)]
          /\ current' = s
    BY <1>4 DEF Replace
  <2>2. /\ tasks' = [tasks EXCEPT ![t] = Asking("replace", current)]
        /\ pages' = [pages EXCEPT ![t] = NewPage(filter, services[current].next)]
        /\ filters' = filter /\ shown' = <<>> /\ failed' = FALSE /\ UNCHANGED crashed
    BY <1>4 DEF Replace, AskForLock
  <2>. DEFINE st == NewService(services[1].manual)
  <2>3. /\ st \in Service /\ ServiceShape(st) /\ st.next = Unassigned /\ st.rebalances = 0
    <3>1. services[1].manual \in BOOLEAN
      BY <1>1, ConsumerAssumption DEF Service
    <3>. QED
      BY <3>1, NewServiceIsService
  <2>14. /\ services' = [services EXCEPT ![current'] = st]
         /\ current' \in Services
    BY <2>1
  <2>. HIDE DEF st
  <2>4. /\ services' \in [Services -> Service] /\ services'[current'] = st
        /\ \A r \in Services : services'[r] \in {services[r], st}
    BY <1>1, <2>3, <2>14
  <2>5. \A w \in Workers : tasks'[w].kind # "consume" /\ ~tasks'[w].cancelled
    <3>1. Asking("replace", current).kind = "replace" /\ ~Asking("replace", current).cancelled
      BY DEF Asking, NewTask
    <3>2. \A w \in Workers : w # t => tasks'[w] = tasks[w]
      BY <1>1, <2>2
    <3>3. tasks'[t] = Asking("replace", current)
      BY <1>1, <2>2
    <3>4. \A w \in Workers : ~tasks[w].cancelled
      BY DEF CInv, PagesAreSound
    <3>. QED
      BY <1>2, <3>1, <3>2, <3>3, <3>4
  <2>6. Position' = Unassigned
    BY <2>3, <2>4, <2>5, NextPositionIs DEF PositionIsTrue
  <2>7. ContentTypes'
    <3>1. pages' \in [Tasks -> Page]
      BY <1>1, <2>2, PageBegins
    <3>. QED
      BY <2>2, <2>4, <3>1, NothingRead DEF CInv, ContentTypes
  <2>8. \A r \in Services : ServiceShape(services[r])'
    BY <2>3, <2>4 DEF CInv, ServiceShape
  <2>9. PagesAreSound'
    BY <2>5 DEF PagesAreSound
  <2>10. ListIsSound'
    BY <2>2, NothingRead DEF ListIsSound
  <2>11. (failed \/ services[current].rebalances > 0)' \in BOOLEAN
    OBVIOUS
  <2>12. Position' \in (0..LastOffset) \cup {Unassigned}
    BY <2>6
  <2>13. Paged!Restart
    BY <2>2, <2>11, <2>12, SameTerms DEF Paged!Restart
  <2>. QED
    BY <2>7, <2>8, <2>9, <2>10, <2>13 DEF CInv, PagedStep, Paged!Next
<1>. QED
  BY <1>3, <1>4

\* A closed client is not the list's, unless the list is gone.
LEMMA ListClose ==
  ASSUME IInv, CInv, IInv', NEW t \in Tasks, CloseReturns(t)
  PROVE  CInv' /\ PagedStep
<1>. USE TasksAre
<1>1. /\ tasks \in [Tasks -> Task] /\ pages \in [Tasks -> Page]
      /\ filters \in Filter /\ tasks[t].kind # "consume" /\ Busy(t)
      /\ UNCHANGED <<services, current, filters, shown, crashed, failed, mounted>>
  BY DEF CloseReturns, IInv, SessionTypes, TaskShape, Busy, CInv, ContentTypes
<1>2. CASE /\ tasks[t].kind = "replace"
           /\ tasks' = [tasks EXCEPT ![t] = Asking("consume", current)]
           /\ pages' = [pages EXCEPT ![t] = NewPage(filters, services[current].next)]
  <2>1. t \in Workers /\ \A w \in Workers : tasks[w].kind # "consume"
    BY <1>1, <1>2 DEF IInv, TaskShape, FlagIsTrue, Busy
  <2>2. /\ tasks'[t] = Asking("consume", current)
        /\ \A w \in Workers : w # t => tasks'[w] = tasks[w]
    BY <1>1, <1>2
  <2>. QED
    BY <1>1, <1>2, <2>1, <2>2, PageIsAsked
<1>3. CASE /\ tasks' = [tasks EXCEPT ![t] = NoTask]
           /\ pages' = [pages EXCEPT ![t] = NoPage]
  <2>1. /\ tasks'[t] = NoTask /\ NoTask.kind = "none" /\ ~NoTask.cancelled
        /\ \A w \in Workers : w # t => tasks'[w] = tasks[w] /\ pages'[w] = pages[w]
    BY <1>1, <1>3 DEF NoTask, NewTask
  <2>2. pages' \in [Tasks -> Page]
    <3>1. NoPage \in Page
      BY NoPageIsPage
    <3>. QED
      BY <1>1, <1>3, <3>1
  <2>3. \A w \in Workers : tasks'[w].kind = "consume" <=> tasks[w].kind = "consume"
    BY <1>1, <2>1
  <2>4. \A w \in Workers : tasks'[w].cancelled => ~mounted'
    BY <1>1, <2>1 DEF CInv, PagesAreSound
  <2>5. \A w \in Workers : tasks[w].kind = "consume" =>
                             tasks'[w].stage = tasks[w].stage /\ pages'[w] = pages[w]
    BY <1>1, <2>1
  <2>. QED
    BY <1>1, <2>2, <2>3, <2>4, <2>5, ListStays
<1>. QED
  BY <1>2, <1>3 DEF CloseReturns
----------------------------------------------------------------------------
(* The invariant, the refinement and what follows from them.               *)

\* The first service has been started, and its first page begins.
LEMMA ListInit ==
  ASSUME Init
  PROVE  CInv /\ Paged!Init
<1>. USE TasksAre
<1>1. PICK manual \in Manual :
        services = [s \in Services |-> IF s = 1 THEN StartedService(NewService(manual))
                                                ELSE NewService(manual)]
  BY DEF Init
<1>2. PICK w \in Workers :
        /\ tasks = [t \in Tasks |-> IF t = w THEN NewTask("consume", "polling", 1) ELSE NoTask]
        /\ pages = [t \in Tasks |-> IF t = w THEN NewPage("none", services[1].next) ELSE NoPage]
  BY DEF Init
<1>3. /\ current = 1 /\ filters = "none" /\ shown = <<>> /\ mounted = TRUE
      /\ crashed = FALSE /\ failed = FALSE /\ 1 \in Services
  BY ConsumerAssumption DEF Init
<1>. DEFINE new == NewService(manual)
            st == StartedService(new)
<1>4. /\ new \in Service /\ ServiceShape(new)
      /\ st \in Service /\ ServiceShape(st) /\ st.started /\ st.rebalances = 0
  <2>1. manual \in BOOLEAN
    BY ConsumerAssumption
  <2>. QED
    BY <2>1, NewServiceIsService, ServiceStarts
<1>5. st.next \in Offset \cup {Unassigned}
  <2>1. new.next = Unassigned /\ new \in Service
    BY <1>4, ConsumerAssumption, NewServiceIsService
  <2>2. CASE new.manual
    <3>1. st.next = 0
      BY <2>1, <2>2, Zenon DEF StartedService, Service
    <3>. QED
      BY <3>1, OffsetsAre
  <2>3. CASE ~new.manual
    <3>1. st.next = new.next
      BY <2>1, <2>3 DEF StartedService, Service
    <3>. QED
      BY <2>1, <3>1
  <2>. QED
    BY <2>2, <2>3
<1>6. services[1] = st /\ \A s \in Services : services[s] \in {new, st}
  BY <1>1, <1>3
<1>. HIDE DEF new, st
<1>7. services \in [Services -> Service] /\ \A s \in Services : ServiceShape(services[s])
  <2>1. DOMAIN services = Services /\ services = [s \in Services |-> services[s]]
    BY <1>1
  <2>. QED
    BY <1>4, <1>6, <2>1
<1>8. /\ tasks[w].kind = "consume" /\ tasks[w].stage = "polling" /\ ~tasks[w].cancelled
      /\ \A v \in Workers : v # w => tasks[v].kind = "none" /\ ~tasks[v].cancelled
      /\ pages[w] = NewPage("none", st.next)
  BY <1>2, <1>6 DEF NewTask, NoTask
<1>9. /\ pages[w] \in Page /\ pages[w].filter = "none" /\ pages[w].from = st.next
      /\ PageShape(pages[w], st, "polling")
  <2>1. "none" \in Filter /\ Entered("consume", st) = "polling"
    BY <1>4 DEF Filter, Entered
  <2>. QED
    BY <1>4, <1>8, <2>1, PageBegins
<1>10. pages \in [Tasks -> Page]
  BY <1>2, <1>6, <1>8, <1>9, NoPageIsPage
<1>11. Position = st.next
  <2>1. IInv
    BY InitHolds
  <2>. QED
    BY <1>8, <1>9, <2>1, PositionIs DEF PositionIsTrue
<1>12. ContentTypes
  BY <1>3, <1>7, <1>10, NothingRead DEF ContentTypes, Filter
<1>13. PagesAreSound
  BY <1>3, <1>6, <1>8, <1>9 DEF PagesAreSound
<1>14. ListIsSound
  BY <1>3, NothingRead DEF ListIsSound
<1>15. Paged!Init
  BY <1>3, <1>4, <1>5, <1>6, <1>11, SameTerms DEF Paged!Init
<1>. QED
  BY <1>7, <1>12, <1>13, <1>14, <1>15 DEF CInv

LEMMA ListStep ==
  IInv /\ CInv /\ IInv' /\ [Next]_vars => CInv' /\ PagedStep
<1>. SUFFICES ASSUME IInv, CInv, IInv', [Next]_vars PROVE CInv' /\ PagedStep
  OBVIOUS
<1>1. ASSUME NEW t \in Tasks, TaskStep(t) PROVE CInv' /\ PagedStep
  <2>1. CASE TakeLock(t)
    BY <2>1, ListQuiet
  <2>. QED
    BY <1>1, <2>1, ListStart, ListFails, ListPoll, ListScan, ListClose DEF TaskStep
<1>2. ASSUME NEW t \in Tasks, ClientEvent(t) PROVE CInv' /\ PagedStep
  BY <1>2, ListEvent
<1>3. ASSUME \/ \E t \in Workers : CancelWorker(t)
             \/ Unmount \/ CloseScreen \/ \E kind : OpenScreen(kind)
      PROVE  CInv' /\ PagedStep
  BY <1>3, ListQuiet
<1>4. ASSUME NEW t \in Workers, ConsumeMore(t) PROVE CInv' /\ PagedStep
  BY <1>4, ListConsume
<1>5. ASSUME NEW t \in Workers, NEW filter \in Filter, ApplyFilter(t, filter)
      PROVE  CInv' /\ PagedStep
  <2>1. mounted /\ ~crashed /\ ~consuming /\ UNCHANGED mounted
    BY <1>5 DEF ApplyFilter, IInv, FlagIsTrue
  <2>. QED
    BY <1>5, <2>1, ListFilter DEF ApplyFilter
<1>6. ASSUME NEW t \in Workers, ShowAll(t) PROVE CInv' /\ PagedStep
  <2>1. mounted /\ ~crashed /\ ~consuming /\ UNCHANGED mounted /\ "none" \in Filter
    BY <1>6 DEF ShowAll, CanAct, Filter
  <2>. QED
    BY <1>6, <2>1, ListFilter DEF ShowAll
<1>7. ASSUME NEW size \in PageSizes, SelectChunk(size) PROVE CInv' /\ PagedStep
  BY <1>7, ListChunk
<1>8. ASSUME UNCHANGED vars PROVE CInv' /\ PagedStep
  <2>1. UNCHANGED <<tasks, pages, services, current, filters, shown, crashed, failed, mounted>>
    BY <1>8 DEF vars, serviceVars, taskVars, listVars
  <2>. QED
    BY <2>1, ListStays DEF CInv, ContentTypes, PagesAreSound
<1>. QED
  BY <1>1, <1>2, <1>3, <1>4, <1>5, <1>6, <1>7, <1>8 DEF Next, UserStep

LEMMA ListInvariant == Spec => []CInv
<1>1. Init => CInv
  BY ListInit
<1>2. IInv /\ CInv /\ IInv' /\ [Next]_vars => CInv'
  BY ListStep
<1>. QED
  BY <1>1, <1>2, Invariant, PTL DEF Spec

\* ListRecords shows, however its pages end, exactly the matching records
\* between where a page started and where its service has got to; what it may
\* miss, and when, PagedRecords says.
THEOREM PagingIsRefined == Spec => RefinesPagedRecords
<1>1. Init => Paged!Init
  BY ListInit
<1>2. IInv /\ CInv /\ IInv' /\ [Next]_vars => [Paged!Next]_(Paged!vars)
  BY ListStep DEF PagedStep
<1>. QED
  BY <1>1, <1>2, Invariant, ListInvariant, PTL DEF Spec, Paged!Spec, RefinesPagedRecords

\* action_filter() and the worker's finally clause leave one page at a time,
\* and none of the rows on screen is from before the filter.
THEOREM PagesAreOneAtATime == Spec => []OnePageAtATime
<1>1. IInv /\ CInv => OnePageAtATime
  <2>. SUFFICES ASSUME IInv, CInv PROVE OnePageAtATime
    OBVIOUS
  <2>1. \A i \in DOMAIN shown : Matches(shown[i], filters)
    BY DEF CInv, ListIsSound, ToSet
  <2>. QED
    BY <2>1, OneBusy DEF OnePageAtATime
<1>. QED
  BY <1>1, Invariant, ListInvariant, PTL

\* add_row() raises DuplicateKey, and with it the application ends, only after
\* the group has taken the list's partitions away.
THEOREM RebalancesRepeat == Spec => []OnlyRebalancesRepeat
<1>1. IInv /\ CInv => OnlyRebalancesRepeat
  <2>. SUFFICES ASSUME IInv, CInv, crashed PROVE services[current].rebalances > 0
    BY DEF OnlyRebalancesRepeat
  <2>1. services[current].rebalances # 0
    BY DEF CInv, ListIsSound
  <2>2. services[current].rebalances \in Nat
    BY PositionHolds, ConsumerAssumption DEF Service
  <2>. QED
    BY <2>1, <2>2
<1>. QED
  BY <1>1, Invariant, ListInvariant, PTL
=============================================================================

------------------------- MODULE CoalescedRefresh -------------------------
(***************************************************************************)
(* What the topic list promises whoever asks for a refresh, with all the   *)
(* machinery taken away: refreshes run one at a time, a request made while *)
(* one runs (or while none may start) is owed, any number of requests may  *)
(* be answered by one refresh, and a request is only ever forgotten when a *)
(* refresh that started after it answers it.                               *)
(***************************************************************************)
VARIABLES
  running,   \* is a refresh in flight?
  owed       \* has somebody asked for a refresh that has not started yet?

vars == <<running, owed>>

Init == running \in BOOLEAN /\ owed = FALSE

\* A request that cannot be served at once is remembered.
Ask == /\ owed' = TRUE
       /\ UNCHANGED running

\* A refresh starts.  It may answer what is owed or, when it was somebody
\* else's (a periodic one, or one of two that were queued), leave it owed.
Start == /\ ~running
         /\ running' = TRUE
         /\ owed' \in {owed, FALSE}

Finish == /\ running
          /\ running' = FALSE
          /\ UNCHANGED owed

Next == Ask \/ Start \/ Finish

Safe == Init /\ [][Next]_vars
============================================================================

------------------------- MODULE ReportedDelivery -------------------------
(***************************************************************************)
(* What producer mode promises: records are delivered one at a time, and   *)
(* a record is reported as delivered only once the cluster has written     *)
(* that very record.  A failure promises nothing: the record may have been *)
(* written, or may still be.                                               *)
(***************************************************************************)
EXTENDS Naturals

CONSTANT Records   \* a set of numbers: the attempts to produce, in order

VARIABLES
  current,    \* the attempt under way, 0 if there is none
  written,    \* the records the cluster has written
  reported    \* what was said of each attempt

vars == <<current, written, reported>>

Init ==
  /\ current = 0
  /\ written = {}
  /\ reported = [r \in Records |-> "nothing"]

\* An attempt begins; attempts are numbered.
Begin ==
  /\ current = 0
  /\ current' \in Records
  /\ reported[current'] = "nothing"
  /\ UNCHANGED <<written, reported>>

Write ==
  /\ \E r \in Records : r \notin written /\ written' = written \cup {r}
  /\ UNCHANGED <<current, reported>>

Report ==
  /\ current # 0
  /\ \E report \in {"delivered", "failed"} :
       /\ report = "delivered" => current \in written
       /\ reported' = [reported EXCEPT ![current] = report]
  /\ current' = 0
  /\ UNCHANGED written

\* The composer goes before the attempt has ended.
Abandon ==
  /\ current # 0
  /\ current' = 0
  /\ UNCHANGED <<written, reported>>

Next == Begin \/ Write \/ Report \/ Abandon

Spec == Init /\ [][Next]_vars
============================================================================

--------------------------- MODULE PagedRecords ---------------------------
(***************************************************************************)
(* What consumer mode promises its reader: the list shows the matching     *)
(* records of the log from some starting offset on, in order, a page at a  *)
(* time, without skipping one and without showing one twice; a new filter  *)
(* clears the list and starts again.  Once an error was shown, or the group *)
(* took the partitions back, records may be skipped; but still none is      *)
(* shown twice, and no page shows what the filter keeps out.                *)
(***************************************************************************)
EXTENDS Selection

CONSTANTS
  LastOffset,   \* the log holds the offsets 0 .. LastOffset - 1
  Matching,     \* the offsets the filter "some" lets through
  LargestPage   \* the largest page size on offer, whichever is chosen

Offset == 0..LastOffset - 1
Filter == {"none", "some"}
Unassigned == -1

VARIABLES
  shown,      \* the offsets in the list, top to bottom
  filter,     \* the active filter
  position,   \* the offset the next page starts at
  trouble,    \* has an error been shown, or were the partitions taken back?
  open        \* is the list still there?

vars == <<shown, filter, position, trouble, open>>

Matches(offset, f) == f = "none" \/ offset \in Matching

\* The matching offsets of a range.
MatchingIn(first, next, f) == {o \in Offset : first <= o /\ o < next /\ Matches(o, f)}

Init ==
  /\ shown = <<>>
  /\ filter = "none"
  /\ position \in Offset \cup {Unassigned}
  /\ trouble = FALSE
  /\ open = TRUE

\* Kafka says where to start.
Assign ==
  /\ position = Unassigned
  /\ position' \in 0..LastOffset
  /\ UNCHANGED <<shown, filter, trouble, open>>

ShowPage ==
  /\ position # Unassigned
  /\ \E next \in position..LastOffset, page \in BoundedSeq(Offset, LargestPage) :
       /\ Ascending(page)
       /\ ToSet(page) = MatchingIn(position, next, filter)
       /\ shown' = shown \o page
       /\ position' = next
  /\ UNCHANGED <<filter, trouble, open>>

\* A page is lost and the error shown, or the partitions are taken back.
Disturb ==
  /\ trouble'
  /\ position' \in (0..LastOffset) \cup {Unassigned}
  /\ UNCHANGED <<shown, filter, open>>

ShowDisturbedPage ==
  /\ trouble
  /\ \E page \in BoundedSeq(Offset, LargestPage) :
       /\ \A o \in ToSet(page) : Matches(o, filter)
       /\ shown' = shown \o page
  /\ IsInjective(shown')
  /\ position' \in (0..LastOffset) \cup {Unassigned}
  /\ UNCHANGED <<filter, trouble, open>>

\* The list is cleared; where it starts again is Kafka's choice.
Restart ==
  /\ open
  /\ shown' = <<>>
  /\ filter' \in Filter
  /\ position' \in (0..LastOffset) \cup {Unassigned}
  /\ trouble' \in BOOLEAN
  /\ UNCHANGED open

Close ==
  /\ open
  /\ open' = FALSE
  /\ UNCHANGED <<shown, filter, position, trouble>>

\* What a closed list had read and not shown is nobody's.
Abandon ==
  /\ ~open
  /\ position' \in (0..LastOffset) \cup {Unassigned}
  /\ trouble' \in BOOLEAN
  /\ UNCHANGED <<shown, filter, open>>

Next ==
  \/ Assign \/ ShowPage \/ Restart \/ Close \/ Abandon
  \/ Disturb \/ ShowDisturbedPage

Spec == Init /\ [][Next]_vars
============================================================================

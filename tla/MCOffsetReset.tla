--------------------------- MODULE MCOffsetReset ---------------------------
(***************************************************************************)
(* The forms of admin mode, for TLC. They are modal, and a reset of        *)
(* offsets and an edit of a topic share no state of Kafka: of OffsetReset  *)
(* and TopicEdit one moves while the other is as it began.                 *)
(***************************************************************************)
EXTENDS OffsetReset, TopicEdit, TLC

\* Planning workers and partitions are interchangeable.
ResetSymmetry == Permutations(Planners) \cup Permutations(Partitions)

ResetRests == Init /\ \A p \in Partitions : log[p].end = 0
EditRests == topic = NoTopic /\ listed = 0 /\ form = NoForm /\ update = NoUpdate /\ changes = 0

FormsInit == Init /\ EditInit
FormsNext ==
  \/ EditRests /\ Next /\ UNCHANGED editVars
  \/ ResetRests /\ EditNext /\ UNCHANGED vars

\* What Kafka has done is told, of each partition that is reset and of the two
\* calls that change a topic.
ChangesAreTold == OutcomeIsTold /\ UpdateIsTold

FormsSpec == FormsInit /\ [][FormsNext]_<<vars, editVars>>
============================================================================

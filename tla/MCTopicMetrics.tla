--------------------------- MODULE MCTopicMetrics ---------------------------
(* Instances of TopicMetrics for TLC. *)
EXTENDS TopicMetrics, TLC

\* Groups and topics are interchangeable.
MetricsSymmetry == Permutations(Groups) \cup Permutations(Topics)
=============================================================================

------------------------- MODULE MCRecordDelivery -------------------------
(* Instances of RecordDelivery for TLC. *)
EXTENDS RecordDelivery

\* A draft that needs no schema for its key, one that needs both, and one
\* that cannot be produced.
SomeDrafts ==
  {[key |-> "null", value |-> "fits", headers |-> "named"],
   [key |-> "fits", value |-> "fits", headers |-> "named"],
   [key |-> "null", value |-> "null", headers |-> "unnamed"]}
============================================================================

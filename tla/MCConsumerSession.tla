------------------------- MODULE MCConsumerSession -------------------------
(* Instances of ConsumerSession for TLC. *)
EXTENDS ConsumerSession, TLC

\* Worker tasks are interchangeable.
WorkerSymmetry == Permutations(Workers)
============================================================================

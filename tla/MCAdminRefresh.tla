-------------------------- MODULE MCAdminRefresh --------------------------
(* Instances of AdminRefresh for TLC. *)
EXTENDS AdminRefresh, TLC

\* Mutation workers are interchangeable.
MutationSymmetry == Permutations(Mutations)
============================================================================

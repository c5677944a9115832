------------------------ MODULE RefreshCoordinator ------------------------
(***************************************************************************)
(* The value object kaskade/refresh.py keeps for the topic list: one       *)
(* operator per method, from the coordinator before the call to the one    *)
(* after it.  A method that also answers something has a second operator   *)
(* for the answer (Accepts, CanTakePending).                               *)
(*                                                                         *)
(* The code's generation is an unbounded counter of which only equality    *)
(* with a running worker's generation is ever used.  Here it cycles        *)
(* through 1 .. Generations, which keeps the model finite; no two running  *)
(* workers share a label because AdminRefresh!SingleRefresh holds.         *)
(***************************************************************************)
EXTENDS Naturals

CONSTANT Generations    \* how many generation labels before they are reused

ASSUME GenerationsAssumption == Generations \in Nat /\ Generations >= 2

Generation == 1..Generations

RefreshReason == {"INITIAL", "MANUAL", "PERIODIC", "RESUME", "MUTATION", "PENDING"}

Coordinator ==
  [generation : 0..Generations, active : BOOLEAN,
   pending : BOOLEAN, mutation_active : BOOLEAN]

NewCoordinator ==
  [generation |-> 0, active |-> FALSE, pending |-> FALSE, mutation_active |-> FALSE]

\* The label after g: generation += 1, cycling.
NextGeneration(g) == IF g = Generations THEN 1 ELSE g + 1

\* A defect, of Accepts: a running refresh is not looked at.
AcceptsWhileActive(c) == ~c.mutation_active

\* request() hands out a generation exactly when nothing is under way.
Accepts(c) == ~c.active /\ ~c.mutation_active

\* Faulty: a refused request is forgotten.
request_forgetful(c, reason) ==
  IF Accepts(c)
  THEN [c EXCEPT !.generation = NextGeneration(@), !.active = TRUE]
  ELSE c

request(c, reason) ==
  IF Accepts(c)
  THEN [c EXCEPT !.generation = NextGeneration(@), !.active = TRUE]
  ELSE [c EXCEPT !.pending = @ \/ reason # "PERIODIC"]

is_current(c, g) == c.active /\ g = c.generation

complete(c, g) == IF is_current(c, g) THEN [c EXCEPT !.active = FALSE] ELSE c

CanTakePending(c) == c.pending /\ ~c.active /\ ~c.mutation_active

take_pending(c) == IF CanTakePending(c) THEN [c EXCEPT !.pending = FALSE] ELSE c

begin_mutation(c) == [c EXCEPT !.mutation_active = TRUE]

end_mutation(c) == [c EXCEPT !.mutation_active = FALSE]

discard_pending(c) == [c EXCEPT !.pending = FALSE]
============================================================================

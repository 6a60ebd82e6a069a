------------------------- MODULE MCAccountScheduler -------------------------
(***************************************************************************)
(* Model checking instances of AccountScheduler: the cfg files give every  *)
(* kind of call a small set of model values.                               *)
(***************************************************************************)
EXTENDS AccountScheduler, TLC
MutationSymmetry == Permutations(Mutations \ Burns)
=============================================================================

---------------------------- MODULE MCRecipeFire ----------------------------
(* Values of RecipeFire for TLC. *)
EXTENDS RecipeFire, TLC

CONSTANTS b1, b2, w, r1, r2, tick, hook, other

\* A tick and a delivery of one recipe, and a delivery of another.
MCRecipeOf == tick :> r1 @@ hook :> r1 @@ other :> r2
MCAttemptOf == tick :> 1 @@ hook :> 2 @@ other :> 3

\* The bridges are interchangeable.
Bridges == Permutations(Bridge)
=============================================================================

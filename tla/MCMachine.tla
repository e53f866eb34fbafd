----------------------------- MODULE MCMachine -----------------------------
(* A recipe with one solid and one fluid ingredient for TLC.               *)
EXTENDS Machine, TLC

CONSTANTS plate, water

MCNeed == (plate :> 1) @@ (water :> 2)
=============================================================================

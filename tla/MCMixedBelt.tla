---------------------------- MODULE MCMixedBelt ----------------------------
(* An instance of MixedBelt: grenades from coal and iron plates, with stone  *)
(* on the belt that belongs to another machine.                            *)
EXTENDS MixedBelt

CONSTANTS coal, plate, stone, left, middle, right

Goods == {coal, plate, stone}
Recipe == {coal, plate}
Grenade == (coal :> 2) @@ (plate :> 1)

\* Every inserter over a belt with everything on it.
Sushi == [i \in Hands |-> Goods]
=============================================================================

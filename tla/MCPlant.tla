------------------------------ MODULE MCPlant ------------------------------
(* An instance for TLC: grenades from coal and iron plates, had they a     *)
(* fluid ingredient, with stone on the belt that belongs to another        *)
(* machine.                                                                *)
EXTENDS Plant

CONSTANTS coal, plate, stone, left, middle, right

Goods == {coal, plate, stone}
Recipe == {coal, plate}
Grenade == (coal :> 2) @@ (plate :> 1)

\* Every inserter over a belt with everything on it.
Sushi == [i \in Hands |-> Goods]

\* By consumer: the first takes the most in a craft.
Appetites == <<3, 2, 1>>
=============================================================================

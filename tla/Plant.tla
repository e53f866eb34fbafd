------------------------------- MODULE Plant -------------------------------
(***************************************************************************)
(* Inserters, a machine and a fluid network together (Factory::tick,       *)
(* crates/meter/src/factory.rs): one of the consumers of the fluid is the  *)
(* machine that the inserters feed from mixed belts, and each of its       *)
(* crafts takes solids and fluid at once.  So a shortage of one ingredient *)
(* backs up into the fluid and, through it, stops the producers.           *)
(*                                                                         *)
(* A tick moves the inserters one after the other, then the machines, then *)
(* the fluid.  Here inserters act at any time between two steps of         *)
(* machines and fluid, which allows every order the code has.              *)
(***************************************************************************)
EXTENDS MixedBelt, FluidPool

CONSTANT Fed    \* the consumer that the inserters feed

ASSUME PlantAssumption == Fed \in Consumers

plantVars == <<vars, fluidVars>>

PlantInit == Init /\ FluidInit

\* What an inserter does leaves the fluid alone.
FluidRests == tally' = Quiet /\ UNCHANGED <<attached, boundary, held, tank>>

\* The turns of an inserter that reaches its pickup or its drop.
Take(i) == FluidRests /\ \E load \in BoundedSeq(Items, HandSize) : Grab(i, load)
Drop(i) == FluidRests /\ Deposit(i)

\* has_ingredients asks for solids and fluid; a craft takes both.
MachineTurn(emitting, crafting) ==
  /\ IF Fed \in crafting THEN Craft ELSE UNCHANGED vars
  /\ FluidTick(emitting, crafting)

PlantNext ==
  \/ \E i \in Hands : Take(i) \/ Drop(i)
  \/ \E emitting \in SUBSET Producers, crafting \in SUBSET Consumers : MachineTurn(emitting, crafting)

PlantSpec == PlantInit /\ [][PlantNext]_plantVars

\* The factory offers every inserter, the machines and the fluid a turn in
\* each tick, belts carry again and again what they carry, and a machine that
\* has its ingredients begins its craft. Producers may lack theirs.
FairPlantSpec ==
  /\ PlantSpec
  /\ \A i \in Hands : WF_plantVars(Take(i)) /\ WF_plantVars(Drop(i))
  /\ WF_plantVars(MachineTurn({}, {}))
  /\ WF_plantVars(MachineTurn({}, {Fed}))
-----------------------------------------------------------------------------
\* The machine begins a craft.
Crafts == tally'.burnt > 0 /\ \E x \in Ingredients : buffer'[x] < buffer[x]

(* The inserters never leave the machine for ever with too little of what  *)
(* the belts carry: with fluid from the boundary it crafts again and       *)
(* again, whatever the other consumers draw.                               *)
CraftsGoOn == boundary /\ Fed \in attached => []<><<Crafts>>_plantVars
=============================================================================

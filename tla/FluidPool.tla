----------------------------- MODULE FluidPool -----------------------------
(***************************************************************************)
(* One fluid in one pipe network of the meter (Factory::tick_fluids,       *)
(* crates/meter/src/factory.rs): what the producers hold is pooled in      *)
(* every tick and shared among the consumers in proportion to the room in  *)
(* their buffers.                                                          *)
(*                                                                         *)
(* Machines are numbered in the order of the network's ports.  When they   *)
(* start and finish crafts is for the module that extends this one         *)
(* (Plant).  A producer that has a consumer stops at its output cap.       *)
(***************************************************************************)
EXTENDS Integers, Sequences, FiniteSetsExt

CONSTANTS
  Producers, Consumers,    \* numbers of the machines
  Appetite,                \* units of the fluid that a craft of the consumer takes
  TankCrafts,              \* crafts that a fluid buffer holds
  Emission,                \* units a craft of a producer emits
  OutputCap

ASSUME PoolAssumption ==
  /\ Producers \subseteq Nat /\ Consumers \subseteq Nat
  /\ IsFiniteSet(Producers) /\ IsFiniteSet(Consumers)
  /\ Appetite \in [Consumers -> Nat \ {0}]
  /\ {TankCrafts, Emission, OutputCap} \subseteq Nat \ {0}

VARIABLES
  attached,   \* consumers on this network
  boundary,   \* the fluid is also a boundary input of this network
  held,       \* fluid_output of the producers
  tank,       \* fluid_input of the consumers
  tally       \* units emitted, burnt in crafts and drained by the last step

fluidVars == <<attached, boundary, held, tank, tally>>

Quiet == [emitted |-> 0, burnt |-> 0, drained |-> 0]

TankCap(c) == Appetite[c] * TankCrafts
Total(f, S) == MapThenSumSet(LAMBDA x : f[x], S)

FluidInit ==
  /\ attached \in SUBSET Consumers
  /\ boundary \in BOOLEAN
  /\ held = [p \in Producers |-> 0]
  /\ tank = [c \in Consumers |-> 0]
  /\ tally = Quiet
-----------------------------------------------------------------------------
(* The shares of a pool, given the rooms of the consumers.                 *)

\* Mutant: the first consumers take all they have room for.
AllocationGreedy(room, pool) ==
  LET before(c) == Total(room, {d \in DOMAIN room : d < c})
  IN  [c \in DOMAIN room |-> Min({room[c], Max({0, pool - before(c)})})]

\* All the room when the pool is enough; else proportional shares, rounded
\* down, and one unit more for the largest remainders, the first on a tie.
Allocation(room, pool) ==
  LET all == Total(room, DOMAIN room)
      shares == [c \in DOMAIN room |-> (room[c] * pool) \div all]
      rest == [c \in DOMAIN room |-> (room[c] * pool) % all]
      spare == pool - Total(shares, DOMAIN room)
      ahead(c) == {d \in DOMAIN room : rest[d] > rest[c] \/ (rest[d] = rest[c] /\ d < c)}
  IN  IF pool >= all THEN room
      ELSE [c \in DOMAIN room |-> shares[c] + (IF Cardinality(ahead(c)) < spare THEN 1 ELSE 0)]

\* Mutant: what is drained stays in the producers.
WithdrawnUnlessDrained(on, used) ==
  LET taken(p) == Min({on[p], Max({0, used - Total(on, {q \in Producers : q < p})})})
  IN  [p \in Producers |-> IF attached = {} THEN on[p] ELSE on[p] - taken(p)]

\* Producers give in their order until the used units are covered.
Withdrawn(on, used) ==
  LET taken(p) == Min({on[p], Max({0, used - Total(on, {q \in Producers : q < p})})})
  IN  [p \in Producers |-> on[p] - taken(p)]

(* tick_fluids on what the producers and the buffers hold.  (A choice from *)
(* a set of one element has TLC compute the element once.)                 *)
Route(on, filled) ==
  \E room \in {[c \in {d \in attached : filled[d] < TankCap(d)} |-> TankCap(c) - filled[c]]} :
    \E shares \in {Allocation(room, Total(on, Producers))} :
      LET used == Total(IF attached = {} THEN on ELSE shares,
                        IF attached = {} THEN Producers ELSE DOMAIN room)
          credit == IF boundary THEN room ELSE shares
      IN  /\ held' = Withdrawn(on, used)
          /\ tank' = [c \in Consumers |-> filled[c] + (IF c \in DOMAIN room THEN credit[c] ELSE 0)]

\* A producer whose fluid has a consumer is held back by a full output.
Free(p) == attached = {} \/ held[p] < OutputCap

(* The machines of a tick, some of which end or begin a craft, and then    *)
(* the fluid.                                                              *)
FluidTick(emitting, crafting) ==
  LET spent == [c \in Consumers |-> IF c \in crafting THEN Appetite[c] ELSE 0]
      made == [p \in Producers |-> IF p \in emitting THEN Emission ELSE 0]
  IN  /\ \A p \in emitting : Free(p)
      /\ \A c \in crafting : tank[c] >= Appetite[c]
      /\ \E on \in {[p \in Producers |-> held[p] + made[p]]} :
           \E filled \in {[c \in Consumers |-> tank[c] - spent[c]]} :
             /\ tally' = [emitted |-> Total(made, Producers), burnt |-> Total(spent, Consumers),
                          drained |-> IF attached = {} THEN Total(on, Producers) ELSE 0]
             /\ Route(on, filled)
      /\ UNCHANGED <<attached, boundary>>
-----------------------------------------------------------------------------
(* Nothing is lost or made in the pipes: the shares that the consumers are *)
(* credited with and the units that the producers are debited with are     *)
(* computed apart, and agree; what is drained is not counted again in the  *)
(* next tick.  A boundary input only ever adds to it.                      *)
FluidConserved ==
  [][LET before == Total(held, Producers) + Total(tank, Consumers) + tally'.emitted
         after == Total(held', Producers) + Total(tank', Consumers) + tally'.burnt + tally'.drained
     IN  IF boundary THEN before <= after ELSE before = after]_fluidVars

\* What c received from the pool in a step that took nothing from its buffer.
Gain(c) == tank'[c] - tank[c]

(* "A real pipe feeds every attached consumer in parallel and shares       *)
(* scarcity": between two consumers that did not craft, the one with more  *)
(* room gets at least as much, up to the unit that cannot be divided, and  *)
(* nothing stays with the producers while somebody has room.               *)
ScarcityShared ==
  [][~boundary /\ tally'.burnt = 0 =>
       /\ \A c, d \in attached : TankCap(c) - tank[c] >= TankCap(d) - tank[d] => Gain(c) + 1 >= Gain(d)
       /\ (\E c \in attached : tank'[c] < TankCap(c)) => Total(held', Producers) = 0]_fluidVars
=============================================================================

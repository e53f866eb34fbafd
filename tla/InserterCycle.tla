--------------------------- MODULE InserterCycle ---------------------------
(***************************************************************************)
(* The swing of a meter inserter (crates/meter/src/inserter.rs) as a       *)
(* record and the steps Inserter::tick applies to it.  Time is exact: one  *)
(* tick is TickUnit units and a full pick-drop-return cycle is Cycle units *)
(* (a regular inserter, 1/0.014 ticks, is Cycle = 500 with TickUnit = 7;   *)
(* a fast one is 25 with 1), so the fractional timer of the code is an     *)
(* integer here and half a cycle is compared as 2 * timer against Cycle.   *)
(***************************************************************************)
EXTENDS Integers

CONSTANTS Cycle,     \* length of one full swing, in units
          TickUnit   \* units that one tick of the simulator takes off

(* Every kind swings for at least 25 ticks (entity_data.rs), so half a     *)
(* swing is longer than a tick.                                            *)
ASSUME CycleAssumption ==
  /\ Cycle \in Nat
  /\ TickUnit \in Nat \ {0}
  /\ 2 * TickUnit < Cycle

Waiting == "WaitingForSource"
Cycling == "Cycling"

CycleState == [phase : {Waiting, Cycling}, timer : Int, dropped : BOOLEAN]

State(p, t, d) == [phase |-> p, timer |-> t, dropped |-> d]

Idle == State(Waiting, 0, FALSE)

IsWaiting(c) == c.phase = Waiting

\* Mutant: the cycle starts from zero, so the overshoot of the last is lost.
BeginCycleAssigned(c) == State(Cycling, Cycle, FALSE)

\* The hand closed on something: the period is added to whatever the last
\* cycle left in the timer, never assigned.
BeginCycle(c) == State(Cycling, c.timer + Cycle, FALSE)

Elapse(c) == State(c.phase, c.timer - TickUnit, c.dropped)

\* The hand is over the drop side and has not dropped in this cycle.
OverDrop(c) == ~c.dropped /\ 2 * c.timer <= Cycle

Emptied(c) == State(c.phase, c.timer, TRUE)

\* Something is left in the hand: the tick is given back and the hand stays.
HoldBack(c) == State(c.phase, c.timer + TickUnit, c.dropped)

EndOfTick(c) == State(IF c.timer <= 0 THEN Waiting ELSE c.phase, c.timer, c.dropped)
=============================================================================

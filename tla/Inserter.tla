------------------------------ MODULE Inserter ------------------------------
(***************************************************************************)
(* One meter inserter under every source and every destination.            *)
(*                                                                         *)
(* Inserter::tick (crates/meter/src/inserter.rs) reaches the world through *)
(* one callback: Io::Grab puts up to hand_size items into the hand and     *)
(* Io::Deposit moves as many out of it as fit.  Both answers are chosen    *)
(* here, tick by tick, so the properties hold whatever the belts, chests   *)
(* and machines on the two sides do.  The run lasts RunTicks ticks, as in  *)
(* World::run_for.                                                         *)
(***************************************************************************)
EXTENDS InserterCycle

CONSTANTS HandSize,  \* Inserter::hand_size
          RunTicks   \* the argument of run_for

ASSUME InserterAssumption == HandSize \in Nat \ {0} /\ RunTicks \in Nat

VARIABLES
  ins,                    \* phase, cycle_timer and dropped
  hand,                   \* number of items carried
  ticks,                  \* World.ticks
  starved_ticks,
  delivered,
  swings,
  deposit_blocked_ticks,
  short_hand_items,
  begun,                  \* history: cycles started
  held                    \* history: ticks given back over the drop side

vars == <<ins, hand, ticks, starved_ticks, delivered, swings,
          deposit_blocked_ticks, short_hand_items, begun, held>>

Init ==
  /\ ins = Idle
  /\ hand = 0
  /\ ticks = 0
  /\ starved_ticks = 0
  /\ delivered = 0
  /\ swings = 0
  /\ deposit_blocked_ticks = 0
  /\ short_hand_items = 0
  /\ begun = 0
  /\ held = 0

Monus(a, b) == IF a >= b THEN a - b ELSE 0   \* saturating_sub

(* The part of a tick after the (possible) grab: c has paid for the tick,  *)
(* load is what the hand carries.                                          *)
Travel(c, load) ==
  /\ ~OverDrop(c)
  /\ ins' = EndOfTick(c)
  /\ hand' = load
  /\ UNCHANGED <<delivered, swings, deposit_blocked_ticks, held>>

\* Mutants of Deposit: a partial insert ends the delivery; the counter is
\* credited with the hand, not with what fitted.
DepositForgetsRest(c, load, moved) ==
  /\ OverDrop(c)
  /\ hand' = load - moved
  /\ delivered' = delivered + moved
  /\ deposit_blocked_ticks' = deposit_blocked_ticks + (IF moved = 0 THEN 1 ELSE 0)
  /\ ins' = EndOfTick(Emptied(c))
  /\ swings' = swings + 1
  /\ UNCHANGED held

DepositCreditsHand(c, load, moved) ==
  /\ OverDrop(c)
  /\ hand' = load - moved
  /\ delivered' = delivered + load
  /\ deposit_blocked_ticks' = deposit_blocked_ticks + (IF moved = 0 THEN 1 ELSE 0)
  /\ ins' = IF moved = load THEN EndOfTick(Emptied(c)) ELSE HoldBack(c)
  /\ swings' = swings + (IF moved = load THEN 1 ELSE 0)
  /\ held' = held + (IF moved = load THEN 0 ELSE 1)

Deposit(c, load, moved) ==
  /\ OverDrop(c)
  /\ hand' = load - moved
  /\ delivered' = delivered + moved
  /\ deposit_blocked_ticks' = deposit_blocked_ticks + (IF moved = 0 THEN 1 ELSE 0)
  /\ IF moved = load
     THEN /\ ins' = EndOfTick(Emptied(c))
          /\ swings' = swings + 1
          /\ UNCHANGED held
     ELSE /\ ins' = HoldBack(c)
          /\ held' = held + 1
          /\ UNCHANGED swings

RestOfTick(c, load) ==
  \/ Travel(c, load)
  \/ \E moved \in 0..load : Deposit(c, load, moved)

(* Nothing under the hand: the swing is lost.                              *)
Starve ==
  /\ ticks < RunTicks
  /\ IsWaiting(ins)
  /\ hand = 0
  /\ ticks' = ticks + 1
  /\ starved_ticks' = starved_ticks + 1
  /\ UNCHANGED <<ins, hand, delivered, swings, deposit_blocked_ticks,
                 short_hand_items, begun, held>>

(* The hand closes on grabbed items and the same tick counts towards the   *)
(* new cycle.                                                              *)
Grab(grabbed) ==
  /\ ticks < RunTicks
  /\ IsWaiting(ins)
  /\ hand + grabbed > 0
  /\ ticks' = ticks + 1
  /\ begun' = begun + 1
  /\ short_hand_items' = short_hand_items + Monus(HandSize, hand + grabbed)
  /\ UNCHANGED starved_ticks
  /\ RestOfTick(Elapse(BeginCycle(ins)), hand + grabbed)

(* A tick of a cycle already under way.                                    *)
Carry ==
  /\ ticks < RunTicks
  /\ ~IsWaiting(ins)
  /\ ticks' = ticks + 1
  /\ UNCHANGED <<starved_ticks, short_hand_items, begun>>
  /\ RestOfTick(Elapse(ins), hand)

Next ==
  \/ Starve
  \/ \E grabbed \in 0..HandSize : Grab(grabbed)
  \/ Carry

Spec == Init /\ [][Next]_vars
-----------------------------------------------------------------------------
TypeOK ==
  /\ ins \in CycleState
  /\ hand \in 0..HandSize
  /\ ticks \in Nat
  /\ starved_ticks \in Nat
  /\ delivered \in Nat
  /\ swings \in Nat
  /\ deposit_blocked_ticks \in Nat
  /\ short_hand_items \in Nat
  /\ begun \in Nat
  /\ held \in Nat

(* The hand carries items exactly between a grab and the drop of the same  *)
(* cycle: an inserter never comes back to its source with items in the     *)
(* hand, where the next grab would be stacked on top of them.              *)
CarriesOnlyInFlight == hand > 0 <=> (ins.phase = Cycling /\ ~ins.dropped)

(* While the hand is full it waits short of the halfway point, however     *)
(* long the destination refuses and however often it takes a part: a       *)
(* blocked inserter never completes its cycle silently.                    *)
BlockedStaysAtDrop == hand > 0 => 2 * ins.timer > Cycle

(* The timer is an exact ledger of the run: cycles paid in, ticks worked   *)
(* paid out, with nothing lost to rounding however starved and blocked     *)
(* ticks interleave.                                                       *)
TimerLedger ==
  /\ ins.timer = begun * Cycle - TickUnit * (ticks - starved_ticks - held)
  /\ ins.timer > -TickUnit

(* No drift either way: the number of drops is the number of whole cycles  *)
(* that fit in the ticks neither starved nor held, give or take one cycle  *)
(* and one tick (the over- and under-credited rates inserter.rs reports of *)
(* its earlier drafts).                                                    *)
SteadyPeriod ==
  LET worked == TickUnit * (ticks - starved_ticks - held)
  IN  /\ swings * Cycle < worked + Cycle
      /\ worked < (swings + 1) * Cycle + TickUnit

(* Every hand position of every cycle is delivered, still in the hand, or  *)
(* counted as density shortfall.                                           *)
HandAccount == delivered + hand + short_hand_items = begun * HandSize
=============================================================================

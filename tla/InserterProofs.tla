--------------------------- MODULE InserterProofs ---------------------------
(***************************************************************************)
(* The inserter's properties for every cycle length, tick length, hand     *)
(* size and run length.  TypeOK and the properties of Inserter.tla are not *)
(* inductive by themselves; IInv adds where the timer can be in each       *)
(* phase, which is what makes a full hand arrive at the drop side and an   *)
(* empty one at the source.                                                *)
(***************************************************************************)
EXTENDS Inserter, TLAPS

\* An inserter at its source has used up its cycle; one under way has not,
\* and once it has dropped it is on the return half.
TimerInPhase ==
  /\ ins.timer > -TickUnit
  /\ ins.phase = Waiting => ins.timer <= 0
  /\ ins.phase = Cycling => ins.timer > 0 /\ ins.timer < Cycle

\* A cycle is counted as a swing when its hand is empty again.
CycleCount == begun = swings + (IF hand > 0 THEN 1 ELSE 0)

IInv ==
  /\ TypeOK
  /\ CarriesOnlyInFlight
  /\ BlockedStaysAtDrop
  /\ TimerLedger
  /\ TimerInPhase
  /\ CycleCount
  /\ HandAccount

(* The initial state of Inserter::detached satisfies the invariant.        *)
LEMMA InitInv == Init => IInv
BY CycleAssumption, InserterAssumption
   DEF Init, IInv, TypeOK, CarriesOnlyInFlight, BlockedStaysAtDrop, TimerLedger,
       TimerInPhase, CycleCount, HandAccount, Idle, State, CycleState, Waiting, Cycling

(* What is known of the cycle state and of the load once the tick's time   *)
(* has been taken off: the state before that was waiting with an empty     *)
(* hand and has just begun a cycle, or was under way.                      *)
Underway(c, load) ==
  /\ c \in CycleState
  /\ c.phase = Cycling
  /\ c.timer > -TickUnit
  /\ c.timer + TickUnit > 0
  /\ c.timer < Cycle
  /\ load \in 0..HandSize
  /\ load > 0 <=> ~c.dropped
  /\ load > 0 => 2 * (c.timer + TickUnit) > Cycle
  /\ c.timer + TickUnit <= Cycle

(* What the second half of Inserter::tick, from the time taken off to the  *)
(* end, leaves behind: cycle, hand and counters in step.                   *)
RestDone(c, load) ==
  /\ ins' \in CycleState
  /\ hand' \in 0..HandSize
  /\ delivered' \in Nat
  /\ swings' \in Nat
  /\ deposit_blocked_ticks' \in Nat
  /\ held' \in Nat
  /\ CarriesOnlyInFlight'
  /\ BlockedStaysAtDrop'
  /\ TimerInPhase'
  /\ delivered' + hand' = delivered + load
  /\ \/ held' = held /\ ins'.timer = c.timer
     \/ held' = held + 1 /\ ins'.timer = c.timer + TickUnit
  /\ swings' + (IF hand' > 0 THEN 1 ELSE 0) = swings + (IF load > 0 THEN 1 ELSE 0)

(* Both ends of a tick, still travelling or over the drop side with any    *)
(* number of items accepted, reach RestDone.                               *)
LEMMA RestInv ==
  ASSUME TypeOK, NEW c, NEW load, Underway(c, load), RestOfTick(c, load)
  PROVE  RestDone(c, load)
<1>. USE CycleAssumption, InserterAssumption
<1>1. CASE Travel(c, load)
  <2>1. ins' = State(IF c.timer <= 0 THEN Waiting ELSE Cycling, c.timer, c.dropped)
    BY <1>1 DEF Travel, EndOfTick, Underway
  <2>. QED
    BY <1>1, <2>1 DEF State, Travel, Underway, TypeOK, OverDrop, CycleState, Waiting, Cycling,
              RestDone, CarriesOnlyInFlight, BlockedStaysAtDrop, TimerInPhase
<1>2. ASSUME NEW moved \in 0..load, Deposit(c, load, moved)
      PROVE  RestDone(c, load)
  <2>1. /\ load \in 1..HandSize
        /\ hand' = load - moved
        /\ delivered' = delivered + moved
        /\ deposit_blocked_ticks' \in Nat
        /\ 2 * c.timer <= Cycle
    BY <1>2 DEF Deposit, Underway, OverDrop, TypeOK
  <2>2. CASE moved = load
    <3>1. ins' = State(IF c.timer <= 0 THEN Waiting ELSE Cycling, c.timer, TRUE)
      BY <1>2, <2>2 DEF State, Deposit, EndOfTick, Emptied, Underway
    <3>2. hand' = 0 /\ held' = held /\ swings' = swings + 1 /\ delivered' = delivered + load
      BY <1>2, <2>1, <2>2 DEF Deposit
    <3>. QED
      BY <2>1, <3>1, <3>2 DEF State, Underway, TypeOK, CycleState, Waiting, Cycling,
           RestDone, CarriesOnlyInFlight, BlockedStaysAtDrop, TimerInPhase
  <2>3. CASE moved # load
    <3>1. ins' = State(Cycling, c.timer + TickUnit, c.dropped) /\ held' = held + 1 /\ swings' = swings
      BY <1>2, <2>3 DEF Deposit, HoldBack, Underway
    <3>2. hand' \in 1..HandSize /\ delivered' + hand' = delivered + load /\ delivered' \in Nat
      BY <2>1, <2>3 DEF TypeOK
    <3>3. c.dropped = FALSE /\ c.timer \in Int
      BY <2>1 DEF Underway, CycleState
    <3>4. 2 * (c.timer + TickUnit) > Cycle /\ c.timer + TickUnit > 0
      BY <2>1 DEF Underway
    <3>5. c.timer + TickUnit < Cycle
      BY <2>1, <3>3
    <3>6. ins'.phase = Cycling /\ ins'.timer = c.timer + TickUnit /\ ins'.dropped = FALSE
          /\ ins' \in CycleState
      <4>1. ins' = State(Cycling, c.timer + TickUnit, FALSE)
        BY <3>1, <3>3
      <4>. QED  BY <4>1, <3>3 DEF State, CycleState
    <3>7. CarriesOnlyInFlight' /\ BlockedStaysAtDrop' /\ TimerInPhase'
      BY <3>2, <3>3, <3>4, <3>5, <3>6 DEF CarriesOnlyInFlight, BlockedStaysAtDrop, TimerInPhase,
                                         Waiting, Cycling
    <3>. QED
      BY <2>1, <3>1, <3>2, <3>3, <3>6, <3>7 DEF RestDone, TypeOK
  <2>. QED  BY <2>2, <2>3
<1>. QED  BY <1>1, <1>2 DEF RestOfTick

(* A lost swing changes nothing but the two tick counters.                 *)
LEMMA StarveInv == IInv /\ Starve => IInv'
<1> SUFFICES ASSUME IInv, Starve PROVE IInv'
  OBVIOUS
<1>. USE CycleAssumption, InserterAssumption
<1>1. TypeOK'
  BY DEF IInv, TypeOK, Starve
<1>2. TimerLedger'
  <2>1. (ticks + 1) - (starved_ticks + 1) - held = ticks - starved_ticks - held
    BY DEF IInv, TypeOK
  <2>. QED  BY <2>1 DEF IInv, TypeOK, TimerLedger, Starve
<1>. QED
  BY <1>1, <1>2 DEF IInv, Starve, CarriesOnlyInFlight, BlockedStaysAtDrop, TimerInPhase,
                    CycleCount, HandAccount

(* A grab begins a cycle and accounts for the whole hand.                  *)
LEMMA GrabInv == ASSUME NEW grabbed \in 0..HandSize, IInv, Grab(grabbed) PROVE IInv'
<1>. USE CycleAssumption, InserterAssumption
<1> DEFINE c == Elapse(BeginCycle(ins))
<1>1. hand = 0 /\ grabbed > 0 /\ ins.phase = Waiting
  BY DEF Grab, IInv, CarriesOnlyInFlight, IsWaiting, Waiting, Cycling, TypeOK
<1>2. c \in CycleState /\ c.timer = ins.timer + Cycle - TickUnit
      /\ c.phase = Cycling /\ c.dropped = FALSE
  <2>1. c = State(Cycling, (ins.timer + Cycle) - TickUnit, FALSE)
    BY DEF State, Elapse, BeginCycle
  <2>. QED  BY <2>1 DEF State, IInv, TypeOK, CycleState
<1>3. ins.timer \in Int /\ ins.timer > -TickUnit /\ ins.timer <= 0
  BY <1>1 DEF IInv, TypeOK, CycleState, TimerInPhase
<1>4. Underway(c, grabbed)
  BY <1>1, <1>2, <1>3 DEF Underway, TypeOK
<1>5. RestDone(c, grabbed)
  <2>1. hand + grabbed = grabbed
    BY <1>1
  <2>2. RestOfTick(c, grabbed)
    BY <2>1 DEF Grab
  <2>. QED  BY <1>4, <2>2, RestInv DEF IInv
<1>6. TypeOK'
  BY <1>1, <1>5 DEF RestDone, IInv, TypeOK, Grab, Monus
<1>7. TimerLedger'
  <2>1. (begun + 1) * Cycle = begun * Cycle + Cycle
    BY DEF IInv, TypeOK
  <2>2. \A h \in Int : TickUnit * (ticks + 1 - starved_ticks - h)
                        = TickUnit * (ticks - starved_ticks - h) + TickUnit
    BY DEF IInv, TypeOK
  <2>3. TickUnit * (ticks - starved_ticks - (held + 1))
          = TickUnit * (ticks - starved_ticks - held) - TickUnit
    BY DEF IInv, TypeOK
  <2>4. /\ begun' = begun + 1
        /\ ticks' = ticks + 1
        /\ starved_ticks' = starved_ticks
    BY DEF Grab
  <2>5. CASE held' = held /\ ins'.timer = c.timer
    BY <1>2, <2>1, <2>2, <2>4, <2>5, <1>5 DEF RestDone, TimerInPhase, IInv, TypeOK, TimerLedger, CycleState
  <2>6. CASE held' = held + 1 /\ ins'.timer = c.timer + TickUnit
    BY <1>2, <2>1, <2>2, <2>3, <2>4, <2>6, <1>5 DEF RestDone, TimerInPhase, IInv, TypeOK, TimerLedger, CycleState
  <2>. QED  BY <1>5, <2>5, <2>6 DEF RestDone
<1>8. HandAccount'
  <2>1. (begun + 1) * HandSize = begun * HandSize + HandSize
    BY DEF IInv, TypeOK
  <2>2. short_hand_items' = short_hand_items + (HandSize - grabbed)
    BY <1>1 DEF Grab, Monus
  <2>3. begun' = begun + 1 /\ delivered' + hand' = delivered + grabbed
    BY <1>5 DEF Grab, RestDone
  <2>4. PICK swung \in Int : swung = begun * HandSize
    BY DEF IInv, TypeOK
  <2>5. begun' * HandSize = swung + HandSize
    BY <2>1, <2>3, <2>4
  <2>6. delivered + short_hand_items = swung
    BY <1>1, <2>4 DEF IInv, TypeOK, HandAccount
  <2>7. /\ delivered \in Int /\ short_hand_items \in Int /\ grabbed \in Int
        /\ delivered' \in Int /\ hand' \in Int /\ short_hand_items' \in Int /\ HandSize \in Int
    BY <1>6 DEF IInv, TypeOK
  <2>8. delivered' + hand' + short_hand_items' = swung + HandSize
    <3>1. (delivered' + hand') + short_hand_items'
            = (delivered + grabbed) + (short_hand_items + (HandSize - grabbed))
      BY <2>2, <2>3
    <3>2. (delivered + grabbed) + (short_hand_items + (HandSize - grabbed))
            = (delivered + short_hand_items) + HandSize
      BY <2>7
    <3>. QED  BY <2>6, <3>1, <3>2
  <2>. QED  BY <2>5, <2>8 DEF HandAccount
<1>9. CycleCount'
  <2>1. begun' = begun + 1
    BY DEF Grab
  <2>2. begun = swings
    BY <1>1 DEF IInv, TypeOK, CycleCount
  <2>3. swings' + (IF hand' > 0 THEN 1 ELSE 0) = swings + 1
    BY <1>1, <1>5 DEF RestDone
  <2>. QED  BY <2>1, <2>2, <2>3, <1>6 DEF CycleCount, TypeOK
<1>. QED  BY <1>5, <1>6, <1>7, <1>8, <1>9 DEF IInv, RestDone

(* A tick of a cycle under way.                                            *)
LEMMA CarryInv == IInv /\ Carry => IInv'
<1> SUFFICES ASSUME IInv, Carry PROVE IInv'
  OBVIOUS
<1>. USE CycleAssumption, InserterAssumption
<1> DEFINE c == Elapse(ins)
<1>1. ins.phase = Cycling
  BY DEF Carry, IInv, TypeOK, CycleState, IsWaiting, Waiting
<1>2. c \in CycleState /\ c.timer = ins.timer - TickUnit
      /\ c.phase = Cycling /\ c.dropped = ins.dropped
  BY <1>1 DEF State, Elapse, IInv, TypeOK, CycleState
<1>3. Underway(c, hand)
  BY <1>1, <1>2 DEF Underway, IInv, TypeOK, CycleState, TimerInPhase, CarriesOnlyInFlight,
                    BlockedStaysAtDrop
<1>4. RestDone(c, hand)
  BY <1>3, RestInv DEF Carry, IInv
<1>5. TypeOK'
  BY <1>4 DEF RestDone, IInv, TypeOK, Carry
<1>6. TimerLedger'
  <2>2. TickUnit * (ticks + 1 - starved_ticks - held)
          = TickUnit * (ticks - starved_ticks - held) + TickUnit
    BY DEF IInv, TypeOK
  <2>3. (ticks + 1) - starved_ticks - (held + 1) = ticks - starved_ticks - held
    BY DEF IInv, TypeOK
  <2>4. begun' = begun /\ ticks' = ticks + 1 /\ starved_ticks' = starved_ticks
    BY DEF Carry
  <2>5. CASE held' = held /\ ins'.timer = c.timer
    BY <1>2, <2>2, <2>4, <2>5, <1>4 DEF RestDone, TimerInPhase, IInv, TypeOK, TimerLedger, CycleState
  <2>6. CASE held' = held + 1 /\ ins'.timer = c.timer + TickUnit
    BY <1>2, <2>3, <2>4, <2>6, <1>4 DEF RestDone, TimerInPhase, IInv, TypeOK, TimerLedger, CycleState
  <2>. QED  BY <1>4, <2>5, <2>6 DEF RestDone
<1>7. HandAccount'
  BY <1>4 DEF Carry, RestDone, IInv, TypeOK, HandAccount
<1>8. CycleCount'
  BY <1>4 DEF Carry, RestDone, IInv, TypeOK, CycleCount
<1>. QED  BY <1>4, <1>5, <1>6, <1>7, <1>8 DEF IInv, RestDone

(* Every tick keeps the invariant, whatever the source and the destination *)
(* answer.                                                                 *)
LEMMA NextInv == IInv /\ [Next]_vars => IInv'
<1> SUFFICES ASSUME IInv, [Next]_vars PROVE IInv'
  OBVIOUS
<1>1. CASE Starve
  BY <1>1, StarveInv
<1>2. ASSUME NEW grabbed \in 0..HandSize, Grab(grabbed) PROVE IInv'
  BY <1>2, GrabInv
<1>3. CASE Carry
  BY <1>3, CarryInv
<1>4. CASE UNCHANGED vars
  BY <1>4 DEF vars, IInv, TypeOK, CarriesOnlyInFlight, BlockedStaysAtDrop, TimerLedger,
              TimerInPhase, CycleCount, HandAccount
<1>. QED  BY <1>1, <1>2, <1>3, <1>4 DEF Next

(* The number of drops follows from the ledger: the timer never holds more *)
(* than one cycle, and less than one tick is ever owed.                    *)
LEMMA LedgerGivesPeriod == IInv => SteadyPeriod
<1> SUFFICES ASSUME IInv PROVE SteadyPeriod
  OBVIOUS
<1>. USE CycleAssumption, InserterAssumption
<1> DEFINE worked == TickUnit * (ticks - starved_ticks - held)
<1>1. worked = begun * Cycle - ins.timer /\ worked \in Int /\ ins.timer \in Int
  BY DEF IInv, TypeOK, TimerLedger, CycleState
<1>2. ins.timer < Cycle /\ ins.timer > -TickUnit
  BY DEF IInv, TypeOK, CycleState, TimerInPhase, Waiting, Cycling
<1>3. begun \in Nat /\ swings \in Nat /\ (begun = swings \/ begun = swings + 1)
  BY DEF IInv, TypeOK, CycleCount
<1>4. (swings + 1) * Cycle = swings * Cycle + Cycle
  BY <1>3
<1>5. swings * Cycle \in Nat
  BY <1>3
<1>. QED  BY <1>1, <1>2, <1>3, <1>4, <1>5 DEF SteadyPeriod

(* Inserter::tick keeps its types, with never more than hand_size items in *)
(* the hand.                                                               *)
THEOREM TypeCorrect == Spec => []TypeOK
<1>1. IInv => TypeOK
  BY DEF IInv
<1>. QED  BY InitInv, NextInv, <1>1, PTL DEF Spec

(* Items are in the hand exactly between a grab and the drop of its cycle. *)
THEOREM HandInFlight == Spec => []CarriesOnlyInFlight
<1>1. IInv => CarriesOnlyInFlight
  BY DEF IInv
<1>. QED  BY InitInv, NextInv, <1>1, PTL DEF Spec

(* A hand the destination refuses is held short of the halfway point.      *)
THEOREM HeldAtDrop == Spec => []BlockedStaysAtDrop
<1>1. IInv => BlockedStaysAtDrop
  BY DEF IInv
<1>. QED  BY InitInv, NextInv, <1>1, PTL DEF Spec

(* The timer is the exact balance of cycles begun and ticks worked.        *)
THEOREM ExactLedger == Spec => []TimerLedger
<1>1. IInv => TimerLedger
  BY DEF IInv
<1>. QED  BY InitInv, NextInv, <1>1, PTL DEF Spec

(* The rate of an inserter neither drifts above nor below its cycle.       *)
THEOREM NoDrift == Spec => []SteadyPeriod
BY InitInv, NextInv, LedgerGivesPeriod, PTL DEF Spec

(* Delivered, carried and short items add up to the hands swung.           *)
THEOREM HandsAddUp == Spec => []HandAccount
<1>1. IInv => HandAccount
  BY DEF IInv
<1>. QED  BY InitInv, NextInv, <1>1, PTL DEF Spec
=============================================================================

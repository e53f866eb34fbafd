------------------------------ MODULE Machine ------------------------------
(***************************************************************************)
(* One crafting machine of the meter (crates/meter/src/machine.rs) under   *)
(* every order of calls the factory makes on it: inserters insert and take *)
(* between its ticks, the pipes fill and drain its fluid boxes, and the    *)
(* counters are reset in the middle of a run.                              *)
(*                                                                         *)
(* Time is exact: one tick is TickUnit units and a craft is CraftTime      *)
(* units, so a craft may take a fraction of a tick more or less than a     *)
(* whole number.  Yields are exact too: a craft yields SolidYield / Unit   *)
(* items and FluidYield / Unit of fluid on average (a probability or a     *)
(* productivity bonus makes them fractions).  The recipe has one product   *)
(* of each kind; its ingredients are any sets.                             *)
(***************************************************************************)
EXTENDS Integers

CONSTANTS
  Solids, Fluids,           \* the ingredients, by kind
  Need,                     \* amount of each per craft
  BufferCrafts,             \* DEFAULT_BUFFER_CRAFTS
  CraftTime, TickUnit,      \* craft_ticks is CraftTime / TickUnit
  SolidYield, FluidYield, Unit,
  OutputCap,                \* output_cap
  FluidIsBounded,           \* the fluid product is in bounded_fluid_outputs
  Hand,                     \* the most a caller moves in one call
  RunTicks                  \* the argument of run_for

ASSUME MachineAssumption ==
  /\ Solids \cap Fluids = {}
  /\ Need \in [Solids \cup Fluids -> Nat \ {0}]
  /\ BufferCrafts \in Nat \ {0}
  /\ TickUnit \in Nat \ {0} /\ CraftTime \in Nat /\ CraftTime >= TickUnit
  /\ SolidYield \in Nat /\ FluidYield \in Nat /\ Unit \in Nat \ {0}
  /\ OutputCap \in Nat \ {0} /\ FluidIsBounded \in BOOLEAN
  /\ Hand \in Nat /\ RunTicks \in Nat

Ingredients == Solids \cup Fluids

VARIABLES
  progress,        \* units left of the craft; <= 0 between crafts
  held,            \* input and fluid_input, per ingredient
  debt,            \* product_debt and fluid_debt, in 1 / Unit
  output,          \* finished items
  fluid_output,    \* finished fluid
  state,           \* MachineState
  crafts, working_ticks, output_blocked_ticks,
  item_shortage_ticks, fluid_shortage_ticks,
  supplied, consumed,  \* fluid_supplied and fluid_consumed
  ticks,           \* Factory.ticks: ticks of this window
  run,             \* history: ticks of the whole run
  begun, worked,   \* history: crafts begun and ticks worked in the run
  emitted,         \* history: items and fluid emitted in the run
  atReset          \* history: fluid on hand when the window began

buffers == <<held, supplied, consumed>>
products == <<debt, output, fluid_output, emitted>>
counters == <<crafts, working_ticks, output_blocked_ticks,
              item_shortage_ticks, fluid_shortage_ticks>>
clock == <<ticks, run>>
vars == <<progress, buffers, products, state, counters, clock, begun, worked, atReset>>

Cap(i) == Need[i] * BufferCrafts
Room(i) == Cap(i) - held[i]

Init ==
  /\ progress = 0
  /\ held = [i \in Ingredients |-> 0]
  /\ debt = [solid |-> 0, fluid |-> 0]
  /\ output = 0
  /\ fluid_output = 0
  /\ state = "ItemIngredientShortage"
  /\ crafts = 0 /\ working_ticks = 0 /\ output_blocked_ticks = 0
  /\ item_shortage_ticks = 0 /\ fluid_shortage_ticks = 0
  /\ supplied = [f \in Fluids |-> 0] /\ consumed = [f \in Fluids |-> 0]
  /\ ticks = 0 /\ run = 0 /\ begun = 0 /\ worked = 0
  /\ emitted = [solid |-> 0, fluid |-> 0]
  /\ atReset = [f \in Fluids |-> 0]

LesserOf(a, b) == IF a <= b THEN a ELSE b

(* An inserter puts what fits of its hand into the machine.                *)
Insert(i, count) ==
  /\ held' = [held EXCEPT ![i] = @ + LesserOf(count, Room(i))]
  /\ UNCHANGED <<progress, supplied, consumed, products, state, counters, clock,
                 begun, worked, atReset>>

(* The pipes fill a fluid box.                                             *)
InsertFluid(f, count) ==
  /\ held' = [held EXCEPT ![f] = @ + LesserOf(count, Room(f))]
  /\ supplied' = [supplied EXCEPT ![f] = @ + LesserOf(count, Room(f))]
  /\ UNCHANGED <<progress, consumed, products, state, counters, clock,
                 begun, worked, atReset>>

(* An inserter takes finished items; the pipes take finished fluid.        *)
TakeOutput(max) ==
  /\ output' = output - LesserOf(max, output)
  /\ UNCHANGED <<progress, buffers, debt, fluid_output, emitted, state, counters,
                 clock, begun, worked, atReset>>

TakeFluid(max) ==
  /\ fluid_output' = fluid_output - LesserOf(max, fluid_output)
  /\ UNCHANGED <<progress, buffers, debt, output, emitted, state, counters,
                 clock, begun, worked, atReset>>

\* Mutant: a counter that survives the reset.
ResetForgetsBlocked ==
  /\ crafts' = 0 /\ working_ticks' = 0
  /\ item_shortage_ticks' = 0 /\ fluid_shortage_ticks' = 0
  /\ supplied' = [f \in Fluids |-> 0] /\ consumed' = [f \in Fluids |-> 0]
  /\ ticks' = 0
  /\ atReset' = [f \in Fluids |-> held[f]]
  /\ UNCHANGED <<output_blocked_ticks, progress, held, products, state, run, begun, worked>>

(* Factory::reset_counters ends the warm-up in whatever state the machine  *)
(* is: the craft under way and the buffers carry over.                     *)
ResetCounters ==
  /\ crafts' = 0 /\ working_ticks' = 0 /\ output_blocked_ticks' = 0
  /\ item_shortage_ticks' = 0 /\ fluid_shortage_ticks' = 0
  /\ supplied' = [f \in Fluids |-> 0] /\ consumed' = [f \in Fluids |-> 0]
  /\ ticks' = 0
  /\ atReset' = [f \in Fluids |-> held[f]]
  /\ UNCHANGED <<progress, held, products, state, run, begun, worked>>

\* Mutant: the fluid product does not count towards the cap.
TotalOutputItems == output

TotalOutput == output + (IF FluidIsBounded THEN fluid_output ELSE 0)
HasAll(kinds) == \A i \in kinds : held[i] >= Need[i]

ClockTick ==
  /\ run < RunTicks
  /\ run' = run + 1
  /\ ticks' = ticks + 1

(* The three ways a tick can end without work.                             *)
BlockedTick ==
  /\ ClockTick
  /\ TotalOutput >= OutputCap
  /\ state' = "FullOutput"
  /\ output_blocked_ticks' = output_blocked_ticks + 1
  /\ UNCHANGED <<progress, buffers, products, crafts, working_ticks,
                 item_shortage_ticks, fluid_shortage_ticks, begun, worked, atReset>>

StarvedTick ==
  /\ ClockTick
  /\ TotalOutput < OutputCap
  /\ progress <= 0
  /\ \/ /\ ~HasAll(Solids)
        /\ state' = "ItemIngredientShortage"
        /\ item_shortage_ticks' = item_shortage_ticks + 1
        /\ UNCHANGED fluid_shortage_ticks
     \/ /\ HasAll(Solids)
        /\ ~HasAll(Fluids)
        /\ state' = "FluidIngredientShortage"
        /\ fluid_shortage_ticks' = fluid_shortage_ticks + 1
        /\ UNCHANGED item_shortage_ticks
  /\ UNCHANGED <<progress, buffers, products, crafts, working_ticks,
                 output_blocked_ticks, begun, worked, atReset>>

\* A whole number of products leaves the debt; the fraction stays.
Emission(yield, kind) == (debt[kind] + yield) \div Unit
\* Mutant: the fraction is dropped with the emission.
EmitTruncated ==
  LET s == Emission(SolidYield, "solid")
      f == Emission(FluidYield, "fluid")
  IN  /\ debt' = [solid |-> 0, fluid |-> 0]
      /\ output' = output + s
      /\ fluid_output' = fluid_output + f
      /\ emitted' = [solid |-> emitted.solid + s, fluid |-> emitted.fluid + f]
      /\ crafts' = crafts + 1

Emit ==
  LET s == Emission(SolidYield, "solid")
      f == Emission(FluidYield, "fluid")
  IN  /\ debt' = [solid |-> (debt.solid + SolidYield) - s * Unit,
                  fluid |-> (debt.fluid + FluidYield) - f * Unit]
      /\ output' = output + s
      /\ fluid_output' = fluid_output + f
      /\ emitted' = [solid |-> emitted.solid + s, fluid |-> emitted.fluid + f]
      /\ crafts' = crafts + 1

\* One tick of work with left units of the craft remaining before it.
WorkFrom(left) ==
  /\ state' = "Working"
  /\ working_ticks' = working_ticks + 1
  /\ worked' = worked + 1
  /\ progress' = left - TickUnit
  /\ IF left - TickUnit <= 0 THEN Emit ELSE UNCHANGED <<products, crafts>>
  /\ UNCHANGED <<output_blocked_ticks, item_shortage_ticks, fluid_shortage_ticks,
                 supplied, atReset>>

\* Mutant: the period is assigned, so the overshoot of the last craft is lost.
BeginAssigned ==
  /\ ClockTick
  /\ TotalOutput < OutputCap
  /\ progress <= 0
  /\ HasAll(Ingredients)
  /\ held' = [i \in Ingredients |-> held[i] - Need[i]]
  /\ consumed' = [f \in Fluids |-> consumed[f] + Need[f]]
  /\ begun' = begun + 1
  /\ WorkFrom(CraftTime)

(* A craft begins: the ingredients are consumed and the period is added to *)
(* the overshoot of the last one.                                          *)
BeginCraft ==
  /\ ClockTick
  /\ TotalOutput < OutputCap
  /\ progress <= 0
  /\ HasAll(Ingredients)
  /\ held' = [i \in Ingredients |-> held[i] - Need[i]]
  /\ consumed' = [f \in Fluids |-> consumed[f] + Need[f]]
  /\ begun' = begun + 1
  /\ WorkFrom(progress + CraftTime)

ContinueCraft ==
  /\ ClockTick
  /\ TotalOutput < OutputCap
  /\ progress > 0
  /\ UNCHANGED <<held, consumed, begun>>
  /\ WorkFrom(progress)

Tick == BlockedTick \/ StarvedTick \/ BeginCraft \/ ContinueCraft

Next ==
  \/ Tick
  \/ \E n \in 1..Hand :
       \/ \E i \in Solids : Insert(i, n)
       \/ \E f \in Fluids : InsertFluid(f, n)
       \/ TakeOutput(n)
       \/ TakeFluid(n)
  \/ ResetCounters

Spec == Init /\ [][Next]_vars
-----------------------------------------------------------------------------
States == {"Working", "FullOutput", "ItemIngredientShortage", "FluidIngredientShortage"}

TypeOK ==
  /\ progress \in Int
  /\ held \in [Ingredients -> Nat]
  /\ debt \in [solid : 0..(Unit - 1), fluid : 0..(Unit - 1)]
  /\ output \in Nat /\ fluid_output \in Nat
  /\ state \in States
  /\ crafts \in Nat /\ working_ticks \in Nat /\ output_blocked_ticks \in Nat
  /\ item_shortage_ticks \in Nat /\ fluid_shortage_ticks \in Nat
  /\ supplied \in [Fluids -> Nat] /\ consumed \in [Fluids -> Nat]
  /\ ticks \in Nat /\ run \in Nat /\ begun \in Nat /\ worked \in Nat
  /\ emitted \in [solid : Nat, fluid : Nat]
  /\ atReset \in [Fluids -> Nat]

(* No call order overfills a buffer: an inserter that checks for room and  *)
(* the pipes that fill in parallel stay within the two crafts of margin.   *)
BuffersWithinCap == \A i \in Ingredients : held[i] <= Cap(i)

(* A machine is only ever stopped by its output between two crafts: the    *)
(* check comes first in the tick, and yet it never freezes a craft whose   *)
(* ingredients are already gone.                                           *)
FullOutputBetweenCrafts == TotalOutput >= OutputCap => progress <= 0

(* Crafts keep to the prototype rate over the whole run: the time worked   *)
(* is the time of the crafts begun, with no rounding lost to shortages,    *)
(* blocks and resets in between.                                           *)
CraftTimer ==
  /\ progress = begun * CraftTime - worked * TickUnit
  /\ progress + TickUnit > 0

(* Every tick of the window is attributed to exactly one of the four       *)
(* counters of the report, also when the window opens in mid-craft.        *)
TicksAttributed ==
  ticks = working_ticks + output_blocked_ticks
            + item_shortage_ticks + fluid_shortage_ticks

(* The fluid attribution of a window accounts for the fluid boxes.         *)
FluidAttributed ==
  \A f \in Fluids : held[f] = atReset[f] + supplied[f] - consumed[f]

\* Crafts finished in the run: all begun but the one under way.
Finished == IF progress > 0 THEN begun - 1 ELSE begun

(* What was emitted over the run is the expectation of the finished crafts *)
(* rounded down, however the fractions fall.                               *)
EmissionExact ==
  /\ emitted.solid * Unit + debt.solid = Finished * SolidYield
  /\ emitted.fluid * Unit + debt.fluid = Finished * FluidYield

\* What waits to be taken away and should stop the machine.
Unshipped == output + (IF FluidIsBounded THEN fluid_output ELSE 0)

(* A machine that is not emptied overshoots its cap by less than one craft *)
(* of every product that counts towards it.                                *)
OutputBounded ==
  Unshipped < OutputCap + (SolidYield \div Unit + 1)
                  + (IF FluidIsBounded THEN FluidYield \div Unit + 1 ELSE 0)
=============================================================================

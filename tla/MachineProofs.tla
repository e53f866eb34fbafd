--------------------------- MODULE MachineProofs ---------------------------
(***************************************************************************)
(* The machine's invariants for every recipe, every craft time and every   *)
(* order of calls.  The state falls into four groups that the invariants   *)
(* keep apart: the craft timer, the buffers with their attribution, the    *)
(* counters of the window, and the products.                               *)
(***************************************************************************)
EXTENDS Machine, TLAPS

(* A whole number of units leaves a remainder of less than one unit.       *)
LEMMA Remainder ==
  ASSUME NEW d \in Nat, NEW u \in Nat \ {0}
  PROVE  /\ d \div u \in Nat
         /\ d - (d \div u) * u \in 0..(u - 1)
BY SMT

(* What a craft emits from a debt of less than one unit, and what it       *)
(* leaves.                                                                 *)
LEMMA WholeUnits ==
  ASSUME NEW d \in 0..(Unit - 1), NEW yield \in Nat, Unit \in Nat \ {0}
  PROVE  /\ (d + yield) \div Unit \in Nat
         /\ (d + yield) - ((d + yield) \div Unit) * Unit \in 0..(Unit - 1)
         /\ (d + yield) \div Unit <= (yield \div Unit) + 1
<1> DEFINE q == yield \div Unit
           e == (d + yield) \div Unit
<1>1. d \in Nat /\ d < Unit /\ d + yield \in Nat
  OBVIOUS
<1>2. e \in Nat /\ (d + yield) - e * Unit \in 0..(Unit - 1)
  BY <1>1, Remainder
<1>3. q \in Nat /\ yield - q * Unit \in 0..(Unit - 1)
  BY Remainder
<1> HIDE DEF q, e
<1>4. CASE e > q + 1
  <2>1. e * Unit >= (q + 2) * Unit
    BY <1>2, <1>3, <1>4
  <2>2. (q + 2) * Unit = q * Unit + Unit + Unit
    BY <1>3
  <2>3. PICK eu \in Int, qu \in Int : eu = e * Unit /\ qu = q * Unit
    BY <1>2, <1>3
  <2>. QED  BY <1>1, <1>2, <1>3, <2>1, <2>2, <2>3
<1>. QED  BY <1>2, <1>3, <1>4 DEF e, q

(* The smaller of two naturals.                                            *)
LEMMA Lesser ==
  ASSUME NEW a \in Nat, NEW b \in Nat
  PROVE  LesserOf(a, b) \in Nat /\ LesserOf(a, b) <= a /\ LesserOf(a, b) <= b
BY DEF LesserOf

(* The cap of an ingredient is a number.                                   *)
LEMMA CapType == ASSUME NEW i \in Ingredients PROVE Cap(i) \in Nat
BY MachineAssumption, SMT DEF Cap, Ingredients

TimerInv ==
  /\ progress \in Int /\ begun \in Nat /\ worked \in Nat
  /\ progress > 0 => begun > 0
  /\ CraftTimer

BufferInv ==
  /\ held \in [Ingredients -> Nat]
  /\ supplied \in [Fluids -> Nat] /\ consumed \in [Fluids -> Nat]
  /\ atReset \in [Fluids -> Nat]
  /\ BuffersWithinCap
  /\ FluidAttributed

CounterInv ==
  /\ state \in States
  /\ crafts \in Nat /\ working_ticks \in Nat /\ output_blocked_ticks \in Nat
  /\ item_shortage_ticks \in Nat /\ fluid_shortage_ticks \in Nat
  /\ ticks \in Nat /\ run \in Nat
  /\ TicksAttributed

ProductInv ==
  /\ debt \in [solid : 0..(Unit - 1), fluid : 0..(Unit - 1)]
  /\ output \in Nat /\ fluid_output \in Nat
  /\ emitted \in [solid : Nat, fluid : Nat]
  /\ FullOutputBetweenCrafts
  /\ EmissionExact
  /\ OutputBounded

MInv == TimerInv /\ BufferInv /\ CounterInv /\ ProductInv

(* A new machine.                                                          *)
LEMMA MachineInit == Init => MInv
<1> SUFFICES ASSUME Init PROVE MInv
  OBVIOUS
<1>1. TimerInv
  BY MachineAssumption DEF Init, TimerInv, CraftTimer
<1>2. BufferInv
  BY CapType DEF Init, BufferInv, BuffersWithinCap, FluidAttributed, Ingredients
<1>3. CounterInv
  BY DEF Init, CounterInv, States, TicksAttributed
<1>4. ProductInv
  <2>1. SolidYield \div Unit \in Nat /\ FluidYield \div Unit \in Nat
    BY MachineAssumption, Remainder
  <2>2. EmissionExact
    BY MachineAssumption DEF Init, EmissionExact, Finished
  <2>3. TotalOutput = 0
    BY DEF Init, TotalOutput
  <2>4. Unshipped = TotalOutput
    BY Zenon DEF Unshipped, TotalOutput
  <2>. QED
    BY <2>1, <2>2, <2>3, <2>4, MachineAssumption
       DEF Init, ProductInv, FullOutputBetweenCrafts, OutputBounded
<1>. QED  BY <1>1, <1>2, <1>3, <1>4 DEF MInv

(* Filling a buffer: it stays within its cap, and what the pipes deliver   *)
(* is attributed.                                                          *)
LEMMA InsertInv ==
  ASSUME BufferInv, NEW i \in Ingredients, NEW count \in Nat,
         held' = [held EXCEPT ![i] = @ + LesserOf(count, Room(i))],
         i \in Fluids => supplied' = [supplied EXCEPT ![i] = @ + LesserOf(count, Room(i))],
         i \in Solids => supplied' = supplied,
         consumed' = consumed, atReset' = atReset
  PROVE  BufferInv'
<1> DEFINE n == LesserOf(count, Room(i))
<1>1. Cap(i) \in Nat /\ held[i] \in Nat /\ held[i] <= Cap(i) /\ Room(i) = Cap(i) - held[i]
      /\ Room(i) \in Nat
  BY CapType DEF BufferInv, BuffersWithinCap, Room
<1>2. n \in Nat /\ held[i] + n <= Cap(i)
  <2>1. n \in Nat /\ n <= Room(i)
    BY <1>1, Lesser
  <2> HIDE DEF n
  <2>. QED  BY <1>1, <2>1
<1> HIDE DEF n
<1>3. held' = [held EXCEPT ![i] = held[i] + n] /\ held' \in [Ingredients -> Nat]
  BY <1>1, <1>2 DEF BufferInv, n
<1>4. supplied' \in [Fluids -> Nat]
  <2>1. CASE i \in Fluids
    BY <1>2, <2>1 DEF BufferInv, n
  <2>2. CASE i \in Solids
    BY <2>2 DEF BufferInv
  <2>. QED  BY <2>1, <2>2 DEF Ingredients
<1>5. BuffersWithinCap'
  BY <1>2, <1>3 DEF BufferInv, BuffersWithinCap, Cap
<1>6. FluidAttributed'
  <2> SUFFICES ASSUME NEW f \in Fluids
               PROVE  held'[f] = atReset'[f] + supplied'[f] - consumed'[f]
    BY DEF FluidAttributed
  <2>1. f \in Ingredients /\ f \notin Solids
    BY MachineAssumption DEF Ingredients
  <2>2. held[f] = atReset[f] + supplied[f] - consumed[f]
    BY DEF BufferInv, FluidAttributed
  <2>3. CASE f = i
    <3>1. held'[f] = held[f] + n /\ supplied'[f] = supplied[f] + n
      BY <1>3, <2>1, <2>3 DEF BufferInv, n
    <3>. QED  BY <1>2, <2>2, <3>1 DEF BufferInv
  <2>4. CASE f # i
    <3>1. held'[f] = held[f] /\ supplied'[f] = supplied[f]
      BY <1>3, <2>1, <2>4 DEF BufferInv, Ingredients
    <3>. QED  BY <2>2, <3>1
  <2>. QED  BY <2>3, <2>4
<1>. QED  BY <1>3, <1>4, <1>5, <1>6 DEF BufferInv

(* Taking products away: the output only shrinks.                          *)
LEMMA TakeInv ==
  ASSUME ProductInv, progress' = progress, begun' = begun, debt' = debt, emitted' = emitted,
         NEW taken \in Nat, NEW drawn \in Nat, taken <= output, drawn <= fluid_output,
         output' = output - taken, fluid_output' = fluid_output - drawn
  PROVE  ProductInv'
<1>1. output \in Nat /\ fluid_output \in Nat /\ output' \in Nat /\ fluid_output' \in Nat
  BY DEF ProductInv
<1>2. TotalOutput \in Nat /\ TotalOutput' \in Nat /\ TotalOutput' <= TotalOutput
  <2>1. CASE FluidIsBounded
    <3>1. TotalOutput = output + fluid_output /\ TotalOutput' = output' + fluid_output'
      BY <2>1, Zenon DEF TotalOutput
    <3>. QED  BY <1>1, <3>1
  <2>2. CASE ~FluidIsBounded
    <3>1. TotalOutput = output + 0 /\ TotalOutput' = output' + 0
      BY <2>2, Zenon DEF TotalOutput
    <3>. QED  BY <1>1, <3>1
  <2>. QED  BY <2>1, <2>2
<1>3. FullOutputBetweenCrafts'
  BY <1>2, MachineAssumption DEF FullOutputBetweenCrafts, ProductInv
<1>4. EmissionExact'
  BY DEF EmissionExact, Finished, ProductInv
<1>5. OutputBounded'
  <2>1. SolidYield \div Unit \in Nat /\ FluidYield \div Unit \in Nat
    BY MachineAssumption, Remainder
  <2>2. Unshipped = TotalOutput /\ Unshipped' = TotalOutput'
    BY Zenon DEF Unshipped, TotalOutput
  <2>. QED  BY <1>2, <2>1, <2>2, MachineAssumption DEF OutputBounded, ProductInv
<1>. QED  BY <1>1, <1>3, <1>4, <1>5 DEF ProductInv

(* The craft timer after one tick of work on left units.                   *)
LEMMA TimerStep ==
  ASSUME TimerInv,
         worked' = worked + 1,
         \/ progress <= 0 /\ progress' = progress + CraftTime - TickUnit /\ begun' = begun + 1
         \/ progress > 0 /\ progress' = progress - TickUnit /\ begun' = begun
  PROVE  TimerInv'
<1>1. PICK paid \in Int, spent \in Int : paid = begun * CraftTime /\ spent = worked * TickUnit
  BY MachineAssumption DEF TimerInv
<1>2. progress = paid - spent /\ progress + TickUnit > 0
  BY <1>1 DEF TimerInv, CraftTimer
<1>3. worked' * TickUnit = spent + TickUnit /\ worked' \in Nat
  BY <1>1, MachineAssumption DEF TimerInv
<1>4. CASE progress <= 0 /\ progress' = progress + CraftTime - TickUnit /\ begun' = begun + 1
  <2>1. begun' * CraftTime = paid + CraftTime /\ begun' \in Nat /\ begun' > 0
    BY <1>1, <1>4, MachineAssumption DEF TimerInv
  <2>2. progress' = (paid + CraftTime) - (spent + TickUnit) /\ progress' \in Int
        /\ progress' + TickUnit > 0
    BY <1>2, <1>4, MachineAssumption DEF TimerInv
  <2>. QED  BY <1>3, <2>1, <2>2 DEF TimerInv, CraftTimer
<1>5. CASE progress > 0 /\ progress' = progress - TickUnit /\ begun' = begun
  <2>1. progress' = paid - (spent + TickUnit) /\ progress' \in Int /\ progress' + TickUnit > 0
    BY <1>2, <1>5, MachineAssumption DEF TimerInv
  <2>. QED  BY <1>1, <1>3, <1>5, <2>1 DEF TimerInv, CraftTimer
<1>. QED  BY <1>4, <1>5

(* The bounded output is a number.                                         *)
LEMMA OutputType ==
  ASSUME output \in Nat, fluid_output \in Nat PROVE TotalOutput \in Nat
<1>1. CASE FluidIsBounded
  <2>1. TotalOutput = output + fluid_output
    BY <1>1, Zenon DEF TotalOutput
  <2>. QED  BY <2>1
<1>2. CASE ~FluidIsBounded
  <2>1. TotalOutput = output + 0
    BY <1>2, Zenon DEF TotalOutput
  <2>. QED  BY <2>1
<1>. QED  BY <1>1, <1>2

(* What one craft emits of a product and leaves in its debt, when e units  *)
(* and a debt of d are what n crafts have yielded.                         *)
LEMMA OneMoreCraft ==
  ASSUME Unit \in Nat \ {0}, NEW d \in 0..(Unit - 1), NEW e \in Nat, NEW n \in Int,
         NEW yield \in Nat, NEW s, s = (d + yield) \div Unit,
         e * Unit + d = n * yield
  PROVE  /\ s \in Nat /\ s <= (yield \div Unit) + 1
         /\ (d + yield) - s * Unit \in 0..(Unit - 1)
         /\ (e + s) * Unit + ((d + yield) - s * Unit) = (n + 1) * yield
<1>1. /\ s \in Nat /\ s <= (yield \div Unit) + 1
      /\ (d + yield) - s * Unit \in 0..(Unit - 1)
  BY WholeUnits
<1>2. (e + s) * Unit = e * Unit + s * Unit /\ (n + 1) * yield = n * yield + yield
  BY <1>1
<1>3. PICK eu \in Int, su \in Int, ny \in Int : eu = e * Unit /\ su = s * Unit /\ ny = n * yield
  BY <1>1
<1>4. eu + d = ny
  BY <1>3
<1>5. (eu + su) + ((d + yield) - su) = ny + yield
  BY <1>4
<1>. QED  BY <1>1, <1>2, <1>3, <1>5

(* The products after one tick of work: whole units come out when the      *)
(* craft is done, and not before.                                          *)
LEMMA ProductStep ==
  ASSUME TimerInv, ProductInv, TotalOutput < OutputCap, progress' \in Int, begun' \in Nat,
         Finished' = Finished + (IF progress' <= 0 THEN 1 ELSE 0),
         IF progress' <= 0 THEN Emit ELSE UNCHANGED <<products, crafts>>
  PROVE  ProductInv'
<1> DEFINE s == Emission(SolidYield, "solid")
           f == Emission(FluidYield, "fluid")
<1>1. /\ debt.solid \in 0..(Unit - 1) /\ debt.fluid \in 0..(Unit - 1)
      /\ output \in Nat /\ fluid_output \in Nat
      /\ emitted.solid \in Nat /\ emitted.fluid \in Nat
      /\ Finished \in Int /\ TotalOutput \in Nat /\ Unit \in Nat \ {0} /\ SolidYield \in Nat /\ FluidYield \in Nat
  BY MachineAssumption, OutputType DEF ProductInv, TimerInv, Finished
<1>2. CASE progress' > 0
  <2>1. UNCHANGED products /\ Finished' = Finished
    BY <1>1, <1>2
  <2>2. TotalOutput' = TotalOutput /\ Unshipped' = Unshipped
    BY <2>1, Zenon DEF products, TotalOutput, Unshipped
  <2>3. FullOutputBetweenCrafts'
    <3>1. ~(TotalOutput' >= OutputCap)
      BY <1>1, <2>2, MachineAssumption
    <3>. QED  BY <3>1 DEF FullOutputBetweenCrafts
  <2>. QED  BY <2>1, <2>2, <2>3 DEF ProductInv, products, EmissionExact, OutputBounded
<1>3. CASE progress' <= 0
  <2>1. Emit /\ Finished' = Finished + 1
    BY <1>1, <1>3
  <2>2. PICK d \in 0..(Unit - 1), e \in Nat, g \in 0..(Unit - 1), h \in Nat, n \in Int :
          /\ d = debt.solid /\ e = emitted.solid
          /\ g = debt.fluid /\ h = emitted.fluid /\ n = Finished
    BY <1>1
  <2>3. e * Unit + d = n * SolidYield /\ h * Unit + g = n * FluidYield
    BY <2>2 DEF ProductInv, EmissionExact
  <2>4. s = (d + SolidYield) \div Unit /\ f = (g + FluidYield) \div Unit
    BY <2>2 DEF Emission
  <2>5. /\ debt' = [solid |-> (d + SolidYield) - s * Unit, fluid |-> (g + FluidYield) - f * Unit]
        /\ output' = output + s /\ fluid_output' = fluid_output + f
        /\ emitted' = [solid |-> e + s, fluid |-> h + f]
    <3>1. /\ debt' = [solid |-> (debt.solid + SolidYield) - s * Unit,
                      fluid |-> (debt.fluid + FluidYield) - f * Unit]
          /\ output' = output + s /\ fluid_output' = fluid_output + f
          /\ emitted' = [solid |-> emitted.solid + s, fluid |-> emitted.fluid + f]
      BY <2>1, Zenon DEF Emit
    <3>. QED  BY <2>2, <3>1
  <2> HIDE DEF s, f
  <2>6. /\ s \in Nat /\ s <= (SolidYield \div Unit) + 1
        /\ (d + SolidYield) - s * Unit \in 0..(Unit - 1)
        /\ (e + s) * Unit + ((d + SolidYield) - s * Unit) = (n + 1) * SolidYield
    BY <1>1, <2>3, <2>4, OneMoreCraft
  <2>7. /\ f \in Nat /\ f <= (FluidYield \div Unit) + 1
        /\ (g + FluidYield) - f * Unit \in 0..(Unit - 1)
        /\ (h + f) * Unit + ((g + FluidYield) - f * Unit) = (n + 1) * FluidYield
    <3>1. h * Unit + g = n * FluidYield /\ f = (g + FluidYield) \div Unit
      BY <2>3, <2>4
    <3>2. FluidYield \in Nat /\ Unit \in Nat \ {0}
      BY <1>1
    <3>. QED  BY <3>1, <3>2, OneMoreCraft, SMTT(60)
  <2>8. debt' \in [solid : 0..(Unit - 1), fluid : 0..(Unit - 1)]
        /\ emitted' \in [solid : Nat, fluid : Nat]
        /\ output' \in Nat /\ fluid_output' \in Nat
    <3>1. e + s \in Nat /\ h + f \in Nat
      BY <2>6, <2>7
    <3>2. debt' \in [solid : 0..(Unit - 1), fluid : 0..(Unit - 1)]
      BY <2>5, <2>6, <2>7
    <3>3. emitted' \in [solid : Nat, fluid : Nat]
      BY <2>5, <3>1
    <3>. QED  BY <1>1, <2>5, <2>6, <2>7, <3>2, <3>3
  <2>9. EmissionExact'
    BY <2>1, <2>2, <2>5, <2>6, <2>7 DEF EmissionExact
  <2>10. OutputBounded'
    <3>1. SolidYield \div Unit \in Nat /\ FluidYield \div Unit \in Nat
      BY <1>1, Remainder
    <3>2. PICK sy \in Nat, fy \in Nat : sy = SolidYield \div Unit /\ fy = FluidYield \div Unit
      BY <3>1
    <3>3. CASE FluidIsBounded
      <4>1. TotalOutput = output + fluid_output /\ TotalOutput' = output' + fluid_output'
        BY <3>3, Zenon DEF TotalOutput
      <4>2. TotalOutput' < OutputCap + (sy + 1) + (fy + 1)
        BY <1>1, <2>5, <2>6, <2>7, <3>2, <4>1, MachineAssumption
      <4>3. Unshipped' = TotalOutput'
        BY Zenon DEF Unshipped, TotalOutput
      <4>. QED  BY <3>2, <3>3, <4>2, <4>3 DEF OutputBounded
    <3>4. CASE ~FluidIsBounded
      <4>1. TotalOutput = output + 0 /\ TotalOutput' = output' + 0
        BY <3>4, Zenon DEF TotalOutput
      <4>2. TotalOutput' < OutputCap + (sy + 1) + 0
        BY <1>1, <2>5, <2>6, <3>2, <4>1, MachineAssumption
      <4>3. Unshipped' = TotalOutput'
        BY Zenon DEF Unshipped, TotalOutput
      <4>. QED  BY <3>2, <3>4, <4>2, <4>3 DEF OutputBounded
    <3>. QED  BY <3>3, <3>4
  <2>11. FullOutputBetweenCrafts'
    BY <1>3 DEF FullOutputBetweenCrafts
  <2>. QED  BY <2>8, <2>9, <2>10, <2>11 DEF ProductInv
<1>. QED  BY <1>2, <1>3

(* The buffers when a craft consumes its ingredients, and when the window  *)
(* is opened anew.                                                         *)
LEMMA ConsumeInv ==
  ASSUME BufferInv, HasAll(Ingredients),
         held' = [i \in Ingredients |-> held[i] - Need[i]],
         consumed' = [f \in Fluids |-> consumed[f] + Need[f]],
         supplied' = supplied, atReset' = atReset
  PROVE  BufferInv'
<1>1. ASSUME NEW i \in Ingredients
      PROVE  held[i] \in Nat /\ Need[i] \in Nat /\ held[i] >= Need[i] /\ held[i] <= Cap(i)
             /\ Cap(i) \in Nat
  BY CapType, MachineAssumption DEF BufferInv, BuffersWithinCap, HasAll, Ingredients
<1>2. ASSUME NEW i \in Ingredients PROVE held[i] - Need[i] \in Nat /\ held[i] - Need[i] <= Cap(i)
  BY <1>1
<1>3. held' \in [Ingredients -> Nat]
  BY <1>2
<1>4. consumed' \in [Fluids -> Nat]
  BY <1>1 DEF BufferInv, Ingredients
<1>5. BuffersWithinCap'
  BY <1>2 DEF BuffersWithinCap, Cap
<1>6. FluidAttributed'
  <2> SUFFICES ASSUME NEW f \in Fluids
               PROVE  held'[f] = atReset'[f] + supplied'[f] - consumed'[f]
    BY DEF FluidAttributed
  <2>1. f \in Ingredients
    BY DEF Ingredients
  <2>2. held[f] = atReset[f] + supplied[f] - consumed[f]
    BY DEF BufferInv, FluidAttributed
  <2>3. held'[f] = held[f] - Need[f] /\ consumed'[f] = consumed[f] + Need[f]
    BY <2>1
  <2>. QED  BY <1>1, <2>1, <2>2, <2>3 DEF BufferInv
<1>. QED  BY <1>3, <1>4, <1>5, <1>6 DEF BufferInv

LEMMA ResetInv == ASSUME BufferInv, ResetCounters PROVE BufferInv'
<1>1. /\ held' = held /\ atReset' = [f \in Fluids |-> held[f]]
      /\ supplied' = [f \in Fluids |-> 0] /\ consumed' = [f \in Fluids |-> 0]
  BY DEF ResetCounters
<1>2. held' \in [Ingredients -> Nat] /\ BuffersWithinCap'
  BY <1>1 DEF BufferInv, BuffersWithinCap, Cap
<1>3. ASSUME NEW f \in Fluids PROVE held[f] \in Nat
  BY DEF BufferInv, Ingredients
<1>4. atReset' \in [Fluids -> Nat] /\ supplied' \in [Fluids -> Nat] /\ consumed' \in [Fluids -> Nat]
  BY <1>1, <1>3
<1>5. FluidAttributed'
  BY <1>1, <1>3 DEF FluidAttributed
<1>. QED  BY <1>2, <1>4, <1>5 DEF BufferInv

(* The counters: each way a tick ends advances exactly one of the four.    *)
LEMMA CounterStep ==
  ASSUME CounterInv, Tick \/ ResetCounters
  PROVE  CounterInv'
<1>1. CASE BlockedTick
  BY <1>1 DEF BlockedTick, ClockTick, CounterInv, TicksAttributed, States
<1>2. CASE StarvedTick
  BY <1>2 DEF StarvedTick, ClockTick, CounterInv, TicksAttributed, States
<1>3. ASSUME NEW left, ClockTick, WorkFrom(left) PROVE CounterInv'
  <2>1. crafts' \in Nat
    BY <1>3 DEF WorkFrom, Emit, CounterInv
  <2>2. ticks' = ticks + 1 /\ run' = run + 1 /\ working_ticks' = working_ticks + 1
        /\ output_blocked_ticks' = output_blocked_ticks /\ state' = "Working"
        /\ item_shortage_ticks' = item_shortage_ticks /\ fluid_shortage_ticks' = fluid_shortage_ticks
    BY <1>3 DEF WorkFrom, ClockTick
  <2>. QED  BY <2>1, <2>2 DEF CounterInv, TicksAttributed, States
<1>4. CASE BeginCraft
  BY <1>3, <1>4 DEF BeginCraft
<1>5. CASE ContinueCraft
  BY <1>3, <1>5 DEF ContinueCraft
<1>6. CASE ResetCounters
  BY <1>6 DEF ResetCounters, CounterInv, TicksAttributed, States
<1>. QED  BY <1>1, <1>2, <1>4, <1>5, <1>6 DEF Tick

(* One tick of work on left units keeps the timer and the products.        *)
LEMMA WorkStep ==
  ASSUME TimerInv, ProductInv, TotalOutput < OutputCap, NEW left \in Int, left > 0,
         WorkFrom(left),
         \/ progress <= 0 /\ left = progress + CraftTime /\ begun' = begun + 1
         \/ progress > 0 /\ left = progress /\ begun' = begun
  PROVE  TimerInv' /\ ProductInv'
<1>1. worked' = worked + 1 /\ progress' = left - TickUnit
      /\ IF progress' <= 0 THEN Emit ELSE UNCHANGED <<products, crafts>>
  BY DEF WorkFrom
<1>2. progress \in Int /\ begun \in Nat /\ CraftTime \in Nat /\ TickUnit \in Nat \ {0}
  BY MachineAssumption DEF TimerInv
<1>3. TimerInv'
  BY <1>1, <1>2, TimerStep
<1>4. progress' \in Int /\ begun' \in Nat
  BY <1>3 DEF TimerInv
<1>5. Finished' = Finished + (IF progress' <= 0 THEN 1 ELSE 0)
  <2>1. CASE progress <= 0 /\ begun' = begun + 1
    <3>1. Finished = begun
      BY <1>2, <2>1 DEF Finished
    <3>2. Finished' = IF progress' <= 0 THEN begun + 1 ELSE begun
      BY <1>2, <1>4, <2>1 DEF Finished
    <3>. QED  BY <1>2, <3>1, <3>2
  <2>2. CASE progress > 0 /\ begun' = begun
    <3>1. Finished = begun - 1
      BY <1>2, <2>2 DEF Finished
    <3>2. Finished' = IF progress' <= 0 THEN begun ELSE begun - 1
      BY <1>2, <1>4, <2>2 DEF Finished
    <3>. QED  BY <1>2, <3>1, <3>2
  <2>. QED  BY <2>1, <2>2
<1>. QED  BY <1>1, <1>3, <1>4, <1>5, ProductStep

(* What a step that leaves a group of variables alone keeps.               *)
LEMMA KeepsBuffers ==
  ASSUME BufferInv, UNCHANGED <<held, supplied, consumed, atReset>>
  PROVE  BufferInv'
BY DEF BufferInv, BuffersWithinCap, FluidAttributed, Cap

LEMMA KeepsTimerAndProducts ==
  ASSUME TimerInv, ProductInv,
         UNCHANGED <<progress, begun, worked, debt, output, fluid_output, emitted>>
  PROVE  TimerInv' /\ ProductInv'
<1>1. TimerInv' /\ Finished' = Finished
  BY DEF TimerInv, CraftTimer, Finished
<1>2. TotalOutput' = TotalOutput /\ Unshipped' = Unshipped
  BY Zenon DEF TotalOutput, Unshipped
<1>3. FullOutputBetweenCrafts' /\ EmissionExact' /\ OutputBounded'
  BY <1>1, <1>2 DEF ProductInv, FullOutputBetweenCrafts, EmissionExact, OutputBounded
<1>. QED  BY <1>1, <1>3 DEF ProductInv

LEMMA KeepsGroups ==
  ASSUME TimerInv, BufferInv, ProductInv, CounterInv',
         UNCHANGED <<progress, begun, worked, held, supplied, consumed, atReset,
                     debt, output, fluid_output, emitted>>
  PROVE  MInv'
<1>1. BufferInv' /\ TimerInv' /\ ProductInv'
  BY KeepsBuffers, KeepsTimerAndProducts
<1>. QED  BY <1>1 DEF MInv

LEMMA KeepsRest ==
  ASSUME TimerInv, ProductInv, CounterInv, BufferInv',
         UNCHANGED <<progress, begun, worked, debt, output, fluid_output, emitted, state,
                     crafts, working_ticks, output_blocked_ticks, item_shortage_ticks,
                     fluid_shortage_ticks, ticks, run>>
  PROVE  MInv'
<1>1. TimerInv' /\ ProductInv'
  BY KeepsTimerAndProducts
<1>2. CounterInv'
  BY DEF CounterInv, TicksAttributed
<1>. QED  BY <1>1, <1>2 DEF MInv

(* Every step of the machine and of its callers keeps the invariant.       *)
LEMMA MachineStep == MInv /\ [Next]_vars => MInv'
<1> SUFFICES ASSUME MInv, [Next]_vars PROVE MInv'
  OBVIOUS
<1>. USE DEF MInv
<1>1. CASE BlockedTick \/ StarvedTick
  <2>1. CounterInv'
    BY <1>1, CounterStep DEF Tick
  <2>2. UNCHANGED <<progress, begun, worked, held, supplied, consumed, atReset,
                    debt, output, fluid_output, emitted>>
    BY <1>1 DEF BlockedTick, StarvedTick, buffers, products
  <2>. QED  BY <2>1, <2>2, KeepsGroups
<1>2. CASE BeginCraft
  <2>1. CounterInv'
    BY <1>2, CounterStep DEF Tick
  <2>2. BufferInv'
    BY <1>2, ConsumeInv DEF BeginCraft, WorkFrom
  <2>3. TimerInv' /\ ProductInv'
    <3>1. progress + CraftTime \in Int /\ progress + CraftTime > 0
      BY MachineAssumption DEF TimerInv, CraftTimer
    <3>. QED  BY <1>2, <3>1, WorkStep DEF BeginCraft
  <2>. QED  BY <2>1, <2>2, <2>3
<1>3. CASE ContinueCraft
  <2>1. CounterInv'
    BY <1>3, CounterStep DEF Tick
  <2>2. UNCHANGED <<held, supplied, consumed, atReset>>
    BY <1>3 DEF ContinueCraft, WorkFrom
  <2>3. TimerInv' /\ ProductInv'
    BY <1>3, WorkStep DEF ContinueCraft, TimerInv
  <2>. QED  BY <2>1, <2>2, <2>3, KeepsBuffers
<1>4. ASSUME NEW n \in 1..Hand, NEW i \in Solids, Insert(i, n) PROVE MInv'
  <2>1. BufferInv'
    <3>1. n \in Nat /\ i \in Ingredients /\ i \notin Fluids
      BY MachineAssumption DEF Ingredients
    <3>2. /\ held' = [held EXCEPT ![i] = @ + LesserOf(n, Room(i))]
          /\ supplied' = supplied
          /\ consumed' = consumed /\ atReset' = atReset
      BY <1>4 DEF Insert
    <3>. QED  BY <3>1, <3>2, InsertInv
  <2>2. UNCHANGED <<progress, begun, worked, debt, output, fluid_output, emitted, state,
                    crafts, working_ticks, output_blocked_ticks, item_shortage_ticks,
                    fluid_shortage_ticks, ticks, run>>
    BY <1>4 DEF Insert, products, counters, clock
  <2>. QED  BY <2>1, <2>2, KeepsRest
<1>5. ASSUME NEW n \in 1..Hand, NEW f \in Fluids, InsertFluid(f, n) PROVE MInv'
  <2>1. BufferInv'
    <3>1. n \in Nat /\ f \in Ingredients /\ f \notin Solids
      BY MachineAssumption DEF Ingredients
    <3>2. /\ held' = [held EXCEPT ![f] = @ + LesserOf(n, Room(f))]
          /\ supplied' = [supplied EXCEPT ![f] = @ + LesserOf(n, Room(f))]
          /\ consumed' = consumed /\ atReset' = atReset
      BY <1>5 DEF InsertFluid
    <3>. QED  BY <3>1, <3>2, InsertInv
  <2>2. UNCHANGED <<progress, begun, worked, debt, output, fluid_output, emitted, state,
                    crafts, working_ticks, output_blocked_ticks, item_shortage_ticks,
                    fluid_shortage_ticks, ticks, run>>
    BY <1>5 DEF InsertFluid, products, counters, clock
  <2>. QED  BY <2>1, <2>2, KeepsRest
<1>6. ASSUME NEW n \in 1..Hand, TakeOutput(n) \/ TakeFluid(n) PROVE MInv'
  <2>1. UNCHANGED <<progress, begun, worked, held, supplied, consumed, atReset, state, crafts,
                    working_ticks, output_blocked_ticks, item_shortage_ticks,
                    fluid_shortage_ticks, ticks, run>>
    BY <1>6 DEF TakeOutput, TakeFluid, buffers, counters, clock
  <2>2. ProductInv'
    <3>1. n \in Nat /\ output \in Nat /\ fluid_output \in Nat
      BY DEF ProductInv
    <3>2. CASE TakeOutput(n)
      <4>1. LesserOf(n, output) \in Nat /\ LesserOf(n, output) <= output
        BY <3>1, Lesser
      <4>2. progress' = progress /\ begun' = begun /\ debt' = debt /\ emitted' = emitted
            /\ output' = output - LesserOf(n, output) /\ fluid_output' = fluid_output - 0
        BY <3>1, <3>2 DEF TakeOutput
      <4>. QED  BY <3>1, <4>1, <4>2, TakeInv
    <3>3. CASE TakeFluid(n)
      <4>1. LesserOf(n, fluid_output) \in Nat /\ LesserOf(n, fluid_output) <= fluid_output
        BY <3>1, Lesser
      <4>2. progress' = progress /\ begun' = begun /\ debt' = debt /\ emitted' = emitted
            /\ output' = output - 0 /\ fluid_output' = fluid_output - LesserOf(n, fluid_output)
        BY <3>1, <3>3 DEF TakeFluid
      <4>3. PICK taken \in Nat, drawn \in Nat :
              /\ taken <= output /\ drawn <= fluid_output
              /\ output' = output - taken /\ fluid_output' = fluid_output - drawn
        <5>1. LesserOf(n, fluid_output) \in Nat
          BY <4>1
        <5>2. 0 <= output
          BY <3>1
        <5>. WITNESS 0 \in Nat, LesserOf(n, fluid_output) \in Nat
        <5>. QED  BY <4>1, <4>2, <5>2
      <4>. QED  BY <4>2, <4>3, TakeInv
    <3>. QED  BY <1>6, <3>2, <3>3
  <2>3. TimerInv' /\ CounterInv'
    BY <2>1 DEF TimerInv, CraftTimer, CounterInv, TicksAttributed
  <2>. QED  BY <2>1, <2>2, <2>3, KeepsBuffers
<1>7. CASE ResetCounters
  <2>1. BufferInv'
    BY <1>7, ResetInv
  <2>2. CounterInv'
    BY <1>7, CounterStep
  <2>3. UNCHANGED <<progress, begun, worked, debt, output, fluid_output, emitted>>
    BY <1>7 DEF ResetCounters, products
  <2>. QED  BY <2>1, <2>2, <2>3, KeepsTimerAndProducts
<1>8. CASE UNCHANGED vars
  <2>1. UNCHANGED <<progress, begun, worked, held, supplied, consumed, atReset,
                    debt, output, fluid_output, emitted, state,
                    crafts, working_ticks, output_blocked_ticks, item_shortage_ticks,
                    fluid_shortage_ticks, ticks, run>>
    BY <1>8 DEF vars, buffers, products, counters, clock
  <2>2. CounterInv'
    BY <2>1 DEF CounterInv, TicksAttributed
  <2>. QED  BY <2>1, <2>2, KeepsGroups
<1>. QED
  BY <1>1, <1>2, <1>3, <1>4, <1>5, <1>6, <1>7, <1>8 DEF Next, Tick

(* Timer, buffers, counters and products of a machine are accounted for    *)
(* in every order of the calls on it (Machine, machine.rs).                *)
THEOREM MachineInvariant == Spec => []MInv
BY MachineInit, MachineStep, PTL DEF Spec

(* The machine's variables keep their types under every order of calls.    *)
THEOREM TypeCorrect == Spec => []TypeOK
<1>1. MInv => TypeOK
  BY DEF MInv, TimerInv, BufferInv, CounterInv, ProductInv, TypeOK
<1>. QED  BY <1>1, MachineInvariant, PTL

(* No order of inserter and pipe calls overfills an ingredient buffer.     *)
THEOREM NeverOverfilled == Spec => []BuffersWithinCap
<1>1. MInv => BuffersWithinCap
  BY DEF MInv, BufferInv
<1>. QED  BY <1>1, MachineInvariant, PTL

(* A full output never freezes a craft that has begun.                     *)
THEOREM NoFrozenCraft == Spec => []FullOutputBetweenCrafts
<1>1. MInv => FullOutputBetweenCrafts
  BY DEF MInv, ProductInv
<1>. QED  BY <1>1, MachineInvariant, PTL

(* The machine keeps to its prototype rate over a run of any length.       *)
THEOREM NoTimeLost == Spec => []CraftTimer
<1>1. MInv => CraftTimer
  BY DEF MInv, TimerInv
<1>. QED  BY <1>1, MachineInvariant, PTL

(* Every tick of a window is attributed exactly once.                      *)
THEOREM AttributionComplete == Spec => []TicksAttributed
<1>1. MInv => TicksAttributed
  BY DEF MInv, CounterInv
<1>. QED  BY <1>1, MachineInvariant, PTL

(* The fluid counters of a window account for the fluid boxes.             *)
THEOREM FluidAccounted == Spec => []FluidAttributed
<1>1. MInv => FluidAttributed
  BY DEF MInv, BufferInv
<1>. QED  BY <1>1, MachineInvariant, PTL

(* Emission is the expectation of the finished crafts, rounded down.       *)
THEOREM NothingRoundedAway == Spec => []EmissionExact
<1>1. MInv => EmissionExact
  BY DEF MInv, ProductInv
<1>. QED  BY <1>1, MachineInvariant, PTL

(* The output never passes its cap by a whole craft.                       *)
THEOREM OvershootBounded == Spec => []OutputBounded
<1>1. MInv => OutputBounded
  BY DEF MInv, ProductInv
<1>. QED  BY <1>1, MachineInvariant, PTL
=============================================================================

------------------------------ MODULE BeltLane ------------------------------
(***************************************************************************)
(* One lane of one belt tile of the meter (crates/meter/src/belt.rs) as a  *)
(* value and the operations of Lane on it.                                 *)
(*                                                                         *)
(* A lane has two parallel arrays: slots, where 0 is the entry, and        *)
(* offsets, the part of each item's continuous position that does not fit  *)
(* the slot grid.  Lengths are in units of 1 / Unit of a slot (an item     *)
(* spacing), fine enough to make the belt speeds, the half-slot collision  *)
(* window and the entry points of sideloads whole numbers.  phase is the   *)
(* tier's progress since its last whole-slot step.                         *)
(***************************************************************************)
EXTENDS Integers, FiniteSets

CONSTANT Unit      \* units per item spacing

ASSUME UnitAssumption == Unit \in Nat \ {0} /\ Unit % 2 = 0

Empty == 0         \* no item; items are positive numbers
Window == Unit \div 2   \* DROP_COLLISION_WINDOW_SLOTS

NewLane(n) == [slots |-> [i \in 0..(n - 1) |-> Empty],
               offsets |-> [i \in 0..(n - 1) |-> 0]]

SlotsOf(lane) == DOMAIN lane.slots
Exit(lane) == CHOOSE i \in SlotsOf(lane) : \A j \in SlotsOf(lane) : j <= i
Occupied(lane) == {i \in SlotsOf(lane) : lane.slots[i] # Empty}
Free(lane) == {i \in SlotsOf(lane) : lane.slots[i] = Empty}
ItemsOn(lane) == {lane.slots[i] : i \in Occupied(lane)}

Put(lane, i, item, offset) ==
  [slots |-> [lane.slots EXCEPT ![i] = item],
   offsets |-> [lane.offsets EXCEPT ![i] = offset]]

Without(lane, taken) ==
  [slots |-> [i \in SlotsOf(lane) |-> IF i \in taken THEN Empty ELSE lane.slots[i]],
   offsets |-> [i \in SlotsOf(lane) |-> IF i \in taken THEN 0 ELSE lane.offsets[i]]]

(* Entry: the first slot or nothing.                                       *)
EntryFree(lane) == 0 \in Free(lane)
EnterAt(lane, item, offset) == Put(lane, 0, item, offset)

ExitItem(lane) == lane.slots[Exit(lane)]
ExitOffset(lane) == lane.offsets[Exit(lane)]

(* At most max accepted items, the most downstream first.                  *)
Takes(lane, accepted, max) ==
  LET wanted == {i \in Occupied(lane) : lane.slots[i] \in accepted}
  IN  {i \in wanted : Cardinality({j \in wanted : j > i}) < max}

\* Slot i receives the item behind it exactly when it or a slot ahead of it
\* is free: the lane is worked from the exit, so free slots cascade.
Clears(lane, i) == \E j \in Free(lane) : j >= i

Shifted(lane, content, nothing) ==
  [i \in SlotsOf(lane) |->
     IF ~Clears(lane, i) THEN content[i]
     ELSE IF i = 0 THEN nothing ELSE content[i - 1]]

ShiftForward(lane) ==
  [slots |-> Shifted(lane, lane.slots, Empty),
   offsets |-> Shifted(lane, lane.offsets, 0)]
-----------------------------------------------------------------------------
(* Insertion at a continuous position.                                     *)
Distance(a, b) == IF a <= b THEN b - a ELSE a - b
GridPoint(i, phase) == i * Unit + phase
PointOf(lane, i, phase) == GridPoint(i, phase) + lane.offsets[i]

Nearby(lane, position, phase) ==
  {i \in Occupied(lane) : Distance(PointOf(lane, i, phase), position) <= Window}

\* The free slot nearest to the position, the upstream one of two.
Nearest(lane, position, phase, i) ==
  LET d(j) == Distance(GridPoint(j, phase), position)
  IN  /\ i \in Free(lane) /\ d(i) <= Window
      /\ \A j \in Free(lane) : d(i) < d(j) \/ (d(i) = d(j) /\ i <= j)

Residual(position, i, phase) == position - GridPoint(i, phase)

\* Mutant: the item at the insertion point is not moved away.
MakeRoomOnTop(lane, free, at) == lane

\* The items between slot at and the free slot move one slot towards the
\* free one, so that slot at can be filled.
MakeRoom(lane, free, at) ==
  LET from(i) == IF free <= i /\ i < at THEN i + 1
                 ELSE IF at < i /\ i <= free THEN i - 1 ELSE i
  IN  [slots |-> [i \in SlotsOf(lane) |-> lane.slots[from(i)]],
       offsets |-> [i \in SlotsOf(lane) |-> lane.offsets[from(i)]]]

ClosestFreeBelow(lane, n, i) ==
  i \in Free(lane) /\ i < n /\ \A j \in Free(lane) : j < n => j <= i
ClosestFreeAbove(lane, n, i) ==
  i \in Free(lane) /\ i > n /\ \A j \in Free(lane) : j > n => j >= i

\* The contiguous block of an inner turn: full from n to the exit with a gap
\* behind.
PackedFrom(lane, n) ==
  /\ \E i \in Free(lane) : i < n
  /\ \A i \in SlotsOf(lane) : i >= n => i \in Occupied(lane)

(* Every lane a try_insert_at of the item leads to; none when it is        *)
(* refused.  mode is "drop" (inserters and sideloads), "merge" (a turn     *)
(* that merges) or "inner" (the inner lane of such a turn).                *)
InsertionsAt(lane, position, phase, item, mode) ==
  LET near == Nearby(lane, position, phase)
      best == {i \in SlotsOf(lane) : Nearest(lane, position, phase, i)}
      placed(l, i) == Put(l, i, item, Residual(position, i, phase))
      nudged(n) ==
        IF PointOf(lane, n, phase) < position
        THEN {placed(MakeRoom(lane, i, n), n) :
                i \in {f \in SlotsOf(lane) : ClosestFreeBelow(lane, n, f)}}
        ELSE {placed(MakeRoom(lane, i, n), n) :
                i \in {f \in SlotsOf(lane) : ClosestFreeAbove(lane, n, f)}}
             \cup
             {placed(lane, i) :
                i \in {f \in SlotsOf(lane) : /\ mode = "merge" /\ PackedFrom(lane, n)
                                             /\ ClosestFreeBelow(lane, n, f)}}
      admits(n) == /\ PointOf(lane, n, phase) # position
                   /\ ~(mode = "inner" /\ PackedFrom(lane, n))
  IN  IF \E a, b \in near : a # b THEN {}
      ELSE IF best # {} THEN {placed(lane, i) : i \in best}
      ELSE UNION {nudged(n) : n \in {k \in near : admits(k)}}
=============================================================================

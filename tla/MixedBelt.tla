----------------------------- MODULE MixedBelt -----------------------------
(***************************************************************************)
(* Inserters that feed one machine from mixed belts: the grab filter and   *)
(* the partial insert of Factory::tick_inserters                           *)
(* (crates/meter/src/factory.rs) on the buffers of one machine.            *)
(*                                                                         *)
(* A grab may find any of the items that its belt carries, in any number   *)
(* and order.  The inserter's own cycle is in Inserter, the machine's in   *)
(* Machine: here a deposit and a craft happen at any time.                 *)
(***************************************************************************)
EXTENDS Integers, Sequences, SequencesExt

CONSTANTS
  Items, Ingredients,  \* what the belts carry, what the recipe takes
  Need,                \* units of an ingredient that a craft takes
  BufferCrafts,        \* crafts that a buffer holds
  Hands,               \* the inserters over the machine
  Carries,             \* items on the pickup belt of each
  HandSize             \* Inserter::hand_size

ASSUME MixedAssumption ==
  /\ Ingredients \subseteq Items
  /\ Need \in [Ingredients -> Nat \ {0}]
  /\ Carries \in [Hands -> SUBSET Items]
  /\ BufferCrafts \in Nat \ {0}
  /\ HandSize \in Nat \ {0}

VARIABLES
  hand,    \* what each inserter carries, first to be dropped first
  buffer   \* Machine.input

vars == <<hand, buffer>>

Init == hand = [i \in Hands |-> <<>>] /\ buffer = [x \in Ingredients |-> 0]

Cap(x) == Need[x] * BufferCrafts

\* Mutants: no filter; the slot that is just full still counts.
AcceptsBlind(x) == TRUE
AcceptsAtCap(x) == x \in Ingredients /\ buffer[x] <= Cap(x)

\* room_for(x) > 0: an ingredient whose buffer is not full.
Accepts(x) == x \in Ingredients /\ buffer[x] < Cap(x)

(* An empty hand closes on items that are each accepted by the machine as  *)
(* it is at that moment; what the hand has just taken is not counted.      *)
Grab(i, load) ==
  /\ hand[i] = <<>>
  /\ load # <<>>
  /\ \A n \in 1..Len(load) : load[n] \in Carries[i] /\ Accepts(load[n])
  /\ hand' = [hand EXCEPT ![i] = load]
  /\ UNCHANGED buffer

CountOf(x, load, n) == Cardinality({m \in 1..n : load[m] = x})

\* The first n items of the load fit, one after the other.
Fits(load, n) ==
  /\ \A m \in 1..n : load[m] \in Ingredients
  /\ \A x \in Ingredients : CountOf(x, load, n) > 0 => buffer[x] + CountOf(x, load, n) <= Cap(x)

\* "Insert what fits, keep the rest": the first n items, and no more.
Moves(load, n) == Fits(load, n) /\ (n < Len(load) => ~Fits(load, n + 1))

Deposit(i) ==
  \E n \in 1..Len(hand[i]) :
    /\ Moves(hand[i], n)
    /\ hand' = [hand EXCEPT ![i] = SubSeq(@, n + 1, Len(@))]
    /\ buffer' = [x \in Ingredients |-> buffer[x] + CountOf(x, hand[i], n)]

\* Nothing fits: the hand stays as it is, and tries again in the next tick.
Hold(i) == hand[i] # <<>> /\ ~Fits(hand[i], 1) /\ UNCHANGED vars

CanCraft == \A x \in Ingredients : buffer[x] >= Need[x]

Craft ==
  /\ CanCraft
  /\ buffer' = [x \in Ingredients |-> buffer[x] - Need[x]]
  /\ UNCHANGED hand

Next ==
  \/ \E i \in Hands : \E load \in BoundedSeq(Items, HandSize) : Grab(i, load)
  \/ \E i \in Hands : Deposit(i) \/ Hold(i)
  \/ Craft

Spec == Init /\ [][Next]_vars

\* The world ticks for ever, and whatever the machine has room for comes
\* along on a belt that carries it.
FairSpec ==
  /\ Spec
  /\ \A i \in Hands : /\ WF_vars(Deposit(i))
                      /\ WF_vars(\E load \in BoundedSeq(Items, HandSize) : Grab(i, load))
  /\ WF_vars(Craft)
-----------------------------------------------------------------------------
TypeOK ==
  /\ hand \in [Hands -> BoundedSeq(Items, HandSize)]
  /\ \A x \in Ingredients : buffer[x] \in 0..Cap(x)

\* The inserter waits with a full hand and no room for what comes first.
Stuck(i) ==
  LET first == hand[i][1]
  IN  hand[i] # <<>> /\ ~(first \in Ingredients /\ buffer[first] < Cap(first))

(* The inserters never block each other and the machine: not every hand    *)
(* carries something the machine has no room for, unless the machine can   *)
(* craft and make room.  Two hands may race for the last room of one       *)
(* ingredient; the loser waits, and the winner must go for another one.    *)
NoGridlock == Hands # {} /\ (\A i \in Hands : Stuck(i)) => CanCraft

(* "Grabbing blind deadlocks the inserter on the first foreign item from a *)
(* mixed belt, because the hand can then never be emptied"                 *)
(* (tick_inserters, of the filter): with it, every hand is emptied.        *)
HandEmpties == \A i \in Hands : hand[i] # <<>> ~> hand[i] = <<>>
=============================================================================

---------------------------- MODULE PlantProofs ----------------------------
(***************************************************************************)
(* The inserters that feed a machine from mixed belts, and the plant that  *)
(* implements them.                                                        *)
(*                                                                         *)
(* The buffers are kept for every hand size, and there are two conditions  *)
(* under which inserters and machine can not block each other, for every   *)
(* recipe and every number of inserters: hands of one item, or an inserter *)
(* of its own for every ingredient.  Without either, TLC finds the         *)
(* gridlock.  Every step of Plant is a step of MixedBelt or leaves the     *)
(* inserters and the machine's solids alone, so the same holds there.      *)
(*                                                                         *)
(* The fluid is a matter of sums.  Total is computed element by element in *)
(* an order nobody chose, so first it is shown to have a value that does   *)
(* not depend on it; then that a pool too small for all is given away to   *)
(* the last unit, and that producers give what is used.  With these, no    *)
(* unit is lost or made, scarcity is shared, and no buffer overflows, for  *)
(* every number of producers and consumers.                                *)
(***************************************************************************)
EXTENDS Plant, FiniteSetTheorems, SequenceTheorems, WellFoundedInduction, TLAPS

\* What a hand carries came from its own belt and belongs to the recipe.
HandsCarryIngredients ==
  \A i \in Hands : \A n \in 1..Len(hand[i]) : hand[i][n] \in Carries[i] \cap Ingredients

\* Some ingredient is the only one on the belt of an inserter, for each.
OwnInserter == \A x \in Ingredients : \E i \in Hands : Carries[i] \cap Ingredients = {x}

IInv == TypeOK /\ HandsCarryIngredients

(* A bounded sequence is a sequence with a bounded length.                 *)
LEMMA BoundedSeqType ==
  ASSUME NEW s \in BoundedSeq(Items, HandSize)
  PROVE  s \in Seq(Items) /\ Len(s) \in 0..HandSize /\ s \in [1..Len(s) -> Items]
BY MixedAssumption DEF BoundedSeq, SeqOf, MixedAssumption

(* What a deposit leaves in the hand is again a hand.                      *)
LEMMA RestOfLoad ==
  ASSUME NEW s \in BoundedSeq(Items, HandSize), NEW n \in 1..Len(s)
  PROVE  /\ SubSeq(s, n + 1, Len(s)) \in BoundedSeq(Items, HandSize)
         /\ Len(SubSeq(s, n + 1, Len(s))) = Len(s) - n
         /\ \A m \in 1..(Len(s) - n) : SubSeq(s, n + 1, Len(s))[m] = s[n + m]
<1>1. s \in Seq(Items) /\ Len(s) \in 0..HandSize /\ s \in [1..Len(s) -> Items]
  BY BoundedSeqType
<1> DEFINE rest == SubSeq(s, n + 1, Len(s))
<1>2. n + 1 \in Int /\ Len(s) \in Int /\ \A i \in (n + 1)..Len(s) : s[i] \in Items
  BY <1>1, MixedAssumption DEF MixedAssumption
<1>3. /\ rest \in Seq(Items)
      /\ Len(rest) = IF n + 1 <= Len(s) THEN Len(s) - (n + 1) + 1 ELSE 0
      /\ \A i \in 1..(Len(s) - (n + 1) + 1) : rest[i] = s[n + 1 + i - 1]
  BY <1>2, SubSeqProperties
<1> HIDE DEF rest
<1>4. /\ Len(s) \in Nat /\ HandSize \in Nat /\ Len(s) <= HandSize
      /\ n \in Int /\ 1 <= n /\ n <= Len(s)
  BY <1>1, MixedAssumption DEF MixedAssumption
<1>5. Len(rest) = Len(s) - n /\ Len(rest) \in 0..HandSize
  BY <1>3, <1>4
<1>6. \A m \in 1..(Len(s) - n) : rest[m] = s[n + m]
  <2> SUFFICES ASSUME NEW m \in 1..(Len(s) - n) PROVE rest[m] = s[n + m]
    OBVIOUS
  <2>1. m \in 1..(Len(s) - (n + 1) + 1) /\ n + 1 + m - 1 = n + m
    BY <1>4
  <2> QED BY <1>3, <2>1
<1>7. rest \in [1..Len(rest) -> Items]
  BY <1>3
<1>8. rest \in BoundedSeq(Items, HandSize)
  BY <1>5, <1>7 DEF BoundedSeq, SeqOf
<1> QED BY <1>5, <1>6, <1>8 DEF rest

(* The items of one kind in a load are counted by a natural number.        *)
LEMMA CountType ==
  ASSUME NEW x, NEW load, NEW n \in Nat
  PROVE  CountOf(x, load, n) \in Nat
<1>1. IsFiniteSet(1..n)
  BY FS_Interval
<1>2. IsFiniteSet({m \in 1..n : load[m] = x})
  BY <1>1, FS_Subset
<1> QED BY <1>2, FS_CardinalityType DEF CountOf

(* Capacities are positive and leave room for at least one craft.          *)
LEMMA CapHoldsCraft ==
  ASSUME NEW x \in Ingredients
  PROVE  Cap(x) \in Nat /\ Need[x] \in Nat \ {0} /\ Cap(x) >= Need[x]
<1>1. Need[x] \in Nat \ {0} /\ BufferCrafts \in Nat \ {0}
  BY MixedAssumption DEF MixedAssumption
<1>2. ASSUME NEW a \in Nat \ {0}, NEW b \in Nat \ {0} PROVE a * b \in Nat /\ a * b >= a
  OBVIOUS
<1> QED BY <1>1, <1>2 DEF Cap

(* The initial state is that of an empty machine and empty hands.          *)
LEMMA InitInv == Init => IInv
<1> SUFFICES ASSUME Init PROVE IInv
  OBVIOUS
<1>1. <<>> \in BoundedSeq(Items, HandSize)
  <2>1. <<>> \in [1..0 -> Items] /\ 0 \in 0..HandSize
    BY MixedAssumption DEF MixedAssumption
  <2> QED BY <2>1 DEF BoundedSeq, SeqOf
<1>2. hand \in [Hands -> BoundedSeq(Items, HandSize)]
  BY <1>1 DEF Init
<1>3. \A x \in Ingredients : buffer[x] \in 0..Cap(x)
  BY CapHoldsCraft DEF Init
<1>4. HandsCarryIngredients
  BY DEF Init, HandsCarryIngredients
<1> QED BY <1>2, <1>3, <1>4 DEF IInv, TypeOK

(* A hand only closes on what is on its belt and in the recipe.            *)
LEMMA GrabKeepsInv ==
  ASSUME IInv, NEW i \in Hands, NEW load \in BoundedSeq(Items, HandSize), Grab(i, load)
  PROVE  IInv'
<1>1. hand' \in [Hands -> BoundedSeq(Items, HandSize)] /\ hand'[i] = load
  BY DEF Grab, IInv, TypeOK
<1>2. \A j \in Hands : j # i => hand'[j] = hand[j]
  BY DEF Grab, IInv, TypeOK
<1>3. \A n \in 1..Len(load) : load[n] \in Carries[i] \cap Ingredients
  BY DEF Grab, Accepts
<1>4. HandsCarryIngredients'
  BY <1>1, <1>2, <1>3 DEF IInv, HandsCarryIngredients
<1>5. \A x \in Ingredients : buffer'[x] \in 0..Cap(x)
  BY DEF Grab, IInv, TypeOK
<1> QED BY <1>1, <1>4, <1>5 DEF IInv, TypeOK, Cap

(* A partial insert fills no buffer beyond its cap and leaves the rest of  *)
(* the load in the hand, in its order.                                     *)
LEMMA DepositKeepsInv ==
  ASSUME IInv, NEW i \in Hands, Deposit(i)
  PROVE  IInv'
<1>1. PICK n \in 1..Len(hand[i]) :
        /\ Fits(hand[i], n)
        /\ hand' = [hand EXCEPT ![i] = SubSeq(hand[i], n + 1, Len(hand[i]))]
        /\ buffer' = [x \in Ingredients |-> buffer[x] + CountOf(x, hand[i], n)]
  BY DEF Deposit, Moves
<1> DEFINE rest == SubSeq(hand[i], n + 1, Len(hand[i]))
<1>2. hand[i] \in BoundedSeq(Items, HandSize) /\ Len(hand[i]) \in Nat
  BY BoundedSeqType DEF IInv, TypeOK
<1>3. /\ rest \in BoundedSeq(Items, HandSize)
      /\ Len(rest) = Len(hand[i]) - n
      /\ \A m \in 1..(Len(hand[i]) - n) : rest[m] = hand[i][n + m]
  BY <1>2, RestOfLoad
<1>4. hand' \in [Hands -> BoundedSeq(Items, HandSize)] /\ hand'[i] = rest
  BY <1>1, <1>3 DEF IInv, TypeOK
<1>5. \A j \in Hands : j # i => hand'[j] = hand[j]
  BY <1>1 DEF IInv, TypeOK
<1>6. \A m \in 1..Len(rest) : rest[m] \in Carries[i] \cap Ingredients
  BY <1>2, <1>3 DEF IInv, HandsCarryIngredients
<1>7. HandsCarryIngredients'
  BY <1>4, <1>5, <1>6 DEF IInv, HandsCarryIngredients
<1>8. ASSUME NEW x \in Ingredients PROVE buffer'[x] \in 0..Cap(x)
  <2>1. buffer[x] \in 0..Cap(x) /\ Cap(x) \in Nat
    BY CapHoldsCraft DEF IInv, TypeOK
  <2>2. CountOf(x, hand[i], n) \in Nat
    BY <1>2, CountType
  <2>3. CountOf(x, hand[i], n) > 0 => buffer[x] + CountOf(x, hand[i], n) <= Cap(x)
    BY <1>1 DEF Fits
  <2>4. buffer'[x] = buffer[x] + CountOf(x, hand[i], n)
    BY <1>1
  <2> HIDE DEF rest
  <2> QED BY <2>1, <2>2, <2>3, <2>4
<1>9. \A x \in Ingredients : buffer'[x] \in 0..(Cap(x))'
  BY <1>8 DEF Cap
<1> QED BY <1>4, <1>7, <1>9 DEF IInv, TypeOK

(* A craft takes what the buffers hold.                                    *)
LEMMA CraftKeepsInv ==
  ASSUME IInv, Craft
  PROVE  IInv'
<1>1. ASSUME NEW x \in Ingredients PROVE buffer'[x] \in 0..Cap(x)
  <2>1. buffer[x] \in 0..Cap(x) /\ Cap(x) \in Nat /\ Need[x] \in Nat /\ buffer[x] >= Need[x]
    BY CapHoldsCraft DEF IInv, TypeOK, Craft, CanCraft
  <2>2. buffer'[x] = buffer[x] - Need[x]
    BY DEF Craft
  <2> QED BY <2>1, <2>2
<1>2. \A x \in Ingredients : buffer'[x] \in 0..(Cap(x))'
  BY <1>1 DEF Cap
<1> QED BY <1>2 DEF IInv, TypeOK, HandsCarryIngredients, Craft

(* Every reachable state has buffers within their caps and hands that only *)
(* carry ingredients from their own belts.                                 *)
THEOREM MixedInvariant == Spec => []IInv
<1>1. ASSUME IInv, [Next]_vars PROVE IInv'
  <2>1. CASE \E i \in Hands : Deposit(i)
    BY <1>1, <2>1, DepositKeepsInv
  <2>2. CASE \E i \in Hands : \E load \in BoundedSeq(Items, HandSize) : Grab(i, load)
    BY <1>1, <2>2, GrabKeepsInv
  <2>3. CASE Craft
    BY <1>1, <2>3, CraftKeepsInv
  <2>4. CASE UNCHANGED vars
    BY <1>1, <2>4 DEF IInv, TypeOK, HandsCarryIngredients, Cap, vars
  <2> QED BY <1>1, <2>1, <2>2, <2>3, <2>4 DEF Next, Hold
<1> QED BY <1>1, InitInv, PTL DEF Spec

(* No buffer is filled beyond its cap, whatever the hand size and however  *)
(* grabs, partial inserts and crafts interleave.                           *)
THEOREM TypeCorrect == Spec => []TypeOK
<1>1. IInv => TypeOK
  BY DEF IInv
<1> QED BY <1>1, MixedInvariant, PTL

-----------------------------------------------------------------------------
(* Hands of one item: a hand that is stuck lost a race for the last room,  *)
(* and the one that won it is empty now.                                   *)

(* After a deposit a hand of one item is empty.                            *)
LEMMA DepositEmpties ==
  ASSUME HandSize = 1, IInv, NEW i \in Hands, Deposit(i)
  PROVE  hand'[i] = <<>>
<1>1. PICK n \in 1..Len(hand[i]) :
        hand' = [hand EXCEPT ![i] = SubSeq(hand[i], n + 1, Len(hand[i]))]
  BY DEF Deposit
<1>2. hand[i] \in BoundedSeq(Items, HandSize)
  BY DEF IInv, TypeOK
<1>3. Len(hand[i]) \in 0..1
  BY <1>2, BoundedSeqType
<1>4. n + 1 \in Int /\ Len(hand[i]) \in Int /\ Len(hand[i]) < n + 1
  <2>1. PICK length \in 0..1 : Len(hand[i]) = length
    BY <1>3
  <2>2. n \in 1..length
    BY <2>1
  <2> QED BY <2>1, <2>2
<1>5. SubSeq(hand[i], n + 1, Len(hand[i])) = <<>>
  BY <1>4, SubSeqEmpty
<1> QED BY <1>1, <1>5 DEF IInv, TypeOK

(* NoGridlock is kept by every action; a craft makes room in every buffer. *)
LEMMA OneItemKeepsGoing ==
  ASSUME HandSize = 1, IInv, NoGridlock, [Next]_vars
  PROVE  NoGridlock'
<1>1. ASSUME NEW i \in Hands, Deposit(i) PROVE NoGridlock'
  <2>1. hand'[i] = <<>>
    BY <1>1, DepositEmpties
  <2> QED BY <2>1 DEF NoGridlock, Stuck
<1>2. ASSUME NEW i \in Hands, NEW load \in BoundedSeq(Items, HandSize), Grab(i, load)
      PROVE  NoGridlock'
  <2>1. hand'[i] = load /\ buffer' = buffer
    BY <1>2 DEF Grab, IInv, TypeOK
  <2>2. load # <<>> /\ \A n \in 1..Len(load) : Accepts(load[n])
    BY <1>2 DEF Grab
  <2>3. 1 \in 1..Len(load)
    BY <2>2, BoundedSeqType
  <2>4. Accepts(load[1])
    BY <2>2, <2>3
  <2>5. Accepts(load[1])'
    BY <2>1, <2>4 DEF Accepts, Cap
  <2>6. ~Stuck(i)'
    BY <2>1, <2>5 DEF Stuck, Accepts
  <2> QED BY <2>6 DEF NoGridlock
<1>3. ASSUME Craft PROVE NoGridlock'
  <2>1. ASSUME NEW i \in Hands PROVE ~Stuck(i)'
    <3>1. CASE hand[i] = <<>>
      BY <1>3, <3>1 DEF Craft, Stuck
    <3>2. CASE hand[i] # <<>>
      <4>1. 1 \in 1..Len(hand[i])
        <5>1. hand[i] \in BoundedSeq(Items, HandSize)
          BY DEF IInv, TypeOK
        <5> QED BY <3>2, <5>1, BoundedSeqType
      <4>2. hand[i][1] \in Ingredients
        BY <4>1 DEF IInv, HandsCarryIngredients
      <4>3. PICK x \in Ingredients : hand[i][1] = x
        BY <4>2
      <4>4. buffer[x] \in 0..Cap(x) /\ Need[x] \in Nat \ {0} /\ Cap(x) \in Nat
        BY CapHoldsCraft DEF IInv, TypeOK
      <4>5. buffer'[x] = buffer[x] - Need[x] /\ hand' = hand
        BY <1>3 DEF Craft
      <4>6. buffer'[x] < Cap(x)
        BY <4>4, <4>5
      <4>7. Accepts(x)'
        BY <4>6 DEF Accepts, Cap
      <4> QED BY <4>3, <4>5, <4>7 DEF Stuck, Accepts
    <3> QED BY <3>1, <3>2
  <2> QED BY <2>1 DEF NoGridlock
<1>4. CASE UNCHANGED vars
  BY <1>4 DEF NoGridlock, Stuck, Accepts, CanCraft, Cap, vars
<1> QED BY <1>1, <1>2, <1>3, <1>4 DEF Next, Hold

(* With hands of one item no belt mix, recipe or number of inserters can   *)
(* make the inserters block each other and the machine.                    *)
THEOREM OneItemHandsNeverGridlock == HandSize = 1 => (Spec => []NoGridlock)
<1> SUFFICES ASSUME HandSize = 1 PROVE Spec => []NoGridlock
  OBVIOUS
<1>1. Init => NoGridlock
  BY DEF Init, NoGridlock, Stuck
<1>2. IInv /\ NoGridlock /\ [Next]_vars => NoGridlock'
  BY OneItemKeepsGoing
<1> QED BY <1>1, <1>2, MixedInvariant, PTL DEF Spec

-----------------------------------------------------------------------------
(* An inserter of its own for each ingredient: if that one is stuck, its   *)
(* ingredient is there in full, so that all being stuck lets the machine   *)
(* craft.                                                                  *)
THEOREM OwnInsertersNeverGridlock == OwnInserter => (Spec => []NoGridlock)
<1> SUFFICES ASSUME OwnInserter PROVE Spec => []NoGridlock
  OBVIOUS
<1>1. ASSUME IInv PROVE NoGridlock
  <2> SUFFICES ASSUME \A i \in Hands : Stuck(i), NEW x \in Ingredients
               PROVE  buffer[x] >= Need[x]
    BY DEF NoGridlock, CanCraft
  <2>1. PICK i \in Hands : Carries[i] \cap Ingredients = {x}
    BY DEF OwnInserter
  <2>2. hand[i] # <<>> /\ hand[i] \in BoundedSeq(Items, HandSize) /\ ~Accepts(hand[i][1])
    BY <1>1 DEF Stuck, Accepts, IInv, TypeOK
  <2>3. 1 \in 1..Len(hand[i])
    BY <2>2, BoundedSeqType
  <2>4. hand[i][1] = x
    BY <1>1, <2>1, <2>3 DEF IInv, HandsCarryIngredients
  <2>5. ~(buffer[x] < Cap(x))
    BY <2>2, <2>4 DEF Accepts
  <2>6. buffer[x] \in 0..Cap(x) /\ Need[x] \in Nat /\ Cap(x) \in Nat /\ Cap(x) >= Need[x]
    BY <1>1, CapHoldsCraft DEF IInv, TypeOK
  <2> QED BY <2>5, <2>6
<1> QED BY <1>1, MixedInvariant, PTL

-----------------------------------------------------------------------------
(* The plant.                                                              *)

(* A turn of an inserter is one of MixedBelt, with the fluid at rest.      *)
LEMMA TurnIsFeeding ==
  ASSUME NEW i \in Hands, Take(i) \/ Drop(i)
  PROVE  Next
<1>1. CASE Take(i)
  BY <1>1 DEF Take, Next
<1>2. CASE Drop(i)
  BY <1>2 DEF Drop, Next
<1>. QED BY <1>1, <1>2

(* A turn of the machines crafts from the solids or leaves them alone.     *)
LEMMA MachinesCraftOrRest ==
  ASSUME NEW emitting, NEW crafting, MachineTurn(emitting, crafting)
  PROVE  Next \/ UNCHANGED vars
BY DEF MachineTurn, Next

(* The plant's inserters and machine behave as MixedBelt says: the fluid   *)
(* can delay a craft and never adds a move of its own.                     *)
THEOREM PlantFeeds == PlantSpec => Spec
<1>1. PlantInit => Init
  BY DEF PlantInit
<1>2. [PlantNext]_plantVars => [Next]_vars
  <2>. SUFFICES ASSUME [PlantNext]_plantVars PROVE [Next]_vars
    OBVIOUS
  <2>1. CASE \E i \in Hands : Take(i) \/ Drop(i)
    BY <2>1, TurnIsFeeding
  <2>2. CASE \E emitting \in SUBSET Producers, crafting \in SUBSET Consumers : MachineTurn(emitting, crafting)
    BY <2>2, MachinesCraftOrRest
  <2>3. CASE UNCHANGED plantVars
    BY <2>3 DEF plantVars
  <2>. QED BY <2>1, <2>2, <2>3 DEF PlantNext
<1>. QED BY <1>1, <1>2, PTL DEF PlantSpec, Spec

(* With hands of one item, the inserters, the machine and the fluid never  *)
(* come to a stop in which every hand waits for room that only a craft     *)
(* makes while the solids for none are there.                              *)
THEOREM PlantNeverGridlocks == HandSize = 1 => (PlantSpec => []NoGridlock)
BY PlantFeeds, OneItemHandsNeverGridlock, PTL

(* And no buffer of solids ever holds more than its cap, whatever the      *)
(* order in which inserters, machines and fluid take their turns.          *)
THEOREM PlantBuffers == PlantSpec => []TypeOK
BY PlantFeeds, TypeCorrect, PTL
-----------------------------------------------------------------------------
(* Sums over finite sets: Total is computed element by element in an order *)
(* nobody chose, and has a value that does not depend on it.               *)

(* A family of subsets of a finite set has a smallest member.              *)
LEMMA Smallest ==
  ASSUME NEW S, IsFiniteSet(S), NEW F \in SUBSET SUBSET S, F # {}
  PROVE  \E T \in F : \A U \in F : U \subseteq T => U = T
<1> DEFINE R == StrictSubsetOrdering(S)
<1>1. IsWellFoundedOn(R, SUBSET S)
  BY FS_StrictSubsetOrderingWellFounded, FS_FiniteSubsetsOfFinite
<1>2. R = {ss \in (SUBSET S) \X (SUBSET S) : ss[1] \subseteq ss[2] /\ ss[1] # ss[2]}
  BY DEF StrictSubsetOrdering
<1> HIDE DEF R
<1>3. PICK T \in F : \A U \in F : <<U, T>> \notin R
  BY <1>1, WFMin
<1>4. ASSUME NEW U \in F, U \subseteq T PROVE U = T
  BY <1>2, <1>3, <1>4
<1>. QED  BY <1>4

Picked(s) == CHOOSE x \in s : TRUE
Summed(f, g, s) == IF s = {} THEN 0 ELSE f[Picked(s)] + g[s \ {Picked(s)}]
Sums(f, g, S) == g = [s \in SUBSET S |-> Summed(f, g, s)]

LEMMA PickedIsIn == \A s : s # {} => Picked(s) \in s
  BY DEF Picked

LEMMA SumsAgree ==
  ASSUME NEW f, NEW A, IsFiniteSet(A), NEW g, Sums(f, g, A), NEW B, NEW h, Sums(f, h, B),
         NEW s \in SUBSET A, s \in SUBSET B
  PROVE  g[s] = h[s]
<1> SUFFICES ASSUME g[s] # h[s] PROVE FALSE
  OBVIOUS
<1> DEFINE F == {t \in SUBSET A : t \in SUBSET B /\ g[t] # h[t]}
<1>1. PICK t \in F : \A u \in F : u \subseteq t => u = t
  <2>1. F \in SUBSET SUBSET A /\ F # {}
    OBVIOUS
  <2> HIDE DEF F
  <2>. QED  BY <2>1, Smallest
<1>2. g[t] = Summed(f, g, t) /\ h[t] = Summed(f, h, t)
  BY DEF Sums
<1>3. CASE t = {}
  BY <1>2, <1>3 DEF Summed
<1>4. CASE t # {}
  <2>1. Picked(t) \in t
    BY <1>4, PickedIsIn
  <2>2. g[t \ {Picked(t)}] = h[t \ {Picked(t)}]
    BY <1>1, <2>1
  <2>. QED  BY <1>2, <1>4, <2>2 DEF Summed
<1>. QED  BY <1>3, <1>4

LEMMA SumsExist ==
  ASSUME NEW f, NEW S, IsFiniteSet(S)
  PROVE  \E g : Sums(f, g, S)
<1> SUFFICES ASSUME ~\E g : Sums(f, g, S) PROVE FALSE
  OBVIOUS
<1> DEFINE F == {t \in SUBSET S : ~\E g : Sums(f, g, t)}
<1>1. PICK t \in F : \A u \in F : u \subseteq t => u = t
  <2>1. F \in SUBSET SUBSET S /\ F # {}
    OBVIOUS
  <2> HIDE DEF F
  <2>. QED  BY <2>1, Smallest
<1> DEFINE of(u) == CHOOSE g : Sums(f, g, u)
           value(u) == of(u)[u]
           h == [s \in SUBSET t |-> IF s # t THEN value(s)
                                    ELSE IF t = {} THEN 0 ELSE f[Picked(t)] + value(t \ {Picked(t)})]
<1>2. ASSUME NEW u \in SUBSET t, u # t PROVE Sums(f, of(u), u)
  <2>1. \E g : Sums(f, g, u)
    BY <1>1, <1>2
  <2>. QED  BY <2>1
<1> HIDE DEF of
<1>3. ASSUME NEW s \in SUBSET t PROVE h[s] = Summed(f, h, s)
  <2>1. CASE s = {}
    <3>1. CASE t = {}
      BY <2>1, <3>1 DEF Summed
    <3>2. CASE t # {}
      <4>1. of({})[{}] = Summed(f, of({}), {})
        BY <1>2, <3>2 DEF Sums
      <4>. QED  BY <2>1, <3>2, <4>1 DEF Summed
    <3>. QED  BY <3>1, <3>2
  <2>2. CASE s # {}
    <3> DEFINE r == s \ {Picked(s)}
    <3>1. Picked(s) \in s /\ r \in SUBSET t /\ r # t
      BY <2>2, PickedIsIn
    <3>2. h[r] = value(r)
      BY <3>1
    <3>3. CASE s = t
      BY <2>2, <3>2, <3>3 DEF Summed
    <3>4. CASE s # t
      <4>1. of(s)[s] = f[Picked(s)] + of(s)[r]
        BY <1>2, <2>2, <3>4 DEF Sums, Summed
      <4>2. of(s)[r] = of(r)[r]
        <5>1. IsFiniteSet(s)
          BY FS_Subset
        <5>. QED  BY <1>2, <3>1, <3>4, <5>1, SumsAgree
      <4>3. h[s] = of(s)[s]
        BY <3>4
      <4>. QED  BY <2>2, <3>2, <4>1, <4>2, <4>3 DEF Summed
    <3>. QED  BY <3>3, <3>4
  <2>. QED  BY <2>1, <2>2
<1>4. h = [s \in SUBSET t |-> h[s]]
  OBVIOUS
<1> HIDE DEF h
<1>5. Sums(f, h, t)
  BY <1>3, <1>4 DEF Sums
<1>. QED  BY <1>1, <1>5

(* The total of nothing, and one element at a time.                        *)
LEMMA TotalIsSum ==
  ASSUME NEW f, NEW S, IsFiniteSet(S), NEW g, Sums(f, g, S)
  PROVE  Total(f, S) = g[S]
<1>1. Total(f, S) = (CHOOSE h : h = [s \in SUBSET S |-> Summed(f, h, s)])[S]
  BY DEF Total, MapThenSumSet, MapThenFoldSet, Summed, Picked
<1>2. Total(f, S) = (CHOOSE h : Sums(f, h, S))[S]
  BY <1>1 DEF Sums
<1>3. Sums(f, (CHOOSE h : Sums(f, h, S)), S)
  BY SumsExist
<1>. QED  BY <1>2, <1>3, SumsAgree

LEMMA TotalPicked ==
  ASSUME NEW f, NEW S, IsFiniteSet(S)
  PROVE  /\ S = {} => Total(f, S) = 0
         /\ S # {} => Total(f, S) = f[Picked(S)] + Total(f, S \ {Picked(S)})
<1>1. PICK g : Sums(f, g, S)
  BY SumsExist
<1>2. Total(f, S) = g[S] /\ g[S] = Summed(f, g, S)
  BY <1>1, TotalIsSum DEF Sums
<1>3. ASSUME S # {} PROVE g[S \ {Picked(S)}] = Total(f, S \ {Picked(S)})
  <2> DEFINE r == S \ {Picked(S)}
  <2>1. IsFiniteSet(r)
    BY FS_Subset
  <2>2. PICK h : Sums(f, h, r)
    BY <2>1, SumsExist
  <2>. QED  BY <1>1, <2>1, <2>2, SumsAgree, TotalIsSum
<1>. QED  BY <1>2, <1>3 DEF Summed

LEMMA TotalType ==
  ASSUME NEW S, IsFiniteSet(S), NEW f, \A x \in S : f[x] \in Nat
  PROVE  Total(f, S) \in Nat
<1> SUFFICES ASSUME Total(f, S) \notin Nat PROVE FALSE
  OBVIOUS
<1> DEFINE F == {t \in SUBSET S : Total(f, t) \notin Nat}
<1>1. PICK t \in F : \A u \in F : u \subseteq t => u = t
  <2>1. F \in SUBSET SUBSET S /\ F # {}
    OBVIOUS
  <2> HIDE DEF F
  <2>. QED  BY <2>1, Smallest
<1>2. IsFiniteSet(t)
  BY FS_Subset
<1>3. t # {}
  <2>1. t = {} => Total(f, t) = 0
    BY <1>2, TotalPicked
  <2>2. Total(f, t) \notin Nat
    OBVIOUS
  <2> HIDE DEF F
  <2>. QED  BY <2>1, <2>2
<1>4. Picked(t) \in t /\ Total(f, t) = f[Picked(t)] + Total(f, t \ {Picked(t)})
  BY <1>2, <1>3, TotalPicked, PickedIsIn
<1>5. Total(f, t \ {Picked(t)}) \in Nat
  BY <1>1, <1>4
<1>. QED  BY <1>4, <1>5

(* Any element can be the one that is added last.                          *)
LEMMA TotalSplit ==
  ASSUME NEW S, IsFiniteSet(S), NEW f, \A x \in S : f[x] \in Nat, NEW x \in S
  PROVE  Total(f, S) = f[x] + Total(f, S \ {x})
<1> SUFFICES ASSUME Total(f, S) # f[x] + Total(f, S \ {x}) PROVE FALSE
  OBVIOUS
<1> DEFINE F == {t \in SUBSET S : \E y \in t : Total(f, t) # f[y] + Total(f, t \ {y})}
<1>1. PICK t \in F : \A u \in F : u \subseteq t => u = t
  <2>1. F \in SUBSET SUBSET S /\ F # {}
    OBVIOUS
  <2> HIDE DEF F
  <2>. QED  BY <2>1, Smallest
<1>2. PICK y \in t : Total(f, t) # f[y] + Total(f, t \ {y})
  OBVIOUS
<1> DEFINE p == Picked(t)
<1>3. \A u \in SUBSET S : IsFiniteSet(u) /\ Total(f, u) \in Nat
  BY FS_Subset, TotalType
<1>4. p \in t /\ Total(f, t) = f[p] + Total(f, t \ {p})
  BY <1>3, TotalPicked, PickedIsIn
<1> HIDE DEF p
<1>5. p # y
  BY <1>2, <1>4
<1>6. Total(f, t \ {p}) = f[y] + Total(f, (t \ {p}) \ {y})
  BY <1>1, <1>4, <1>5
<1>7. Total(f, t \ {y}) = f[p] + Total(f, (t \ {y}) \ {p})
  BY <1>1, <1>2, <1>4, <1>5
<1>8. (t \ {p}) \ {y} = (t \ {y}) \ {p}
  OBVIOUS
<1> DEFINE rest == Total(f, (t \ {y}) \ {p})
<1>9. f[p] \in Nat /\ f[y] \in Nat /\ rest \in Nat
  BY <1>3, <1>4
<1>10. Total(f, t) = f[p] + (f[y] + rest) /\ Total(f, t \ {y}) = f[p] + rest
  BY <1>4, <1>6, <1>7, <1>8
<1> HIDE DEF rest, F
<1>. QED  BY <1>2, <1>9, <1>10

(* Induction over the subsets of a finite set, with the claim as the set   *)
(* of those it is true of.                                                 *)
LEMMA BySize ==
  ASSUME NEW S, IsFiniteSet(S), NEW F, {} \in F,
         \A T \in SUBSET S : \A x \in T : T \ {x} \in F => T \in F
  PROVE  S \in F
<1> SUFFICES ASSUME S \notin F PROVE FALSE
  OBVIOUS
<1> DEFINE G == {T \in SUBSET S : T \notin F}
<1>1. PICK T \in G : \A U \in G : U \subseteq T => U = T
  <2>1. G \in SUBSET SUBSET S /\ G # {}
    OBVIOUS
  <2> HIDE DEF G
  <2>. QED  BY <2>1, Smallest
<1>2. T # {}
  OBVIOUS
<1>3. PICK x \in T : TRUE
  BY <1>2
<1>4. T \ {x} \in F
  BY <1>1
<1>. QED  BY <1>3, <1>4

LEMMA FiniteHasLast ==
  ASSUME NEW S, IsFiniteSet(S), S \subseteq Nat, S # {}
  PROVE  \E m \in S : \A x \in S : x <= m
<1> DEFINE F == {T \in SUBSET S : T # {} => \E m \in T : \A x \in T : x <= m}
<1>1. {} \in F
  OBVIOUS
<1>2. ASSUME NEW T \in SUBSET S, NEW x \in T, T \ {x} \in F PROVE T \in F
  <2>1. CASE T = {x}
    BY <2>1
  <2>2. CASE T # {x}
    <3>1. PICK m \in T \ {x} : \A y \in T \ {x} : y <= m
      BY <1>2, <2>2
    <3>2. m \in Nat /\ x \in Nat
      OBVIOUS
    <3>3. CASE x <= m
      BY <3>1, <3>3
    <3>4. CASE m < x
      <4>1. \A y \in T : y <= x
        BY <3>1, <3>2, <3>4
      <4>. QED  BY <4>1
    <3>. QED  BY <3>2, <3>3, <3>4
  <2>. QED  BY <2>1, <2>2
<1> HIDE DEF F
<1>3. S \in F
  BY <1>1, <1>2, BySize
<1>. QED  BY <1>3 DEF F

LEMMA TotalEmpty == \A f : Total(f, {}) = 0
  BY TotalPicked, FS_EmptySet

LEMMA TotalSame ==
  ASSUME NEW S, IsFiniteSet(S), NEW f, NEW g, \A x \in S : f[x] \in Nat /\ f[x] = g[x]
  PROVE  Total(f, S) = Total(g, S)
<1> DEFINE F == {T \in SUBSET S : Total(f, T) = Total(g, T)}
<1>1. {} \in F
  BY TotalEmpty
<1>2. ASSUME NEW T \in SUBSET S, NEW x \in T, T \ {x} \in F PROVE T \in F
  <2>1. Total(f, T) = f[x] + Total(f, T \ {x})
    BY FS_Subset, TotalSplit
  <2>2. Total(g, T) = g[x] + Total(g, T \ {x})
    BY FS_Subset, TotalSplit
  <2>. QED  BY <1>2, <2>1, <2>2
<1> HIDE DEF F
<1>3. S \in F
  BY <1>1, <1>2, BySize
<1>. QED  BY <1>3 DEF F

LEMMA TotalPlus ==
  ASSUME NEW S, IsFiniteSet(S), NEW f, NEW g, NEW h,
         \A x \in S : f[x] \in Nat /\ g[x] \in Nat /\ h[x] = f[x] + g[x]
  PROVE  Total(h, S) = Total(f, S) + Total(g, S)
<1> DEFINE F == {T \in SUBSET S : Total(h, T) = Total(f, T) + Total(g, T)}
<1>1. {} \in F
  BY TotalEmpty
<1>2. ASSUME NEW T \in SUBSET S, NEW x \in T, T \ {x} \in F PROVE T \in F
  <2> DEFINE R == T \ {x}
  <2>1. IsFiniteSet(T) /\ IsFiniteSet(R) /\ \A y \in S : h[y] \in Nat
    BY FS_Subset
  <2>2. Total(f, T) = f[x] + Total(f, R)
    BY <2>1, TotalSplit
  <2>3. Total(g, T) = g[x] + Total(g, R)
    BY <2>1, TotalSplit
  <2>4. Total(h, T) = h[x] + Total(h, R)
    BY <2>1, TotalSplit
  <2>5. Total(f, R) \in Nat /\ Total(g, R) \in Nat
    BY <2>1, TotalType
  <2>6. Total(h, R) = Total(f, R) + Total(g, R)
    BY <1>2
  <2>7. f[x] \in Nat /\ g[x] \in Nat /\ h[x] = f[x] + g[x]
    OBVIOUS
  <2>. QED  BY <2>2, <2>3, <2>4, <2>5, <2>6, <2>7
<1> HIDE DEF F
<1>3. S \in F
  BY <1>1, <1>2, BySize
<1>. QED  BY <1>3 DEF F

LEMMA TotalTimes ==
  ASSUME NEW S, IsFiniteSet(S), NEW f, NEW h, NEW k \in Nat,
         \A x \in S : f[x] \in Nat /\ h[x] = k * f[x]
  PROVE  Total(h, S) = k * Total(f, S)
<1> DEFINE F == {T \in SUBSET S : Total(h, T) = k * Total(f, T)}
<1>1. {} \in F
  BY TotalEmpty
<1>2. ASSUME NEW T \in SUBSET S, NEW x \in T, T \ {x} \in F PROVE T \in F
  <2> DEFINE R == T \ {x}
  <2>1. IsFiniteSet(T) /\ IsFiniteSet(R) /\ \A y \in S : h[y] \in Nat
    BY FS_Subset
  <2>2. Total(f, T) = f[x] + Total(f, R) /\ Total(f, R) \in Nat
    BY <2>1, TotalSplit, TotalType
  <2>3. Total(h, T) = h[x] + Total(h, R)
    BY <2>1, TotalSplit
  <2>4. Total(h, R) = k * Total(f, R)
    BY <1>2
  <2>5. f[x] \in Nat /\ h[x] = k * f[x]
    OBVIOUS
  <2> HIDE DEF R
  <2>6. Total(h, T) = k * Total(f, T)
    BY <2>2, <2>3, <2>4, <2>5
  <2>. QED  BY <2>6
<1> HIDE DEF F
<1>3. S \in F
  BY <1>1, <1>2, BySize
<1>. QED  BY <1>3 DEF F

(* The members of T among S, counted.                                      *)
LEMMA TotalCounts ==
  ASSUME NEW S, IsFiniteSet(S), NEW T, NEW f, \A x \in S : f[x] = IF x \in T THEN 1 ELSE 0
  PROVE  Total(f, S) = Cardinality(S \cap T)
<1> DEFINE F == {U \in SUBSET S : Total(f, U) = Cardinality(U \cap T)}
<1>1. {} \in F
  BY TotalEmpty, FS_EmptySet
<1>2. ASSUME NEW U \in SUBSET S, NEW x \in U, U \ {x} \in F PROVE U \in F
  <2>1. IsFiniteSet(U) /\ IsFiniteSet(U \cap T) /\ \A y \in S : f[y] \in Nat
    BY FS_Subset
  <2>2. Total(f, U) = f[x] + Total(f, U \ {x})
    BY <2>1, TotalSplit
  <2>3. Total(f, U \ {x}) = Cardinality((U \ {x}) \cap T)
    BY <1>2
  <2>4. CASE x \in T
    <3>1. (U \ {x}) \cap T = (U \cap T) \ {x}
      OBVIOUS
    <3>2. Cardinality((U \cap T) \ {x}) = Cardinality(U \cap T) - 1
      BY <2>1, <2>4, FS_RemoveElement
    <3>3. Cardinality(U \cap T) \in Nat /\ f[x] = 1
      BY <2>1, <2>4, FS_CardinalityType
    <3>4. Total(f, U \ {x}) = Cardinality(U \cap T) - 1
      BY <2>3, <3>1, <3>2
    <3>5. Total(f, U) = Cardinality(U \cap T)
      BY <2>2, <3>3, <3>4
    <3>. QED  BY <3>5
  <2>5. CASE x \notin T
    <3>1. (U \ {x}) \cap T = U \cap T /\ f[x] = 0
      BY <2>5
    <3>2. Cardinality(U \cap T) \in Nat
      BY <2>1, FS_CardinalityType
    <3>3. Total(f, U) = Cardinality(U \cap T)
      BY <2>2, <2>3, <3>1, <3>2
    <3>. QED  BY <3>3
  <2>. QED  BY <2>4, <2>5
<1> HIDE DEF F
<1>3. S \in F
  BY <1>1, <1>2, BySize
<1>. QED  BY <1>3 DEF F

(* What is 0 outside T can be left out.                                    *)
LEMMA TotalWithin ==
  ASSUME NEW S, IsFiniteSet(S), NEW T \in SUBSET S, NEW f,
         \A x \in S : f[x] \in Nat /\ (x \notin T => f[x] = 0)
  PROVE  Total(f, S) = Total(f, T)
<1> DEFINE F == {U \in SUBSET S : Total(f, U) = Total(f, U \cap T)}
<1>1. {} \in F
  BY TotalEmpty
<1>2. ASSUME NEW U \in SUBSET S, NEW x \in U, U \ {x} \in F PROVE U \in F
  <2>1. IsFiniteSet(U) /\ IsFiniteSet(U \cap T) /\ IsFiniteSet(U \ {x})
    BY FS_Subset
  <2>2. Total(f, U) = f[x] + Total(f, U \ {x}) /\ Total(f, U \ {x}) \in Nat
    BY <2>1, TotalSplit, TotalType
  <2>3. Total(f, U \ {x}) = Total(f, (U \ {x}) \cap T)
    BY <1>2
  <2>4. CASE x \in T
    <3>1. (U \ {x}) \cap T = (U \cap T) \ {x}
      OBVIOUS
    <3>2. Total(f, U \cap T) = f[x] + Total(f, (U \cap T) \ {x})
      BY <2>1, <2>4, TotalSplit
    <3>. QED  BY <2>2, <2>3, <3>1, <3>2
  <2>5. CASE x \notin T
    <3>1. (U \ {x}) \cap T = U \cap T /\ f[x] = 0
      BY <2>5
    <3>2. Total(f, U \ {x}) = Total(f, U \cap T)
      BY <2>3, <3>1
    <3>3. Total(f, U) = Total(f, U \cap T)
      BY <2>2, <3>1, <3>2
    <3>. QED  BY <3>3
  <2>. QED  BY <2>4, <2>5
<1> HIDE DEF F
<1>3. S \in F
  BY <1>1, <1>2, BySize
<1>4. S \cap T = T
  OBVIOUS
<1>. QED  BY <1>3, <1>4 DEF F

LEMMA TotalMonotone ==
  ASSUME NEW S, IsFiniteSet(S), NEW f, NEW g,
         \A x \in S : f[x] \in Nat /\ g[x] \in Nat /\ f[x] <= g[x]
  PROVE  Total(f, S) <= Total(g, S)
<1> DEFINE more == [x \in S |-> g[x] - f[x]]
<1>1. \A x \in S : more[x] \in Nat /\ g[x] = f[x] + more[x]
  OBVIOUS
<1> HIDE DEF more
<1>2. Total(g, S) = Total(f, S) + Total(more, S)
  BY <1>1, TotalPlus
<1>3. Total(f, S) \in Nat /\ Total(more, S) \in Nat
  BY <1>1, TotalType
<1>. QED  BY <1>2, <1>3
LEMMA TotalAtMost ==
  ASSUME NEW S, IsFiniteSet(S), NEW f, NEW k \in Nat, \A x \in S : f[x] \in Nat /\ f[x] <= k
  PROVE  Total(f, S) <= k * Cardinality(S)
<1> DEFINE F == {T \in SUBSET S : Total(f, T) <= k * Cardinality(T)}
<1>1. {} \in F
  BY TotalEmpty, FS_EmptySet
<1>2. ASSUME NEW T \in SUBSET S, NEW x \in T, T \ {x} \in F PROVE T \in F
  <2>1. IsFiniteSet(T) /\ IsFiniteSet(T \ {x})
    BY FS_Subset
  <2>2. Total(f, T) = f[x] + Total(f, T \ {x})
    BY <2>1, TotalSplit
  <2>3. Total(f, T \ {x}) \in Nat
    BY <2>1, TotalType
  <2>4. Cardinality(T \ {x}) = Cardinality(T) - 1 /\ Cardinality(T) \in Nat
    BY <2>1, FS_RemoveElement, FS_CardinalityType
  <2>5. Total(f, T \ {x}) <= k * Cardinality(T \ {x})
    BY <1>2
  <2>6. k * Cardinality(T \ {x}) = k * Cardinality(T) - k
    BY <2>4
  <2>7. f[x] \in Nat /\ f[x] <= k
    OBVIOUS
  <2>8. k * Cardinality(T) \in Int
    BY <2>4
  <2>. QED  BY <2>2, <2>3, <2>5, <2>6, <2>7, <2>8
<1> HIDE DEF F
<1>3. S \in F
  BY <1>1, <1>2, BySize
<1>. QED  BY <1>3 DEF F

-----------------------------------------------------------------------------
(* The shares of a pool.                                                   *)

\* Those of D that are served before c.
Ahead(D, rest, c) == {d \in D : rest[d] > rest[c] \/ (rest[d] = rest[c] /\ d < c)}

LEMMA UpTo ==
  ASSUME NEW n \in Nat
  PROVE  IsFiniteSet(0 .. n - 1) /\ Cardinality(0 .. n - 1) = n
<1>1. 0 \in Int /\ n - 1 \in Int
  OBVIOUS
<1>2. /\ IsFiniteSet(0 .. n - 1)
      /\ Cardinality(0 .. n - 1) = IF 0 > n - 1 THEN 0 ELSE n - 1 - 0 + 1
  BY <1>1, FS_Interval
<1>. QED  BY <1>2

(* A strict order of n elements has exactly k with fewer than k ahead.     *)
LEMMA FirstAreAsMany ==
  ASSUME NEW D, IsFiniteSet(D), D \subseteq Nat, NEW rest, \A c \in D : rest[c] \in Nat,
         NEW k \in 0 .. Cardinality(D)
  PROVE  Cardinality({c \in D : Cardinality(Ahead(D, rest, c)) < k}) = k
<1> DEFINE A(c) == Ahead(D, rest, c)
           rank == [c \in D |-> Cardinality(A(c))]
           n == Cardinality(D)
           first == {c \in D : Cardinality(A(c)) < k}
<1>1. n \in Nat
  BY FS_CardinalityType
<1>2. ASSUME NEW c \in D PROVE IsFiniteSet(A(c)) /\ rank[c] \in 0 .. n - 1
  <2>1. IsFiniteSet(D \ {c}) /\ Cardinality(D \ {c}) = n - 1
    BY FS_RemoveElement
  <2>2. A(c) \in SUBSET (D \ {c})
    BY DEF Ahead
  <2> HIDE DEF A
  <2>3. IsFiniteSet(A(c)) /\ Cardinality(A(c)) <= n - 1
    BY <2>1, <2>2, FS_Subset
  <2>4. Cardinality(A(c)) \in Nat
    BY <2>3, FS_CardinalityType
  <2>. QED  BY <1>1, <2>3, <2>4
<1>3. ASSUME NEW c \in D, NEW d \in A(c) PROVE rank[d] < rank[c]
  <2>1. d \in D /\ d \notin A(d) /\ A(d) \cup {d} \in SUBSET A(c)
    <3>1. d \in D /\ d \notin A(d)
      BY DEF Ahead
    <3>2. ASSUME NEW e \in A(d) PROVE e \in A(c)
      <4>1. /\ e \in D /\ d \in D /\ rest[e] \in Nat /\ rest[d] \in Nat /\ rest[c] \in Nat
            /\ e \in Nat /\ d \in Nat /\ c \in Nat
        BY DEF Ahead
      <4>. QED  BY <4>1 DEF Ahead
    <3>. QED  BY <3>1, <3>2
  <2> HIDE DEF A
  <2>2. /\ IsFiniteSet(A(d)) /\ IsFiniteSet(A(c))
        /\ rank[d] = Cardinality(A(d)) /\ rank[c] = Cardinality(A(c))
        /\ rank[d] \in Int /\ rank[c] \in Int
    BY <1>2, <2>1
  <2> HIDE DEF rank
  <2>3. Cardinality(A(d) \cup {d}) = Cardinality(A(d)) + 1
    BY <2>1, <2>2, FS_AddElement
  <2>4. Cardinality(A(d) \cup {d}) <= Cardinality(A(c))
    BY <2>1, <2>2, FS_Subset
  <2>. QED  BY <2>2, <2>3, <2>4
<1>4. ASSUME NEW c \in D, NEW d \in D, rank[c] = rank[d] PROVE c = d
  <2> SUFFICES ASSUME c # d PROVE FALSE
    OBVIOUS
  <2>1. c \in A(d) \/ d \in A(c)
    <3>1. c \in Nat /\ d \in Nat /\ rest[c] \in Nat /\ rest[d] \in Nat
      OBVIOUS
    <3>. QED  BY <3>1 DEF Ahead
  <2>2. rank[c] \in Int /\ rank[d] \in Int
    BY <1>2
  <2> HIDE DEF A, rank
  <2>. QED  BY <1>3, <1>4, <2>1, <2>2
<1>5. \A i \in 0 .. n - 1 : \E c \in D : rank[c] = i
  <2>1. rank \in [D -> 0 .. n - 1]
    BY <1>2
  <2> HIDE DEF rank, n
  <2>2. rank \in Injection(D, 0 .. n - 1)
    BY <1>4, <2>1 DEF Injection, IsInjective
  <2>3. IsFiniteSet(0 .. n - 1) /\ Cardinality(0 .. n - 1) = n
    BY <1>1, UpTo
  <2>4. rank \in Surjection(D, 0 .. n - 1)
    BY <2>2, <2>3, FS_Injection DEF n
  <2>. QED  BY <2>4 DEF Surjection
<1>6. first \in SUBSET D /\ \A c \in D : c \in first <=> rank[c] < k
  OBVIOUS
<1> HIDE DEF rank, n, first, A
<1> DEFINE ranked == [c \in first |-> rank[c]]
<1>7. ranked \in [first -> 0 .. k - 1]
  BY <1>1, <1>2, <1>6
<1>8. ranked \in Injection(first, 0 .. k - 1)
  BY <1>4, <1>6, <1>7 DEF Injection, IsInjective
<1>9. ranked \in Surjection(first, 0 .. k - 1)
  <2>1. ASSUME NEW i \in 0 .. k - 1 PROVE \E c \in first : ranked[c] = i
    <3>1. i \in 0 .. n - 1 /\ i < k
      BY <1>1 DEF n
    <3>2. PICK c \in D : rank[c] = i
      BY <1>5, <3>1
    <3>. QED  BY <1>6, <3>1, <3>2
  <2>. QED  BY <1>7, <2>1 DEF Surjection
<1>10. k \in Nat
  BY <1>1 DEF n
<1>11. IsFiniteSet(0 .. k - 1) /\ Cardinality(0 .. k - 1) = k
  BY <1>10, UpTo
<1>12. Cardinality(first) = k
  <2> HIDE DEF ranked
  <2>. QED  BY <1>8, <1>9, <1>11, FS_Injection
<1>. QED  BY <1>12 DEF first, A

(* Division, and a factor that cancels.                                    *)
LEMMA Divided ==
  ASSUME NEW a \in Nat, NEW b \in Nat \ {0}
  PROVE  /\ a \div b \in Nat /\ a % b \in Nat /\ a % b < b
         /\ a = b * (a \div b) + (a % b)
  OBVIOUS

LEMMA Cancelled ==
  ASSUME NEW a \in Int, NEW b \in Int, NEW k \in Nat \ {0}
  PROVE  /\ k * a < k * b => a < b
         /\ k * a <= k * b => a <= b
         /\ a <= b => k * a <= k * b
  OBVIOUS

(* Of a pool that is too small all is given away, rounded down and to some *)
(* one unit more: the remainders together are worth fewer units than there *)
(* are consumers, so there is one for each of them to go to.               *)
LEMMA PoolIsShared ==
  ASSUME NEW D, IsFiniteSet(D), D \subseteq Nat, NEW room \in [D -> Nat], NEW pool \in Nat
  PROVE  LET given == Allocation(room, pool)
             all   == Total(room, D)
         IN  /\ given \in [D -> Nat]
             /\ pool >= all => given = room
             /\ pool < all => /\ Total(given, D) = pool
                              /\ \A c \in D : /\ given[c] >= (room[c] * pool) \div all
                                              /\ given[c] <= ((room[c] * pool) \div all) + 1
                                              /\ room[c] # 0 => given[c] <= room[c]
<1> DEFINE all == Total(room, D)
           share == [c \in D |-> (room[c] * pool) \div all]
           rest == [c \in D |-> (room[c] * pool) % all]
           spare == pool - Total(share, D)
           bit == [c \in D |-> IF Cardinality(Ahead(D, rest, c)) < spare THEN 1 ELSE 0]
           given == Allocation(room, pool)
<1>1. DOMAIN room = D /\ all \in Nat /\ \A c \in D : room[c] \in Nat /\ room[c] * pool \in Nat
  <2>1. DOMAIN room = D /\ \A c \in D : room[c] \in Nat
    OBVIOUS
  <2>2. all \in Nat
    BY <2>1, TotalType
  <2>3. \A a, b \in Nat : a * b \in Nat
    OBVIOUS
  <2>. QED  BY <2>1, <2>2, <2>3
<1>2. given = IF pool >= all THEN room ELSE [c \in D |-> share[c] + bit[c]]
  BY <1>1 DEF Allocation, Ahead
<1>3. CASE pool >= all
  BY <1>1, <1>2, <1>3
<1>4. CASE pool < all
  <2>1. all \in Nat \ {0}
    BY <1>1, <1>4
  <2>2. \A c \in D : /\ share[c] \in Nat /\ rest[c] \in Nat /\ rest[c] < all
                     /\ room[c] * pool = all * share[c] + rest[c]
    <3> SUFFICES ASSUME NEW c \in D
                 PROVE  /\ share[c] \in Nat /\ rest[c] \in Nat /\ rest[c] < all
                        /\ room[c] * pool = all * share[c] + rest[c]
      OBVIOUS
    <3>1. share[c] = (room[c] * pool) \div all /\ rest[c] = (room[c] * pool) % all
      OBVIOUS
    <3>2. room[c] * pool \in Nat
      BY <1>1
    <3> HIDE DEF all, share, rest
    <3>. QED  BY <2>1, <3>1, <3>2, Divided
  <2> DEFINE demand == [c \in D |-> pool * room[c]]
             wholes == [c \in D |-> all * share[c]]
             n == Cardinality(D)
  <2> HIDE DEF all, share, rest
  <2>3. \A c \in D : demand[c] = pool * room[c] /\ wholes[c] = all * share[c]
                     /\ demand[c] \in Nat /\ wholes[c] \in Nat
    BY <1>1, <2>1, <2>2
  <2>4. Total(demand, D) = pool * all
    BY <1>1, <2>3, TotalTimes DEF all
  <2>5. Total(wholes, D) = all * Total(share, D)
    BY <2>1, <2>2, <2>3, TotalTimes
  <2>6. Total(demand, D) = Total(wholes, D) + Total(rest, D)
    <3>1. \A c \in D : /\ wholes[c] \in Nat /\ rest[c] \in Nat
                        /\ demand[c] = wholes[c] + rest[c]
      BY <1>1, <2>2, <2>3
    <3> HIDE DEF demand, wholes
    <3>. QED  BY <3>1, TotalPlus
  <2>7. n \in Nat /\ Total(share, D) \in Nat /\ Total(rest, D) \in Nat
    BY <2>2, TotalType, FS_CardinalityType
  <2>8. all * spare = Total(rest, D)
    <3>1. pool * all = all * Total(share, D) + Total(rest, D)
      BY <2>4, <2>5, <2>6
    <3> DEFINE a == Total(share, D)
    <3> HIDE DEF a
    <3>2. all * (pool - a) = all * pool - all * a
      BY <2>1, <2>7 DEF a
    <3>. QED  BY <2>1, <2>7, <3>1, <3>2 DEF a
  <2>9. Total(rest, D) <= all * n
    <3>1. \A c \in D : rest[c] \in Nat /\ rest[c] <= all
      BY <2>1, <2>2
    <3>2. all \in Nat
      BY <2>1
    <3>. QED  BY <3>1, <3>2, TotalAtMost
  <2>10. spare \in 0 .. n
    <3>1. spare \in Int
      BY <2>7
    <3>2. all * spare <= all * n /\ all * 0 <= all * spare
      BY <2>1, <2>7, <2>8, <2>9
    <3> HIDE DEF spare
    <3>3. spare <= n /\ 0 <= spare
      BY <2>1, <2>7, <3>1, <3>2, Cancelled
    <3>. QED  BY <2>7, <3>1, <3>3
  <2>11. Total(bit, D) = spare
    <3> DEFINE first == {c \in D : Cardinality(Ahead(D, rest, c)) < spare}
    <3> HIDE DEF spare
    <3>1. Cardinality(first) = spare
      BY <2>2, <2>10, FirstAreAsMany
    <3>2. \A c \in D : bit[c] = IF c \in first THEN 1 ELSE 0
      OBVIOUS
    <3>3. D \cap first = first
      OBVIOUS
    <3> HIDE DEF bit, first
    <3>. QED  BY <3>1, <3>2, <3>3, TotalCounts
  <2>12. \A c \in D : bit[c] \in Nat /\ bit[c] <= 1
    OBVIOUS
  <2>13. given = [c \in D |-> share[c] + bit[c]]
    BY <1>1, <1>2, <1>4
  <2> HIDE DEF given, bit
  <2>14. \A c \in D : given[c] = share[c] + bit[c]
    BY <2>13
  <2>15. Total(given, D) = Total(share, D) + Total(bit, D)
    <3>1. \A c \in D : share[c] \in Nat /\ bit[c] \in Nat /\ given[c] = share[c] + bit[c]
      BY <2>2, <2>12, <2>14
    <3>. QED  BY <3>1, TotalPlus
  <2>16. given \in [D -> Nat]
    BY <2>2, <2>12, <2>13
  <2>17. Total(given, D) = pool
    BY <2>7, <2>11, <2>15
  <2>18. \A c \in D : given[c] >= share[c] /\ given[c] <= share[c] + 1
    BY <2>2, <2>12, <2>14
  <2>19. ASSUME NEW c \in D, room[c] # 0 PROVE given[c] <= room[c]
    <3>1. room[c] \in Nat \ {0}
      BY <1>1, <2>19
    <3>2. room[c] * pool < room[c] * all
      BY <1>4, <2>1, <3>1
    <3>3. room[c] * all = all * room[c]
      BY <2>1, <3>1
    <3>4. all * share[c] < all * room[c]
      <4>1. share[c] \in Nat /\ rest[c] \in Nat /\ room[c] * pool = all * share[c] + rest[c]
        BY <2>2
      <4>2. all * share[c] \in Nat /\ all * room[c] \in Nat
        BY <2>1, <3>1, <4>1
      <4>3. all * share[c] + rest[c] < all * room[c]
        BY <3>2, <3>3, <4>1
      <4> DEFINE x == all * share[c]
                 y == all * room[c]
      <4> HIDE DEF x, y
      <4>4. x \in Nat /\ y \in Nat /\ x + rest[c] < y
        BY <4>2, <4>3 DEF x, y
      <4>5. x < y
        BY <4>1, <4>4
      <4>. QED  BY <4>5 DEF x, y
    <3>5. share[c] < room[c]
      BY <2>1, <2>2, <3>1, <3>4, Cancelled
    <3>. QED  BY <2>2, <2>18, <3>1, <3>5, <2>16
  <2>. QED  BY <1>1, <1>4, <2>16, <2>17, <2>18, <2>19 DEF given, share, all
<1>. QED  BY <1>1, <1>3, <1>4

(* The lesser and the greater of two numbers.                              *)
LEMMA OfTwo ==
  ASSUME NEW a \in Int, NEW b \in Int
  PROVE  /\ Min({a, b}) = IF a <= b THEN a ELSE b
         /\ Max({a, b}) = IF a >= b THEN a ELSE b
<1>1. \E x \in {a, b} : \A y \in {a, b} : x <= y
  OBVIOUS
<1>2. \E x \in {a, b} : \A y \in {a, b} : x >= y
  OBVIOUS
<1>3. Min({a, b}) \in {a, b} /\ \A y \in {a, b} : Min({a, b}) <= y
  BY <1>1 DEF Min
<1>4. Max({a, b}) \in {a, b} /\ \A y \in {a, b} : Max({a, b}) >= y
  BY <1>2 DEF Max
<1>. QED  BY <1>3, <1>4

(* Producers give in their order, so that the first of them have given     *)
(* all of what they hold or all that was used: together, what was used.    *)
LEMMA WhatIsWithdrawn ==
  ASSUME NEW on \in [Producers -> Nat], NEW used \in Nat, used <= Total(on, Producers)
  PROVE  /\ Withdrawn(on, used) \in [Producers -> Nat]
         /\ Total(on, Producers) = Total(Withdrawn(on, used), Producers) + used
<1> DEFINE upto(p) == Total(on, {q \in Producers : q < p})
           taken == [p \in Producers |-> Min({on[p], Max({0, used - upto(p)})})]
           left == Withdrawn(on, used)
<1>1. /\ IsFiniteSet(Producers) /\ Producers \subseteq Nat
      /\ \A T \in SUBSET Producers : IsFiniteSet(T) /\ Total(on, T) \in Nat
  <2>1. IsFiniteSet(Producers) /\ Producers \subseteq Nat
    BY PoolAssumption
  <2>2. ASSUME NEW T \in SUBSET Producers PROVE IsFiniteSet(T) /\ Total(on, T) \in Nat
    <3>1. IsFiniteSet(T)
      BY <2>1, FS_Subset
    <3>2. \A p \in T : on[p] \in Nat
      OBVIOUS
    <3>. QED  BY <3>1, <3>2, TotalType
  <2>. QED  BY <2>1, <2>2
<1>2. ASSUME NEW p \in Producers
      PROVE  /\ on[p] \in Nat /\ upto(p) \in Nat
             /\ taken[p] = IF used - upto(p) <= 0 THEN 0
                           ELSE IF on[p] <= used - upto(p) THEN on[p] ELSE used - upto(p)
  <2>1. on[p] \in Nat /\ upto(p) \in Nat
    BY <1>1
  <2> DEFINE a == upto(p)
  <2>2. taken[p] = Min({on[p], Max({0, used - a})})
    OBVIOUS
  <2> HIDE DEF a
  <2>3. used - a \in Int
    BY <2>1 DEF a
  <2>4. Max({0, used - a}) = IF 0 >= used - a THEN 0 ELSE used - a
    BY <2>3, OfTwo
  <2> DEFINE b == Max({0, used - a})
  <2>5. b \in Int
    BY <2>3, <2>4
  <2> HIDE DEF b
  <2>6. Min({on[p], b}) = IF on[p] <= b THEN on[p] ELSE b
    BY <2>1, <2>5, OfTwo
  <2>7. taken[p] = IF on[p] <= b THEN on[p] ELSE b
    BY <2>2, <2>6 DEF b
  <2> HIDE DEF taken
  <2>8. taken[p] = IF used - a <= 0 THEN 0
                   ELSE IF on[p] <= used - a THEN on[p] ELSE used - a
    BY <2>1, <2>3, <2>4, <2>7 DEF b
  <2>. QED  BY <2>1, <2>8 DEF a
<1>3. left = [p \in Producers |-> on[p] - taken[p]]
  BY DEF Withdrawn
<1> HIDE DEF taken, left
<1>4. ASSUME NEW p \in Producers
      PROVE  /\ taken[p] \in Nat /\ left[p] \in Nat /\ on[p] \in Nat
             /\ on[p] = left[p] + taken[p]
  <2> DEFINE a == upto(p)
  <2> HIDE DEF a
  <2>1. /\ on[p] \in Nat /\ a \in Nat
        /\ taken[p] = IF used - a <= 0 THEN 0 ELSE IF on[p] <= used - a THEN on[p] ELSE used - a
    BY <1>2 DEF a
  <2>2. taken[p] \in Nat /\ taken[p] <= on[p]
    BY <2>1
  <2>3. left[p] = on[p] - taken[p]
    BY <1>3
  <2>. QED  BY <2>1, <2>2, <2>3
<1>5. Total(taken, Producers) = used
  <2> DEFINE Claim(T) == Total(taken, T) = IF used <= Total(on, T) THEN used ELSE Total(on, T)
             First(T) == \A q \in T, p \in Producers : p < q => p \in T
             F == {T \in SUBSET Producers : First(T) /\ ~Claim(T)}
  <2>1. ASSUME F = {} PROVE Total(taken, Producers) = used
    <3>1. Claim(Producers)
      BY <2>1
    <3>. QED  BY <1>1, <3>1
  <2> SUFFICES ASSUME F # {} PROVE FALSE
    BY <2>1
  <2>2. PICK T \in F : \A U \in F : U \subseteq T => U = T
    <3>1. F \in SUBSET (SUBSET Producers)
      OBVIOUS
    <3>2. F # {} /\ IsFiniteSet(Producers)
      BY <1>1
    <3> HIDE DEF F
    <3>. QED  BY <3>1, <3>2, Smallest
  <2>3. T \in SUBSET Producers /\ First(T) /\ ~Claim(T)
    BY <2>2
  <2>4. T # {}
    <3>1. Claim({})
      BY TotalEmpty
    <3>. QED  BY <2>3, <3>1
  <2>5. PICK m \in T : \A x \in T : x <= m
    BY <1>1, <2>3, <2>4, FiniteHasLast
  <2> DEFINE U == T \ {m}
  <2>6. U \in SUBSET Producers /\ First(U)
    BY <1>1, <2>3, <2>5
  <2>7. U = {q \in Producers : q < m}
    <3>1. \A q \in U : q < m
      BY <1>1, <2>3, <2>5
    <3>2. ASSUME NEW q \in Producers, q < m PROVE q \in U
      <4>1. q \in T
        BY <2>3, <2>5, <3>2
      <4>2. q # m
        BY <1>1, <3>2
      <4>. QED  BY <4>1, <4>2
    <3>. QED  BY <2>6, <3>1, <3>2
  <2>8. Claim(U)
    <3>1. U \notin F
      BY <2>2, <2>5
    <3>. QED  BY <2>6, <3>1
  <2>9. m \in Producers /\ upto(m) = Total(on, U)
    BY <2>3, <2>5, <2>7
  <2>10. Total(on, T) = on[m] + Total(on, U)
    <3>1. IsFiniteSet(T) /\ \A p \in T : on[p] \in Nat
      BY <1>1, <2>3
    <3>. QED  BY <2>5, <3>1, TotalSplit
  <2>11. Total(taken, T) = taken[m] + Total(taken, U)
    <3>1. IsFiniteSet(T) /\ \A p \in T : taken[p] \in Nat
      BY <1>1, <1>4, <2>3
    <3>. QED  BY <2>5, <3>1, TotalSplit
  <2> DEFINE a == Total(on, U)
             b == Total(taken, U)
  <2>12. a \in Nat
    BY <1>1, <2>6
  <2>13. b = IF used <= a THEN used ELSE a
    BY <2>8
  <2>14. on[m] \in Nat /\ taken[m] = IF used - a <= 0 THEN 0 ELSE IF on[m] <= used - a THEN on[m] ELSE used - a
    BY <1>2, <2>9
  <2>15. Total(on, T) = on[m] + a /\ Total(taken, T) = taken[m] + b
    BY <2>10, <2>11
  <2>16. ~ (Total(taken, T) = IF used <= Total(on, T) THEN used ELSE Total(on, T))
    BY <2>3
  <2> HIDE DEF a, b, F, U
  <2>17. taken[m] + b = IF used <= on[m] + a THEN used ELSE on[m] + a
    BY <2>12, <2>13, <2>14
  <2>. QED  BY <2>15, <2>16, <2>17
<1>6. left \in [Producers -> Nat]
  BY <1>3, <1>4
<1>7. Total(on, Producers) = Total(left, Producers) + Total(taken, Producers)
  <2>1. \A p \in Producers : left[p] \in Nat /\ taken[p] \in Nat /\ on[p] = left[p] + taken[p]
    BY <1>4
  <2>. QED  BY <1>1, <2>1, TotalPlus
<1>. QED  BY <1>5, <1>6, <1>7 DEF left

(* A larger share of the room is at least as many units, rounded down.     *)
LEMMA FloorsAreOrdered ==
  ASSUME NEW a \in Nat, NEW b \in Nat, NEW pool \in Nat, NEW all \in Nat \ {0}, a >= b
  PROVE  (a * pool) \div all >= (b * pool) \div all
<1> DEFINE s == (a * pool) \div all
           t == (b * pool) \div all
<1>1. a * pool \in Nat /\ b * pool \in Nat /\ b * pool <= a * pool
  OBVIOUS
<1> DEFINE x == a * pool
           y == b * pool
<1> HIDE DEF x, y
<1>2. x \in Nat /\ y \in Nat /\ y <= x
  BY <1>1 DEF x, y
<1>3. /\ x \div all \in Nat /\ x % all \in Nat /\ x % all < all
      /\ x = all * (x \div all) + (x % all)
  BY <1>2, Divided
<1>4. /\ y \div all \in Nat /\ y % all \in Nat /\ y % all < all
      /\ y = all * (y \div all) + (y % all)
  BY <1>2, Divided
<1> DEFINE u == x \div all
           v == y \div all
<1> HIDE DEF u, v
<1>5. u \in Nat /\ v \in Nat /\ all * u \in Nat /\ all * v \in Nat /\ all * (u + 1) = all * u + all
  BY <1>3, <1>4 DEF u, v
<1>6. x < all * u + all /\ all * v <= y
  <2> DEFINE p == all * u
             q == all * v
  <2>1. p \in Nat /\ q \in Nat /\ x = p + (x % all) /\ y = q + (y % all)
    BY <1>3, <1>4, <1>5 DEF u, v
  <2> HIDE DEF p, q
  <2>2. x < p + all /\ q <= y
    BY <1>2, <1>3, <1>4, <2>1
  <2>. QED  BY <2>2 DEF p, q
<1>7. all * v < all * (u + 1)
  <2> DEFINE p == all * u
             q == all * v
  <2>1. p \in Nat /\ q \in Nat /\ x < p + all /\ q <= y
    BY <1>5, <1>6
  <2> HIDE DEF p, q
  <2>2. q < p + all
    BY <1>2, <2>1
  <2>. QED  BY <1>5, <2>2 DEF p, q
<1>8. v < u + 1
  BY <1>5, <1>7, Cancelled
<1>. QED  BY <1>5, <1>8 DEF u, v, x, y

(* What the routing of a tick does to what the machines left behind.       *)
Balance(on, filled) ==
  LET before == Total(on, Producers) + Total(filled, Consumers)
      after  == Total(held', Producers) + Total(tank', Consumers)
  IN  IF boundary THEN before <= after ELSE before = after

LEMMA RoomType ==
  ASSUME NEW c \in Consumers
  PROVE  TankCap(c) \in Nat /\ Appetite[c] \in Nat /\ Appetite[c] <= TankCap(c)
<1>1. Appetite[c] \in Nat \ {0} /\ TankCrafts \in Nat \ {0}
  BY PoolAssumption
<1>2. \A a, b \in Nat \ {0} : a * b \in Nat /\ a <= a * b
  OBVIOUS
<1>. QED  BY <1>1, <1>2 DEF TankCap

LEMMA RouteShares ==
  ASSUME attached \subseteq Consumers, boundary \in BOOLEAN,
         NEW on \in [Producers -> Nat], NEW filled \in [Consumers -> Nat],
         \A c \in Consumers : filled[c] <= TankCap(c),
         Route(on, filled)
  PROVE  /\ held' \in [Producers -> Nat] /\ tank' \in [Consumers -> Nat]
         /\ \A c \in Consumers : tank'[c] <= TankCap(c)
         /\ attached = {} => Total(held', Producers) = 0 /\ tank' = filled
         /\ attached # {} => Balance(on, filled)
         /\ ~boundary =>
              /\ \A c \in attached : tank'[c] < TankCap(c) => Total(held', Producers) = 0
              /\ \A c, d \in attached : TankCap(c) - filled[c] >= TankCap(d) - filled[d]
                                          => tank'[c] - filled[c] + 1 >= tank'[d] - filled[d]
<1> DEFINE D == {d \in attached : filled[d] < TankCap(d)}
           pool == Total(on, Producers)
<1>1. /\ IsFiniteSet(Producers) /\ IsFiniteSet(Consumers)
      /\ Producers \subseteq Nat /\ Consumers \subseteq Nat
  BY PoolAssumption
<1>2. /\ D \in SUBSET Consumers /\ D \subseteq Nat /\ IsFiniteSet(D)
  <2>1. D \in SUBSET Consumers
    OBVIOUS
  <2> HIDE DEF D
  <2>. QED  BY <1>1, <2>1, FS_Subset
<1>3. pool \in Nat
  BY <1>1, TotalType
<1>4. PICK room \in {[c \in D |-> TankCap(c) - filled[c]]} :
        \E shares \in {Allocation(room, pool)} :
          LET used == Total(IF attached = {} THEN on ELSE shares,
                            IF attached = {} THEN Producers ELSE DOMAIN room)
              credit == IF boundary THEN room ELSE shares
          IN  /\ held' = Withdrawn(on, used)
              /\ tank' = [c \in Consumers |-> filled[c] + (IF c \in DOMAIN room THEN credit[c] ELSE 0)]
  BY DEF Route
<1> DEFINE shares == Allocation(room, pool)
           all == Total(room, D)
           credit == IF boundary THEN room ELSE shares
           used == IF attached = {} THEN pool ELSE Total(shares, D)
           gain == [c \in Consumers |-> IF c \in D THEN credit[c] ELSE 0]
<1>5. room = [c \in D |-> TankCap(c) - filled[c]] /\ DOMAIN room = D
  BY <1>4
<1>6. held' = Withdrawn(on, used)
  BY <1>4, <1>5
<1>7. tank' = [c \in Consumers |-> filled[c] + gain[c]]
  BY <1>4, <1>5
<1>8. /\ room \in [D -> Nat]
      /\ \A c \in D : room[c] = TankCap(c) - filled[c] /\ room[c] # 0
  <2>1. ASSUME NEW c \in D
        PROVE  TankCap(c) - filled[c] \in Nat \ {0}
    <3>1. c \in Consumers /\ filled[c] < TankCap(c) /\ filled[c] \in Nat
      BY <1>2
    <3>2. TankCap(c) \in Nat
      BY <3>1, RoomType
    <3>. QED  BY <3>1, <3>2
  <2>. QED  BY <1>5, <2>1
<1> HIDE DEF D, pool
<1>9. /\ shares \in [D -> Nat]
      /\ pool >= all => shares = room
      /\ pool < all => /\ Total(shares, D) = pool
                       /\ \A c \in D : /\ shares[c] >= (room[c] * pool) \div all
                                       /\ shares[c] <= ((room[c] * pool) \div all) + 1
                                       /\ room[c] # 0 => shares[c] <= room[c]
  BY <1>2, <1>3, <1>8, PoolIsShared
<1>10. all \in Nat /\ Total(shares, D) \in Nat
  <2>1. \A c \in D : room[c] \in Nat /\ shares[c] \in Nat
    BY <1>8, <1>9
  <2> HIDE DEF shares
  <2>. QED  BY <1>2, <2>1, TotalType
<1> HIDE DEF shares, all
<1>11. Total(shares, D) = IF pool >= all THEN all ELSE pool
  BY <1>3, <1>9, <1>10 DEF all
<1>12. used \in Nat /\ used <= pool
  BY <1>3, <1>10, <1>11
<1>13. held' \in [Producers -> Nat] /\ pool = Total(held', Producers) + used
  <2> HIDE DEF used
  <2>. QED  BY <1>6, <1>12, WhatIsWithdrawn DEF pool
<1>14. Total(held', Producers) \in Nat
  BY <1>1, <1>13, TotalType
<1>15. \A c \in D : /\ shares[c] \in Nat /\ shares[c] <= room[c]
                    /\ credit[c] \in Nat /\ credit[c] <= room[c] /\ room[c] \in Nat
  BY <1>3, <1>8, <1>9, <1>10
<1>16. ASSUME NEW c \in Consumers
       PROVE  /\ gain[c] \in Nat /\ filled[c] \in Nat /\ TankCap(c) \in Nat
              /\ tank'[c] = filled[c] + gain[c] /\ tank'[c] <= TankCap(c)
              /\ c \in D => gain[c] = credit[c]
              /\ c \notin D => gain[c] = 0
  <2>1. filled[c] \in Nat /\ TankCap(c) \in Nat /\ filled[c] <= TankCap(c)
    BY RoomType
  <2>2. tank'[c] = filled[c] + gain[c]
    BY <1>7
  <2>3. CASE c \in D
    <3>1. gain[c] = credit[c] /\ credit[c] \in Nat /\ credit[c] <= room[c]
      BY <1>15, <2>3
    <3>2. room[c] = TankCap(c) - filled[c]
      BY <1>8, <2>3
    <3> HIDE DEF gain, credit
    <3>. QED  BY <2>1, <2>2, <2>3, <3>1, <3>2
  <2>4. CASE c \notin D
    BY <2>1, <2>2, <2>4
  <2>. QED  BY <2>3, <2>4
<1> HIDE DEF gain, credit
<1>17. tank' \in [Consumers -> Nat] /\ \A c \in Consumers : tank'[c] <= TankCap(c)
  <2>1. \A c \in Consumers : filled[c] + gain[c] \in Nat
    BY <1>16
  <2>. QED  BY <1>7, <1>16, <2>1
<1>18. ASSUME attached = {} PROVE Total(held', Producers) = 0 /\ tank' = filled
  <2>1. used = pool /\ D = {}
    BY <1>18 DEF D
  <2>2. \A c \in Consumers : tank'[c] = filled[c]
    <3> SUFFICES ASSUME NEW c \in Consumers PROVE tank'[c] = filled[c]
      OBVIOUS
    <3>1. gain[c] = 0 /\ filled[c] \in Nat /\ tank'[c] = filled[c] + gain[c]
      BY <1>16, <2>1
    <3>. QED  BY <3>1
  <2>3. tank' = filled
    BY <1>17, <2>2
  <2>. QED  BY <1>3, <1>13, <1>14, <2>1, <2>3
<1>19. ASSUME attached # {} PROVE Balance(on, filled)
  <2>1. used = Total(shares, D)
    BY <1>19
  <2>2. Total(tank', Consumers) = Total(filled, Consumers) + Total(gain, Consumers)
    <3>1. \A c \in Consumers : filled[c] \in Nat /\ gain[c] \in Nat /\ tank'[c] = filled[c] + gain[c]
      BY <1>16
    <3>. QED  BY <1>1, <3>1, TotalPlus
  <2>3. Total(gain, Consumers) = Total(credit, D)
    <3>1. Total(gain, Consumers) = Total(gain, D)
      <4>1. \A c \in Consumers : gain[c] \in Nat /\ (c \notin D => gain[c] = 0)
        BY <1>16
      <4>. QED  BY <1>1, <1>2, <4>1, TotalWithin
    <3>2. \A c \in D : gain[c] \in Nat /\ gain[c] = credit[c]
      BY <1>2, <1>16
    <3>. QED  BY <1>2, <3>1, <3>2, TotalSame
  <2>4. Total(credit, D) = IF boundary THEN all ELSE used
    BY <2>1 DEF credit, all
  <2>5. used <= all
    BY <1>3, <1>10, <1>11, <2>1
  <2>6. Total(filled, Consumers) \in Nat /\ used \in Nat /\ all \in Nat
    <3>1. \A c \in Consumers : filled[c] \in Nat
      OBVIOUS
    <3>. QED  BY <1>1, <1>10, <1>12, <3>1, TotalType
  <2>7. Total(on, Producers) = Total(held', Producers) + used
    BY <1>13 DEF pool
  <2> HIDE DEF used
  <2>8. CASE boundary
    <3>1. Total(tank', Consumers) = Total(filled, Consumers) + all
      BY <2>2, <2>3, <2>4, <2>8
    <3>. QED  BY <1>14, <2>5, <2>6, <2>7, <2>8, <3>1 DEF Balance
  <2>9. CASE ~boundary
    <3>1. Total(tank', Consumers) = Total(filled, Consumers) + used
      BY <2>2, <2>3, <2>4, <2>9
    <3>. QED  BY <1>14, <2>6, <2>7, <2>9, <3>1 DEF Balance
  <2>. QED  BY <2>8, <2>9
<1>20. ASSUME ~boundary, NEW c \in attached, tank'[c] < TankCap(c) PROVE Total(held', Producers) = 0
  <2>1. c \in Consumers
    OBVIOUS
  <2>2. c \in D
    <3>1. filled[c] < TankCap(c)
      BY <1>16, <1>20, <2>1
    <3>. QED  BY <3>1 DEF D
  <2>3. gain[c] = shares[c] /\ room[c] = TankCap(c) - filled[c]
    BY <1>8, <1>16, <1>20, <2>1, <2>2 DEF credit
  <2>4. shares[c] # room[c]
    BY <1>16, <1>20, <2>1, <2>3
  <2>5. pool < all
    BY <1>3, <1>9, <1>10, <2>4 DEF all
  <2>6. used = pool
    BY <1>3, <1>10, <1>11, <2>5
  <2>. QED  BY <1>3, <1>13, <1>14, <2>6
<1>21. ASSUME ~boundary, NEW c \in attached, NEW d \in attached,
              TankCap(c) - filled[c] >= TankCap(d) - filled[d]
       PROVE  tank'[c] - filled[c] + 1 >= tank'[d] - filled[d]
  <2>1. c \in Consumers /\ d \in Consumers
    OBVIOUS
  <2>2. /\ gain[c] \in Nat /\ gain[d] \in Nat /\ filled[c] \in Nat /\ filled[d] \in Nat
        /\ tank'[c] = filled[c] + gain[c] /\ tank'[d] = filled[d] + gain[d]
        /\ TankCap(c) \in Nat /\ TankCap(d) \in Nat
    BY <1>16, <2>1
  <2>3. gain[c] + 1 >= gain[d]
    <3>1. CASE d \notin D
      BY <1>16, <2>1, <2>2, <3>1
    <3>2. CASE d \in D
      <4>1. c \in D
        BY <1>21, <2>2, <3>2 DEF D
      <4>2. gain[c] = shares[c] /\ gain[d] = shares[d]
        BY <1>16, <1>21, <2>1, <3>2, <4>1 DEF credit
      <4>3. room[c] \in Nat /\ room[d] \in Nat /\ room[c] >= room[d]
        BY <1>8, <1>21, <3>2, <4>1
      <4>4. CASE pool >= all
        <5>1. shares = room
          BY <1>9, <4>4 DEF all
        <5>. QED  BY <4>2, <4>3, <5>1
      <4>5. CASE pool < all
        <5> DEFINE low(e) == (room[e] * pool) \div all
        <5>1. all \in Nat \ {0}
          BY <1>3, <1>10, <4>5
        <5>2. low(c) >= low(d)
          BY <1>3, <4>3, <5>1, FloorsAreOrdered
        <5>3. shares[c] >= low(c) /\ shares[d] <= low(d) + 1
          BY <1>9, <3>2, <4>1, <4>5 DEF all
        <5>4. low(c) \in Nat /\ low(d) \in Nat
          <6>1. room[c] * pool \in Nat /\ room[d] * pool \in Nat
            BY <1>3, <4>3
          <6>. QED  BY <5>1, <6>1, Divided
        <5> HIDE DEF low
        <5>. QED  BY <1>15, <3>2, <4>1, <4>2, <5>2, <5>3, <5>4
      <4>. QED  BY <1>3, <1>10, <4>4, <4>5
    <3>. QED  BY <3>1, <3>2
  <2>. QED  BY <2>2, <2>3
<1>. QED  BY <1>13, <1>17, <1>18, <1>19, <1>20, <1>21

-----------------------------------------------------------------------------
(* The fluid of the plant.                                                 *)

FluidTypeOK ==
  /\ attached \subseteq Consumers
  /\ boundary \in BOOLEAN
  /\ held \in [Producers -> Nat]
  /\ tank \in [Consumers -> Nat]

\* No buffer of fluid is filled above its cap.
TanksHold == \A c \in Consumers : tank[c] <= TankCap(c)

\* Between two steps nobody who has room is left with producers that hold.
NothingHeldBack == ~boundary => \A c \in attached : tank[c] < TankCap(c) => Total(held, Producers) = 0

FInv == FluidTypeOK /\ TanksHold /\ NothingHeldBack

LEMMA TotalOfZeros ==
  ASSUME NEW S, IsFiniteSet(S), NEW f, \A x \in S : f[x] = 0
  PROVE  Total(f, S) = 0
<1>1. \A x \in S : f[x] \in Nat /\ (x \notin {} => f[x] = 0)
  OBVIOUS
<1>2. Total(f, S) = Total(f, {})
  BY <1>1, TotalWithin
<1>. QED  BY <1>2, TotalEmpty

LEMMA FluidInitInv == FluidInit => FInv
<1> SUFFICES ASSUME FluidInit PROVE FInv
  OBVIOUS
<1>1. FluidTypeOK
  BY DEF FluidInit, FluidTypeOK
<1>2. TanksHold
  <2> SUFFICES ASSUME NEW c \in Consumers PROVE tank[c] <= TankCap(c)
    BY DEF TanksHold
  <2>1. tank[c] = 0 /\ TankCap(c) \in Nat
    BY RoomType DEF FluidInit
  <2>. QED  BY <2>1
<1>3. Total(held, Producers) = 0
  <2>1. IsFiniteSet(Producers) /\ \A p \in Producers : held[p] = 0
    BY PoolAssumption DEF FluidInit
  <2>. QED  BY <2>1, TotalOfZeros
<1>. QED  BY <1>1, <1>2, <1>3 DEF FInv, NothingHeldBack

(* A tick of machines and fluid: what the machines emit and burn, and then *)
(* what the routing does with the rest.                                    *)
LEMMA FluidTickShares ==
  ASSUME FInv, NEW emitting \in SUBSET Producers, NEW crafting \in SUBSET Consumers,
         FluidTick(emitting, crafting)
  PROVE  /\ FInv'
         /\ LET before == Total(held, Producers) + Total(tank, Consumers) + tally'.emitted
                after == Total(held', Producers) + Total(tank', Consumers) + tally'.burnt + tally'.drained
            IN  IF boundary THEN before <= after ELSE before = after
         /\ ~boundary /\ tally'.burnt = 0 =>
              \A c, d \in attached : TankCap(c) - tank[c] >= TankCap(d) - tank[d]
                                       => Gain(c) + 1 >= Gain(d)
<1> DEFINE spent == [c \in Consumers |-> IF c \in crafting THEN Appetite[c] ELSE 0]
           made == [p \in Producers |-> IF p \in emitting THEN Emission ELSE 0]
           on == [p \in Producers |-> held[p] + made[p]]
           filled == [c \in Consumers |-> tank[c] - spent[c]]
           drained == IF attached = {} THEN Total(on, Producers) ELSE 0
<1>1. /\ IsFiniteSet(Producers) /\ IsFiniteSet(Consumers)
      /\ Emission \in Nat /\ Appetite \in [Consumers -> Nat \ {0}]
  BY PoolAssumption
<1>2. /\ \A c \in crafting : tank[c] >= Appetite[c]
      /\ tally' = [emitted |-> Total(made, Producers), burnt |-> Total(spent, Consumers),
                   drained |-> drained]
      /\ Route(on, filled)
      /\ attached' = attached /\ boundary' = boundary
  BY DEF FluidTick
<1>3. /\ attached \subseteq Consumers /\ boundary \in BOOLEAN
      /\ held \in [Producers -> Nat] /\ tank \in [Consumers -> Nat]
  BY DEF FInv, FluidTypeOK
<1>4. \A p \in Producers : held[p] \in Nat /\ made[p] \in Nat /\ on[p] = held[p] + made[p]
  BY <1>1, <1>3
<1>5. ASSUME NEW c \in Consumers
      PROVE  /\ filled[c] \in Nat /\ spent[c] \in Nat /\ tank[c] = filled[c] + spent[c]
             /\ tank[c] \in Nat /\ tank[c] <= TankCap(c) /\ TankCap(c) \in Nat
             /\ filled[c] <= TankCap(c)
  <2>1. tank[c] \in Nat /\ Appetite[c] \in Nat /\ TankCap(c) \in Nat /\ tank[c] <= TankCap(c)
    BY <1>3, RoomType DEF FInv, TanksHold
  <2>2. spent[c] = IF c \in crafting THEN Appetite[c] ELSE 0
    OBVIOUS
  <2>3. filled[c] = tank[c] - spent[c]
    OBVIOUS
  <2>4. c \in crafting => tank[c] >= Appetite[c]
    BY <1>2
  <2> HIDE DEF spent, filled
  <2>. QED  BY <2>1, <2>2, <2>3, <2>4
<1>6. on \in [Producers -> Nat] /\ filled \in [Consumers -> Nat]
  <2>1. \A p \in Producers : held[p] + made[p] \in Nat
    BY <1>4
  <2>2. \A c \in Consumers : filled[c] \in Nat
    BY <1>5
  <2>. QED  BY <2>1, <2>2
<1> HIDE DEF spent, made, on, filled
<1>7. Total(on, Producers) = Total(held, Producers) + Total(made, Producers)
  BY <1>1, <1>4, TotalPlus
<1>8. Total(tank, Consumers) = Total(filled, Consumers) + Total(spent, Consumers)
  <2>1. \A c \in Consumers : filled[c] \in Nat /\ spent[c] \in Nat /\ tank[c] = filled[c] + spent[c]
    BY <1>5
  <2>. QED  BY <1>1, <2>1, TotalPlus
<1>9. /\ Total(held, Producers) \in Nat /\ Total(made, Producers) \in Nat
      /\ Total(filled, Consumers) \in Nat /\ Total(spent, Consumers) \in Nat
      /\ Total(on, Producers) \in Nat
  <2>1. /\ Total(held, Producers) \in Nat /\ Total(made, Producers) \in Nat
    BY <1>1, <1>4, TotalType
  <2>2. /\ Total(filled, Consumers) \in Nat /\ Total(spent, Consumers) \in Nat
    BY <1>1, <1>5, TotalType
  <2>. QED  BY <1>7, <2>1, <2>2
<1>10. /\ tally'.emitted = Total(made, Producers)
       /\ tally'.burnt = Total(spent, Consumers)
       /\ tally'.drained = drained
  BY <1>2
<1>11. /\ held' \in [Producers -> Nat] /\ tank' \in [Consumers -> Nat]
       /\ \A c \in Consumers : tank'[c] <= TankCap(c)
       /\ attached = {} => Total(held', Producers) = 0 /\ tank' = filled
       /\ attached # {} => Balance(on, filled)
       /\ ~boundary =>
            /\ \A c \in attached : tank'[c] < TankCap(c) => Total(held', Producers) = 0
            /\ \A c, d \in attached : TankCap(c) - filled[c] >= TankCap(d) - filled[d]
                                        => tank'[c] - filled[c] + 1 >= tank'[d] - filled[d]
  BY <1>2, <1>3, <1>5, <1>6, RouteShares
<1>12. Total(held', Producers) \in Nat /\ Total(tank', Consumers) \in Nat
  BY <1>1, <1>11, TotalType
<1>13. FInv'
  <2>1. FluidTypeOK'
    BY <1>2, <1>3, <1>11 DEF FluidTypeOK
  <2>2. TanksHold'
    BY <1>11 DEF TanksHold, TankCap
  <2>3. NothingHeldBack'
    BY <1>2, <1>11 DEF NothingHeldBack, TankCap
  <2>. QED  BY <2>1, <2>2, <2>3 DEF FInv
<1>14. LET before == Total(held, Producers) + Total(tank, Consumers) + tally'.emitted
           after == Total(held', Producers) + Total(tank', Consumers) + tally'.burnt + tally'.drained
       IN  IF boundary THEN before <= after ELSE before = after
  <2>1. CASE attached = {}
    <3>1. Total(held', Producers) = 0 /\ tank' = filled /\ drained = Total(on, Producers)
      BY <1>11, <2>1
    <3> HIDE DEF drained
    <3>. QED  BY <1>7, <1>8, <1>9, <1>10, <3>1
  <2>2. CASE attached # {}
    <3>1. Balance(on, filled) /\ drained = 0
      BY <1>11, <2>2
    <3> HIDE DEF drained
    <3>. QED  BY <1>7, <1>8, <1>9, <1>10, <1>12, <3>1 DEF Balance
  <2>. QED  BY <2>1, <2>2
<1>15. ASSUME ~boundary, tally'.burnt = 0, NEW c \in attached, NEW d \in attached,
              TankCap(c) - tank[c] >= TankCap(d) - tank[d]
       PROVE  Gain(c) + 1 >= Gain(d)
  <2>1. ASSUME NEW e \in attached PROVE filled[e] = tank[e]
    <3>1. e \in Consumers
      BY <1>3
    <3>2. Total(spent, Consumers) = spent[e] + Total(spent, Consumers \ {e})
      BY <1>1, <1>5, <3>1, TotalSplit
    <3>3. Total(spent, Consumers \ {e}) \in Nat
      <4>1. IsFiniteSet(Consumers \ {e})
        BY <1>1, FS_Subset
      <4>2. \A x \in Consumers \ {e} : spent[x] \in Nat
        BY <1>5
      <4>. QED  BY <4>1, <4>2, TotalType
    <3>4. Total(spent, Consumers) = 0
      BY <1>10, <1>15
    <3>5. spent[e] \in Nat /\ filled[e] \in Nat /\ tank[e] = filled[e] + spent[e]
      BY <1>5, <3>1
    <3>. QED  BY <3>2, <3>3, <3>4, <3>5
  <2>2. TankCap(c) - filled[c] >= TankCap(d) - filled[d]
    BY <1>15, <2>1
  <2>3. tank'[c] - filled[c] + 1 >= tank'[d] - filled[d]
    BY <1>11, <1>15, <2>2
  <2>. QED  BY <2>1, <2>3 DEF Gain
<1>. QED  BY <1>13, <1>14, <1>15

(* While an inserter acts the fluid rests, and the tally is cleared.       *)
LEMMA RestsIsQuiet ==
  ASSUME FInv, FluidRests
  PROVE  /\ FInv'
         /\ UNCHANGED <<attached, boundary, held, tank>>
         /\ tally'.emitted = 0 /\ tally'.burnt = 0 /\ tally'.drained = 0
<1>1. UNCHANGED <<attached, boundary, held, tank>> /\ tally' = Quiet
  BY DEF FluidRests
<1>2. FInv'
  BY <1>1 DEF FInv, FluidTypeOK, TanksHold, NothingHeldBack, TankCap
<1>. QED  BY <1>1, <1>2 DEF Quiet

(* Every step of the plant is one or the other.                            *)
LEMMA StepsOfTheFluid ==
  ASSUME PlantNext
  PROVE  \/ FluidRests
         \/ \E emitting \in SUBSET Producers, crafting \in SUBSET Consumers : FluidTick(emitting, crafting)
<1>1. CASE \E i \in Hands : Take(i) \/ Drop(i)
  BY <1>1 DEF Take, Drop
<1>2. CASE \E emitting \in SUBSET Producers, crafting \in SUBSET Consumers : MachineTurn(emitting, crafting)
  BY <1>2 DEF MachineTurn
<1>. QED  BY <1>1, <1>2 DEF PlantNext

(* The fluid of the plant keeps its types, no buffer is overfilled, and    *)
(* between two steps no producer holds what a consumer has room for.       *)
THEOREM FluidInvariant == PlantSpec => []FInv
<1>1. PlantInit => FInv
  BY FluidInitInv DEF PlantInit
<1>2. FInv /\ [PlantNext]_plantVars => FInv'
  <2> SUFFICES ASSUME FInv, [PlantNext]_plantVars PROVE FInv'
    OBVIOUS
  <2>1. CASE PlantNext
    BY <2>1, StepsOfTheFluid, RestsIsQuiet, FluidTickShares
  <2>2. CASE UNCHANGED plantVars
    BY <2>2 DEF plantVars, fluidVars, FInv, FluidTypeOK, TanksHold, NothingHeldBack, TankCap
  <2>. QED  BY <2>1, <2>2
<1>. QED  BY <1>1, <1>2, PTL DEF PlantSpec

(* tick_fluids never fills a buffer of fluid above its cap: a share is     *)
(* rounded up for some consumers, and still at most the room they have.    *)
THEOREM TanksNeverOverflow == PlantSpec => []TanksHold
<1>1. FInv => TanksHold
  BY DEF FInv
<1>. QED  BY <1>1, FluidInvariant, PTL

(* What consumers are credited with and what producers are debited with    *)
(* are computed apart in tick_fluids, and agree in every tick, for every   *)
(* number of machines, every appetite and every size of the buffers.       *)
THEOREM FluidIsConserved == PlantSpec => FluidConserved
<1> DEFINE Kept == LET before == Total(held, Producers) + Total(tank, Consumers) + tally'.emitted
                       after == Total(held', Producers) + Total(tank', Consumers) + tally'.burnt + tally'.drained
                   IN  IF boundary THEN before <= after ELSE before = after
<1>1. FInv /\ [PlantNext]_plantVars => [Kept]_fluidVars
  <2> SUFFICES ASSUME FInv, [PlantNext]_plantVars PROVE Kept \/ UNCHANGED fluidVars
    OBVIOUS
  <2>1. CASE FluidRests
    <3>1. /\ held' = held /\ tank' = tank
          /\ tally'.emitted = 0 /\ tally'.burnt = 0 /\ tally'.drained = 0
      BY <2>1, RestsIsQuiet
    <3>2. Total(held, Producers) \in Nat /\ Total(tank, Consumers) \in Nat
      <4>1. /\ IsFiniteSet(Producers) /\ IsFiniteSet(Consumers)
            /\ \A p \in Producers : held[p] \in Nat
            /\ \A c \in Consumers : tank[c] \in Nat
        BY PoolAssumption DEF FInv, FluidTypeOK
      <4>. QED  BY <4>1, TotalType
    <3>. QED  BY <3>1, <3>2
  <2>2. CASE \E emitting \in SUBSET Producers, crafting \in SUBSET Consumers : FluidTick(emitting, crafting)
    BY <2>2, FluidTickShares
  <2>3. CASE UNCHANGED plantVars
    BY <2>3 DEF plantVars
  <2>. QED  BY <2>1, <2>2, <2>3, StepsOfTheFluid
<1>. QED  BY <1>1, FluidInvariant, PTL DEF PlantSpec, FluidConserved

(* Scarcity is shared in proportion, up to the unit that cannot be         *)
(* divided, and nothing is held back: the pool is given away to the last   *)
(* unit while anybody has room.                                            *)
THEOREM ScarcityIsShared == PlantSpec => ScarcityShared
<1> DEFINE Even == \A c, d \in attached : TankCap(c) - tank[c] >= TankCap(d) - tank[d] => Gain(c) + 1 >= Gain(d)
           Spent == (\E c \in attached : tank'[c] < TankCap(c)) => Total(held', Producers) = 0
           Shared == ~boundary /\ tally'.burnt = 0 => Even /\ Spent
<1>1. FInv /\ [PlantNext]_plantVars /\ FInv' => [Shared]_fluidVars
  <2> SUFFICES ASSUME FInv, [PlantNext]_plantVars, FInv', ~boundary, tally'.burnt = 0, ~UNCHANGED fluidVars
               PROVE  Even /\ Spent
    OBVIOUS
  <2>1. Spent
    <3>1. attached' = attached /\ boundary' = boundary
      <4>1. FluidRests \/ \E emitting \in SUBSET Producers, crafting \in SUBSET Consumers : FluidTick(emitting, crafting)
        BY StepsOfTheFluid DEF plantVars
      <4>. QED  BY <4>1 DEF FluidRests, FluidTick
    <3>2. NothingHeldBack'
      BY DEF FInv
    <3>. QED  BY <3>1, <3>2 DEF NothingHeldBack, TankCap
  <2>2. Even
    <3>1. CASE FluidRests
      <4> SUFFICES ASSUME NEW c \in attached, NEW d \in attached PROVE Gain(c) + 1 >= Gain(d)
        OBVIOUS
      <4>1. tank' = tank /\ tank[c] \in Nat /\ tank[d] \in Nat
        BY <3>1 DEF FluidRests, FInv, FluidTypeOK
      <4>. QED  BY <4>1 DEF Gain
    <3>2. CASE \E emitting \in SUBSET Producers, crafting \in SUBSET Consumers : FluidTick(emitting, crafting)
      BY <3>2, FluidTickShares
    <3>. QED  BY <3>1, <3>2, StepsOfTheFluid DEF plantVars
  <2>. QED  BY <2>1, <2>2
<1>. QED  BY <1>1, FluidInvariant, PTL DEF PlantSpec, ScarcityShared
=============================================================================

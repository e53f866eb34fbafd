----------------------------- MODULE BeltProofs -----------------------------
(***************************************************************************)
(* The splitter's safety for every memory cap and every window: the memory *)
(* stays within the cap and about an existing output, and the books of     *)
(* SplitterLedger balance.  Then the network that works its splitters that *)
(* way: whatever is built, fed and picked, BeltTraffic has every item      *)
(* once.  That part goes from a lane to a tile to a step of all tiles.     *)
(***************************************************************************)
EXTENDS SplitterLedger, BeltTraffic, FiniteSetTheorems, WellFoundedInduction, TLAPS

(* Branch and output numbers name each other.                              *)
LEMMA Renaming ==
  ASSUME NEW h \in Halves, NEW x \in {0, 1}
  PROVE  /\ BranchOf(h, x) \in Branches
         /\ OutputOf(h, x) \in Outputs
         /\ 1 - x \in {0, 1}
         /\ 1 - BranchOf(h, x) \in Branches
BY DEF Halves, Branches, Outputs, BranchOf, OutputOf

(* The output probed first is an output.                                   *)
LEMMA FirstIsOutput == ASSUME TypeOK, NEW h \in Halves PROVE First(h) \in Outputs
BY DEF TypeOK, First, FirstOutput, OutputOf, Halves, Branches, Outputs

(* The debt after an item is within the cap.                               *)
LEMMA DebtWithinCap ==
  ASSUME NEW d \in 0..MemoryCap, NEW output, NEW first, NEW which, NEW isLinked
  PROVE  DebtAfter(d, output, first, which, isLinked) \in 0..MemoryCap
BY MemoryCapAssumption DEF DebtAfter

\* The splitter's own invariant.
SInv == TypeOK /\ MemoryOfRealOutput

(* Putting an item on an output keeps the memory within the cap, and opens *)
(* an episode only about the output that was probed first and is linked.   *)
LEMMA PlaceInv ==
  ASSUME SInv, NEW h \in Halves, NEW which \in Outputs, Place(h, which),
         linked' = linked, sinks' = sinks, paired' = paired, open' \in SUBSET linked
  PROVE  SInv'
<1> DEFINE first == First(h)
           isLinked == BranchOf(h, first) \in linked
           after == DebtAfter(debt[h], remembered[h], first, which, isLinked)
<1>1. first \in Outputs
  BY FirstIsOutput DEF SInv
<1>2. debt[h] \in 0..MemoryCap /\ remembered[h] \in Outputs /\ debt \in [Halves -> 0..MemoryCap]
      /\ remembered \in [Halves -> Outputs]
  BY DEF SInv, TypeOK
<1>3. after \in 0..MemoryCap
  BY <1>2, DebtWithinCap
<1>4. debt' = [debt EXCEPT ![h] = after]
  BY DEF Place
<1>5. remembered' = [remembered EXCEPT ![h] = IF debt[h] = 0 /\ after > 0 THEN first ELSE @]
  BY DEF Place
<1>6. toggle' \in Branches
  <2>1. toggle' = ToggleAfter(h, after, which, toggle)
    BY DEF Place
  <2>2. 1 - BranchOf(h, which) \in Branches
    BY Renaming DEF Outputs
  <2>. QED  BY <2>1, <2>2 DEF ToggleAfter, SInv, TypeOK
<1>7. placed' \in Branches
  BY Renaming DEF Place, Outputs
<1>8. TypeOK'
  BY <1>1, <1>2, <1>3, <1>4, <1>5, <1>6, <1>7 DEF SInv, TypeOK
<1>9. ASSUME NEW g \in Halves, debt'[g] > 0 PROVE BranchOf(g, remembered'[g]) \in linked'
  <2>1. CASE g # h
    BY <1>2, <1>4, <1>5, <1>9, <2>1 DEF SInv, MemoryOfRealOutput
  <2>2. CASE g = h /\ debt[h] > 0
    BY <1>2, <1>5, <2>2 DEF SInv, MemoryOfRealOutput
  <2>3. CASE g = h /\ debt[h] = 0
    <3>1. after > 0
      BY <1>2, <1>4, <1>9, <2>3
    <3>2. isLinked
      BY <2>3, <3>1 DEF DebtAfter
    <3>3. remembered'[g] = first
      BY <1>2, <1>5, <2>3, <3>1
    <3>. QED  BY <2>3, <3>2, <3>3
  <2>. QED  BY <1>2, <2>1, <2>2, <2>3
<1>. QED  BY <1>8, <1>9 DEF SInv, MemoryOfRealOutput

(* Every attempt keeps the splitter's invariant.                           *)
LEMMA SplitterStep == SInv /\ [Next]_vars => SInv'
<1> SUFFICES ASSUME SInv, [Next]_vars PROVE SInv'
  OBVIOUS
<1>1. ASSUME NEW h \in Halves, Attempt(h), open' \in SUBSET linked PROVE SInv'
  <2>1. First(h) \in Outputs /\ 1 - First(h) \in Outputs
    BY FirstIsOutput DEF SInv, Outputs
  <2>2. CASE RouteFirst(h)
    BY <1>1, <2>1, <2>2, PlaceInv DEF RouteFirst, Attempt
  <2>3. CASE RouteFallback(h)
    BY <1>1, <2>1, <2>3, PlaceInv DEF RouteFallback, Attempt
  <2>4. CASE Blocked(h)
    BY <1>1, <2>4 DEF Blocked, Attempt, SInv, TypeOK, MemoryOfRealOutput
  <2>. QED  BY <1>1, <2>2, <2>3, <2>4 DEF Attempt
<1>2. CASE UNCHANGED vars
  BY <1>2 DEF vars, SInv, TypeOK, MemoryOfRealOutput
<1>. QED  BY <1>1, <1>2 DEF Next

(* Init is within the invariant.                                           *)
LEMMA SplitterInit == Init => SInv
BY MemoryCapAssumption
   DEF Init, SInv, TypeOK, MemoryOfRealOutput, Halves, Branches, Outputs

(* The memory of a blocked output is at most the cap of the code, and      *)
(* every field keeps its type.                                             *)
THEOREM MemoryWithinCap == Spec => []TypeOK
<1>1. SInv => TypeOK
  BY DEF SInv
<1>. QED  BY SplitterInit, SplitterStep, <1>1, PTL DEF Spec

(* A splitter half never remembers an output that does not exist.          *)
THEOREM MemoryIsReal == Spec => []MemoryOfRealOutput
<1>1. SInv => MemoryOfRealOutput
  BY DEF SInv
<1>. QED  BY SplitterInit, SplitterStep, <1>1, PTL DEF Spec
-----------------------------------------------------------------------------
(* The books.  What the cap forgot in the running episode is gone with the *)
(* episode.                                                                *)
LInv ==
  /\ LedgerTypeOK
  /\ MemoryOfRealOutput
  /\ DebtIsOwed
  /\ \A h \in Halves : debt[h] = 0 => over[h] = 0
  /\ EpisodesMatch
  /\ ImbalanceExplained

(* An episode is running or it is not.                                     *)
LEMMA RunningIsBit == ASSUME NEW d PROVE Running(d) \in {0, 1}
BY DEF Running

(* Nothing has been sent and nothing is owed at first.                     *)
LEMMA LedgerInitInv == LedgerInit => LInv
<1> SUFFICES ASSUME LedgerInit PROVE LInv
  OBVIOUS
<1>1. TypeOK /\ MemoryOfRealOutput
  BY SplitterInit DEF LedgerInit, SInv
<1>. QED
  BY <1>1, MemoryCapAssumption
     DEF LedgerInit, Init, LInv, LedgerTypeOK, DebtIsOwed, EpisodesMatch, Running, ImbalanceExplained,
         Drift, OwedToZero, Halves, Branches

(* The effect of one placed item, by the kind of move it is.  A move of    *)
(* half h to branch b outside an episode flips the toggle; a way around a  *)
(* missing branch opens no episode; opening one and everything inside it   *)
(* leaves the toggle alone; paying the last item off points it away from b.*)
LEMMA MoveKinds ==
  ASSUME LInv, NEW h \in Halves, NEW which \in Outputs, Place(h, which)
  PROVE  LET b == BranchOf(h, which)
             first == First(h)
         IN  \/ /\ debt[h] = 0 /\ which = first
                /\ b = toggle
                /\ debt' = [debt EXCEPT ![h] = 0]
                /\ remembered' = remembered
                /\ toggle' = 1 - b
             \/ /\ debt[h] = 0 /\ which # first /\ BranchOf(h, first) \notin linked
                /\ debt' = [debt EXCEPT ![h] = 0]
                /\ remembered' = remembered
             \/ /\ debt[h] = 0 /\ which # first /\ BranchOf(h, first) \in linked
                /\ b = 1 - toggle
                /\ debt' = [debt EXCEPT ![h] = 1]
                /\ remembered' = [remembered EXCEPT ![h] = 1 - which]
                /\ toggle' = toggle
             \/ /\ debt[h] > 0 /\ which # remembered[h]
                /\ debt' = [debt EXCEPT ![h] = IF debt[h] < MemoryCap THEN debt[h] + 1
                                               ELSE MemoryCap]
                /\ remembered' = remembered
                /\ toggle' = toggle
             \/ /\ debt[h] > 0 /\ which = remembered[h]
                /\ debt' = [debt EXCEPT ![h] = debt[h] - 1]
                /\ remembered' = remembered
                /\ toggle' = IF debt[h] = 1 THEN 1 - b ELSE toggle
<1>1. First(h) \in Outputs
  BY FirstIsOutput DEF LInv, LedgerTypeOK
<1>2. debt[h] \in 0..MemoryCap /\ remembered[h] \in Outputs /\ toggle \in Branches
      /\ remembered \in [Halves -> Outputs] /\ debt \in [Halves -> 0..MemoryCap]
  BY DEF LInv, LedgerTypeOK, TypeOK
<1>3. CASE debt[h] = 0 /\ which = First(h)
  BY <1>1, <1>2, <1>3, MemoryCapAssumption
     DEF Place, DebtAfter, ToggleAfter, First, FirstOutput, OutputOf, BranchOf,
         Halves, Branches, Outputs
<1>7. CASE debt[h] = 0 /\ which # First(h) /\ BranchOf(h, First(h)) \notin linked
  <2>1. DebtAfter(debt[h], remembered[h], First(h), which, BranchOf(h, First(h)) \in linked) = 0
    BY <1>7 DEF DebtAfter
  <2>2. debt' = [debt EXCEPT ![h] = 0]
    BY <2>1 DEF Place
  <2>3. remembered' = remembered
    <3>1. remembered' = [remembered EXCEPT ![h] = IF debt[h] = 0 /\ 0 > 0 THEN First(h) ELSE @]
      BY <2>1 DEF Place
    <3>. QED  BY <1>2, <3>1
  <2>. QED  BY <1>7, <2>2, <2>3
<1>4. CASE debt[h] = 0 /\ which # First(h) /\ BranchOf(h, First(h)) \in linked
  <2>1. First(h) = 1 - which
    BY <1>1, <1>4 DEF Outputs
  <2>2. DebtAfter(debt[h], remembered[h], First(h), which, BranchOf(h, First(h)) \in linked) = 1
    BY <1>1, <1>4 DEF DebtAfter
  <2>3. debt' = [debt EXCEPT ![h] = 1]
    BY <2>2 DEF Place
  <2>4. remembered' = [remembered EXCEPT ![h] = 1 - which]
    <3>1. remembered' = [remembered EXCEPT ![h] = IF debt[h] = 0 /\ 1 > 0 THEN First(h) ELSE @]
      BY <2>2 DEF Place
    <3>. QED  BY <1>4, <2>1, <3>1
  <2>5. toggle' = toggle
    BY <2>2 DEF Place, ToggleAfter
  <2>6. BranchOf(h, which) = 1 - toggle
    BY <1>2, <1>4 DEF First, FirstOutput, OutputOf, BranchOf, Halves, Branches, Outputs
  <2>. QED  BY <1>4, <2>3, <2>4, <2>5, <2>6
<1>5. CASE debt[h] > 0 /\ which # remembered[h]
  BY <1>1, <1>2, <1>5, MemoryCapAssumption
     DEF Place, DebtAfter, ToggleAfter
<1>6. CASE debt[h] > 0 /\ which = remembered[h]
  BY <1>1, <1>2, <1>6, MemoryCapAssumption
     DEF Place, DebtAfter, ToggleAfter
<1>. QED  BY <1>2, <1>3, <1>4, <1>5, <1>6, <1>7

\* One item placed and posted: the state change of LedgerRoute.
ItemMoved(h, which) ==
  /\ Place(h, which)
  /\ Post(h, which)
  /\ linked' = linked

\* What a move of half h leaves behind, o being the other half: its own
\* books balance, o's are untouched, and the change of h's part of the drift
\* is covered by what expired and was written off.
BooksMoved(h, o) ==
  /\ debt'[h] \in 0..MemoryCap /\ debt'[o] = debt[o]
  /\ over' \in [Halves -> Nat] /\ over'[o] = over[o]
  /\ owed' \in [Halves -> Nat] /\ owed'[o] = owed[o]
  /\ owed'[h] = debt'[h] + over'[h]
  /\ debt'[h] = 0 => over'[h] = 0
  /\ writtenOff' \in Nat /\ started' \in Nat /\ expired' \in Nat
  /\ started' - expired' = (started - expired) + Running(debt'[h]) - Running(debt[h])
  /\ remembered'[o] = remembered[o]
  /\ linked = Branches =>
       \E change \in Int, more \in Int :
         /\ (sent'[0] - sent'[1]) + OwedToZero(h)' - toggle'
               = (sent[0] - sent[1]) + OwedToZero(h) - toggle + change
         /\ expired' + writtenOff' = (expired + writtenOff) + more
         /\ change <= more /\ 0 <= change + more

(* A bound that grows by at least the change keeps its hold.               *)
LEMMA BoundKept ==
  ASSUME NEW x \in Int, NEW change \in Int, NEW bound \in Int, NEW more \in Int,
         x <= bound, 0 <= x + bound, change <= more, 0 <= change + more
  PROVE  x + change <= bound + more /\ 0 <= (x + change) + (bound + more)
OBVIOUS

(* A placed and posted item keeps the books balanced.                      *)
LEMMA MovedInv ==
  ASSUME LInv, NEW h \in Halves, NEW which \in Outputs, ItemMoved(h, which), SInv'
  PROVE  LInv'
<1> DEFINE b == BranchOf(h, which)
           o == 1 - h
<1>1. /\ debt \in [Halves -> 0..MemoryCap] /\ owed \in [Halves -> Nat] /\ over \in [Halves -> Nat]
      /\ sent \in [Branches -> Nat] /\ remembered \in [Halves -> Outputs] /\ toggle \in {0, 1}
      /\ writtenOff \in Nat /\ started \in Nat /\ expired \in Nat
  BY DEF LInv, LedgerTypeOK, TypeOK, Branches
<1>2. h \in {0, 1} /\ o \in {0, 1} /\ o # h /\ b \in {0, 1} /\ which \in {0, 1}
  BY Renaming DEF Halves, Branches, Outputs
<1>3. sent' = [sent EXCEPT ![b] = sent[b] + 1] /\ linked' = linked
  BY DEF ItemMoved, Post
<1>4. /\ owed[h] = debt[h] + over[h] /\ owed[o] = debt[o] + over[o]
      /\ (debt[h] = 0 => over[h] = 0) /\ (debt[o] = 0 => over[o] = 0)
  BY <1>2 DEF LInv, DebtIsOwed, Halves
<1>5. started = expired + Running(debt[h]) + Running(debt[o])
  BY <1>1, <1>2, RunningIsBit DEF LInv, EpisodesMatch
<1>6. /\ Drift \in Int
      /\ linked = Branches =>
           Drift <= expired + writtenOff /\ 0 <= Drift + (expired + writtenOff)
      /\ Drift = (sent[0] - sent[1]) + OwedToZero(h) + OwedToZero(o) - toggle
  <2>1. OwedToZero(0) \in Int /\ OwedToZero(1) \in Int
    BY <1>1 DEF OwedToZero, Halves
  <2>2. OwedToZero(h) + OwedToZero(o) = OwedToZero(0) + OwedToZero(1)
    BY <1>2, <2>1
  <2>3. sent[0] \in Int /\ sent[1] \in Int /\ toggle \in Int
        /\ OwedToZero(h) \in Int /\ OwedToZero(o) \in Int
    BY <1>1, <1>2, <2>1 DEF Branches
  <2>4. Drift = (sent[0] - sent[1]) + OwedToZero(h) + OwedToZero(o) - toggle
    BY <2>1, <2>2, <2>3 DEF Drift
  <2>. QED  BY <2>1, <2>3, <2>4 DEF LInv, ImbalanceExplained, Drift
\* It is enough to find, for the half that moved, the new books and the
\* change of its part of the drift.
<1>7. SUFFICES BooksMoved(h, o)
  <2>1. LedgerTypeOK'
    BY <1>1, <1>2, <1>3, <1>7 DEF LedgerTypeOK, Branches, BooksMoved, SInv
  <2>2. DebtIsOwed' /\ (\A g \in Halves : debt'[g] = 0 => over'[g] = 0)
    BY <1>2, <1>4, <1>7 DEF DebtIsOwed, Halves, BooksMoved
  <2>3. EpisodesMatch'
    <3>1. started' = expired' + Running(debt'[h]) + Running(debt'[o])
      <4>1. /\ started' - expired' = (started - expired) + Running(debt'[h]) - Running(debt[h])
            /\ debt'[o] = debt[o] /\ started' \in Nat /\ expired' \in Nat
        BY <1>7 DEF BooksMoved
      <4>2. /\ Running(debt[h]) \in Nat /\ Running(debt[o]) \in Nat
            /\ Running(debt'[h]) \in Nat
        BY RunningIsBit
      <4>. QED  BY <1>1, <1>5, <4>1, <4>2
    <3>. QED  BY <1>2, <2>1, <3>1, RunningIsBit DEF EpisodesMatch, LedgerTypeOK
  <2>4. ASSUME linked = Branches PROVE ImbalanceExplained'
    <3>1. OwedToZero(0)' \in Int /\ OwedToZero(1)' \in Int
      BY <2>1 DEF LedgerTypeOK, TypeOK, OwedToZero, Halves
    <3>2. OwedToZero(h)' + OwedToZero(o)' = OwedToZero(0)' + OwedToZero(1)'
      BY <1>2, <3>1
    <3>3. /\ sent'[0] \in Int /\ sent'[1] \in Int /\ toggle' \in Int
          /\ OwedToZero(h)' \in Int /\ OwedToZero(o)' \in Int
      BY <1>2, <2>1, <3>1 DEF LedgerTypeOK, TypeOK, Branches
    <3>4. Drift' \in Int
          /\ Drift' = (sent'[0] - sent'[1]) + OwedToZero(h)' + OwedToZero(o)' - toggle'
      BY <3>1, <3>2, <3>3 DEF Drift
    <3>5. OwedToZero(o)' = OwedToZero(o)
      BY <1>7 DEF OwedToZero, BooksMoved
    <3>6. PICK change \in Int, more \in Int :
             /\ (sent'[0] - sent'[1]) + OwedToZero(h)' - toggle'
                   = (sent[0] - sent[1]) + OwedToZero(h) - toggle + change
             /\ expired' + writtenOff' = (expired + writtenOff) + more
             /\ change <= more /\ 0 <= change + more
      BY <1>7, <2>4 DEF BooksMoved
    <3>7. /\ sent[0] \in Int /\ sent[1] \in Int /\ toggle \in Int
          /\ OwedToZero(h) \in Int /\ OwedToZero(o) \in Int
      BY <1>1, <1>2 DEF Branches, Halves, OwedToZero
    <3>8. Drift' = Drift + change
      BY <1>6, <3>3, <3>4, <3>5, <3>6, <3>7
    <3>9. expired + writtenOff \in Int
      BY <1>1
    <3>10. Drift + change <= (expired + writtenOff) + more
           /\ 0 <= (Drift + change) + ((expired + writtenOff) + more)
      BY <1>6, <2>4, <3>6, <3>9, BoundKept
    <3>. QED  BY <3>6, <3>8, <3>10 DEF ImbalanceExplained
  <2>. QED  BY <1>3, <2>1, <2>2, <2>3, <2>4 DEF LInv, SInv, ImbalanceExplained
<1>8. /\ debt[h] \in 0..MemoryCap /\ debt[o] \in 0..MemoryCap
      /\ owed[h] \in Nat /\ owed[o] \in Nat /\ over[h] \in Nat /\ over[o] \in Nat
      /\ sent[0] \in Nat /\ sent[1] \in Nat /\ remembered[h] \in {0, 1}
  BY <1>1, <1>2 DEF Halves, Branches, Outputs
\* Where the two items of news are: the branch the item went to and the
\* branch the episode is about.
<1>9. /\ sent'[0] - sent'[1] = (sent[0] - sent[1]) + (1 - 2 * b)
      /\ BranchOf(h, 1 - which) = 1 - b
  <2>1. BranchOf(h, 1 - which) = 1 - b
    BY <1>2 DEF BranchOf
  <2> HIDE DEF b
  <2>2. CASE b = 0
    BY <1>1, <1>3, <1>8, <2>1, <2>2 DEF Branches
  <2>3. CASE b = 1
    BY <1>1, <1>3, <1>8, <2>1, <2>3 DEF Branches
  <2>. QED  BY <1>2, <2>2, <2>3
\* Nothing but h's books is posted.
<1>10. ASSUME NEW d \in 0..MemoryCap, NEW n \in Nat, NEW v \in Nat,
              debt' = [debt EXCEPT ![h] = d], owed' = [owed EXCEPT ![h] = n],
              over' = [over EXCEPT ![h] = v]
       PROVE  /\ debt'[h] = d /\ debt'[o] = debt[o]
              /\ owed'[h] = n /\ owed'[o] = owed[o] /\ owed' \in [Halves -> Nat]
              /\ over'[h] = v /\ over'[o] = over[o] /\ over' \in [Halves -> Nat]
  BY <1>1, <1>2, <1>10 DEF Halves
<1>11. CASE debt[h] = 0 /\ which = First(h)
  <2>1. /\ b = toggle /\ debt' = [debt EXCEPT ![h] = 0] /\ remembered' = remembered
        /\ toggle' = 1 - b
    BY <1>11, MoveKinds DEF ItemMoved
  <2>2. /\ owed' = [owed EXCEPT ![h] = 0] /\ over' = [over EXCEPT ![h] = 0]
        /\ writtenOff' = writtenOff /\ started' = started /\ expired' = expired
    BY <1>1, <1>4, <1>8, <1>11 DEF ItemMoved, Post, Returned, Diverted, Opened
  <2>3. 0 \in 0..MemoryCap
    BY MemoryCapAssumption
  <2>4. /\ debt'[h] = 0 /\ debt'[o] = debt[o]
        /\ owed'[h] = 0 /\ owed'[o] = owed[o] /\ owed' \in [Halves -> Nat]
        /\ over'[h] = 0 /\ over'[o] = over[o] /\ over' \in [Halves -> Nat]
    BY <1>10, <2>1, <2>2, <2>3
  <2>5. OwedToZero(h) = 0 /\ OwedToZero(h)' = 0
    <3>1. owed[h] = 0
      BY <1>4, <1>8, <1>11
    <3>. QED  BY <2>4, <3>1 DEF OwedToZero
  <2>6. /\ (sent'[0] - sent'[1]) + OwedToZero(h)' - toggle'
              = (sent[0] - sent[1]) + OwedToZero(h) - toggle + 0
        /\ expired' + writtenOff' = (expired + writtenOff) + 0
    <3> HIDE DEF b
    <3>1. sent'[0] - sent'[1] \in Int /\ sent[0] - sent[1] \in Int
      BY <1>2, <1>8, <1>9
    <3>. QED  BY <1>1, <1>2, <1>8, <1>9, <2>1, <2>2, <2>5, <3>1
  <2>. QED  BY <1>1, <1>2, <1>8, <1>11, <2>1, <2>2, <2>3, <2>4, <2>6, RunningIsBit DEF BooksMoved
<1>15. CASE debt[h] = 0 /\ which # First(h) /\ BranchOf(h, First(h)) \notin linked
  <2>1. debt' = [debt EXCEPT ![h] = 0] /\ remembered' = remembered
    BY <1>15, MoveKinds DEF ItemMoved
  <2>2. /\ owed' = [owed EXCEPT ![h] = 0] /\ over' = [over EXCEPT ![h] = 0]
        /\ writtenOff' = writtenOff /\ started' = started /\ expired' = expired
    BY <1>1, <1>4, <1>8, <1>15 DEF ItemMoved, Post, Returned, Diverted, Opened
  <2>3. 0 \in 0..MemoryCap
    BY MemoryCapAssumption
  <2>4. /\ debt'[h] = 0 /\ debt'[o] = debt[o]
        /\ owed'[h] = 0 /\ owed'[o] = owed[o] /\ owed' \in [Halves -> Nat]
        /\ over'[h] = 0 /\ over'[o] = over[o] /\ over' \in [Halves -> Nat]
    BY <1>10, <2>1, <2>2, <2>3
  <2>5. linked # Branches
    <3>1. First(h) \in Outputs
      BY FirstIsOutput DEF LInv, LedgerTypeOK
    <3>. QED  BY <1>15, <3>1, Renaming DEF Outputs
  <2>. QED  BY <1>1, <1>2, <1>8, <1>15, <2>1, <2>2, <2>3, <2>4, <2>5, RunningIsBit DEF BooksMoved
<1>12. CASE debt[h] = 0 /\ which # First(h) /\ BranchOf(h, First(h)) \in linked
  <2>1. /\ b = 1 - toggle /\ debt' = [debt EXCEPT ![h] = 1]
        /\ remembered' = [remembered EXCEPT ![h] = 1 - which]
        /\ toggle' = toggle
    BY <1>12, MoveKinds DEF ItemMoved
  <2>2. /\ owed' = [owed EXCEPT ![h] = 1] /\ over' = [over EXCEPT ![h] = 0]
        /\ writtenOff' = writtenOff /\ started' = started + 1 /\ expired' = expired
    BY <1>1, <1>4, <1>8, <1>12 DEF ItemMoved, Post, Returned, Diverted, Opened
  <2>3. 1 \in 0..MemoryCap
    BY MemoryCapAssumption
  <2>4. /\ debt'[h] = 1 /\ debt'[o] = debt[o]
        /\ owed'[h] = 1 /\ owed'[o] = owed[o] /\ owed' \in [Halves -> Nat]
        /\ over'[h] = 0 /\ over'[o] = over[o] /\ over' \in [Halves -> Nat]
    BY <1>10, <2>1, <2>2, <2>3
  <2>5. remembered'[h] = 1 - which /\ remembered'[o] = remembered[o]
    BY <1>1, <1>2, <2>1 DEF Halves
  <2>6. OwedToZero(h) = 0 /\ OwedToZero(h)' = 2 * b - 1
    <3>1. owed[h] = 0
      BY <1>4, <1>8, <1>12
    <3>2. OwedToZero(h)' = IF BranchOf(h, 1 - which) = 0 THEN 1 ELSE -1
      BY <2>4, <2>5 DEF OwedToZero
    <3> HIDE DEF b
    <3>. QED  BY <1>2, <1>9, <3>1, <3>2 DEF OwedToZero
  <2>7. /\ (sent'[0] - sent'[1]) + OwedToZero(h)' - toggle'
              = (sent[0] - sent[1]) + OwedToZero(h) - toggle + 0
        /\ expired' + writtenOff' = (expired + writtenOff) + 0
    <3> HIDE DEF b
    <3>1. sent'[0] - sent'[1] \in Int /\ sent[0] - sent[1] \in Int
      BY <1>2, <1>8, <1>9
    <3>. QED  BY <1>1, <1>2, <1>8, <1>9, <2>1, <2>2, <2>6, <3>1
  <2>. QED  BY <1>1, <1>2, <1>8, <1>12, <2>2, <2>3, <2>4, <2>5, <2>7 DEF BooksMoved, Running
<1>13. CASE debt[h] > 0 /\ which # remembered[h]
  <2> DEFINE more == IF debt[h] = MemoryCap THEN 1 ELSE 0
  <2>1. /\ debt' = [debt EXCEPT ![h] = debt[h] + 1 - more]
        /\ remembered' = remembered /\ toggle' = toggle
    BY <1>8, <1>13, MoveKinds, MemoryCapAssumption DEF ItemMoved
  <2>2. /\ owed' = [owed EXCEPT ![h] = owed[h] + 1]
        /\ over' = [over EXCEPT ![h] = over[h] + more]
        /\ writtenOff' = writtenOff /\ started' = started /\ expired' = expired
    <3>1. ~Returned(h, which) /\ Diverted(h, which) /\ ~Opened(h, which)
      BY <1>8, <1>13 DEF Returned, Diverted, Opened
    <3>2. over' = [over EXCEPT ![h] = IF debt[h] = MemoryCap THEN over[h] + 1 ELSE over[h]]
      BY <3>1 DEF ItemMoved, Post
    <3>3. (IF debt[h] = MemoryCap THEN over[h] + 1 ELSE over[h]) = over[h] + more
      BY <1>8
    <3>4. owed' = [owed EXCEPT ![h] = owed[h] + 1] /\ writtenOff' = writtenOff
          /\ started' = started /\ expired' = expired
      BY <1>1, <3>1 DEF ItemMoved, Post
    <3>. QED  BY <3>2, <3>3, <3>4
  <2>3. debt[h] + 1 - more \in 0..MemoryCap /\ debt[h] + 1 - more > 0
        /\ owed[h] + 1 \in Nat /\ over[h] + more \in Nat
    BY <1>8, <1>13, MemoryCapAssumption
  <2>4. more \in Nat
    OBVIOUS
  <2> HIDE DEF more
  <2>5. /\ debt'[h] = debt[h] + 1 - more /\ debt'[o] = debt[o]
        /\ owed'[h] = owed[h] + 1 /\ owed'[o] = owed[o] /\ owed' \in [Halves -> Nat]
        /\ over'[h] = over[h] + more /\ over'[o] = over[o] /\ over' \in [Halves -> Nat]
    BY <1>10, <2>1, <2>2, <2>3
  <2>6. OwedToZero(h)' = OwedToZero(h) + (2 * b - 1) /\ OwedToZero(h) \in Int
    <3>1. BranchOf(h, remembered[h]) = 1 - b
      <4>1. remembered[h] = 1 - which
        BY <1>2, <1>8, <1>13
      <4>. QED  BY <1>9, <4>1
    <3> HIDE DEF b
    <3>. QED  BY <1>2, <1>8, <2>1, <2>5, <3>1 DEF OwedToZero
  <2>7. /\ (sent'[0] - sent'[1]) + OwedToZero(h)' - toggle'
              = (sent[0] - sent[1]) + OwedToZero(h) - toggle + 0
        /\ expired' + writtenOff' = (expired + writtenOff) + 0
    <3> HIDE DEF b
    <3>1. sent'[0] - sent'[1] \in Int /\ sent[0] - sent[1] \in Int
      BY <1>2, <1>8, <1>9
    <3>. QED  BY <1>1, <1>2, <1>8, <1>9, <2>1, <2>2, <2>6, <3>1
  <2>8. Running(debt'[h]) = 1 /\ Running(debt[h]) = 1
    BY <1>13, <2>3, <2>5 DEF Running
  <2>9. owed'[h] = debt'[h] + over'[h]
    BY <1>4, <1>8, <2>4, <2>5
  <2>. QED  BY <1>1, <2>1, <2>2, <2>3, <2>5, <2>7, <2>8, <2>9 DEF BooksMoved
<1>14. CASE debt[h] > 0 /\ which = remembered[h]
  <2>1. /\ debt' = [debt EXCEPT ![h] = debt[h] - 1] /\ remembered' = remembered
        /\ toggle' = IF debt[h] = 1 THEN 1 - b ELSE toggle
    BY <1>8, <1>14, MoveKinds DEF ItemMoved
  <2>2. Returned(h, which) /\ ~Diverted(h, which) /\ ~Opened(h, which)
    BY <1>8, <1>14 DEF Returned, Diverted, Opened
  <2>3. debt[h] - 1 \in 0..MemoryCap /\ owed[h] - 1 \in Nat /\ 0 \in Nat
    <3>1. debt[h] - 1 \in 0..MemoryCap
      BY <1>8, <1>14, MemoryCapAssumption
    <3>2. owed[h] - 1 \in Nat
      BY <1>4, <1>8, <1>14
    <3>. QED  BY <3>1, <3>2
  <2>4. BranchOf(h, remembered[h]) = b
    BY <1>14
  <2>5. CASE debt[h] > 1
    <3>1. /\ owed' = [owed EXCEPT ![h] = owed[h] - 1] /\ over' = [over EXCEPT ![h] = over[h]]
          /\ writtenOff' = writtenOff /\ started' = started /\ expired' = expired
      <4>1. debt[h] # 1
        BY <1>8, <2>5
      <4>2. over' = [over EXCEPT ![h] = over[h]]
        BY <2>2, <4>1 DEF ItemMoved, Post
      <4>3. owed' = [owed EXCEPT ![h] = owed[h] - 1]
        BY <2>2, <4>1 DEF ItemMoved, Post
      <4>4. writtenOff' = writtenOff /\ started' = started /\ expired' = expired
        BY <1>1, <2>2, <4>1 DEF ItemMoved, Post
      <4>. QED  BY <4>2, <4>3, <4>4
    <3>2. /\ debt'[h] = debt[h] - 1 /\ debt'[o] = debt[o]
          /\ owed'[h] = owed[h] - 1 /\ owed'[o] = owed[o] /\ owed' \in [Halves -> Nat]
          /\ over'[h] = over[h] /\ over'[o] = over[o] /\ over' \in [Halves -> Nat]
      BY <1>8, <1>10, <2>1, <2>3, <3>1
    <3>3. OwedToZero(h)' = OwedToZero(h) + (2 * b - 1) /\ OwedToZero(h) \in Int
      <4> HIDE DEF b
      <4>. QED  BY <1>2, <1>8, <2>1, <2>4, <3>2 DEF OwedToZero
    <3>4. /\ (sent'[0] - sent'[1]) + OwedToZero(h)' - toggle'
                = (sent[0] - sent[1]) + OwedToZero(h) - toggle + 0
          /\ expired' + writtenOff' = (expired + writtenOff) + 0
      <4> HIDE DEF b
      <4>1. sent'[0] - sent'[1] \in Int /\ sent[0] - sent[1] \in Int
        BY <1>2, <1>8, <1>9
      <4>. QED  BY <1>1, <1>2, <1>8, <1>9, <2>1, <2>5, <3>1, <3>3, <4>1
    <3>5. Running(debt'[h]) = 1 /\ Running(debt[h]) = 1
      BY <1>8, <2>5, <3>2 DEF Running
    <3>6. owed'[h] = debt'[h] + over'[h] /\ debt'[h] # 0
      BY <1>4, <1>8, <2>5, <3>2
    <3>. QED  BY <1>1, <2>1, <2>3, <3>1, <3>2, <3>4, <3>5, <3>6 DEF BooksMoved
  <2>6. CASE debt[h] = 1
    <3>1. /\ owed' = [owed EXCEPT ![h] = 0] /\ over' = [over EXCEPT ![h] = 0]
          /\ writtenOff' = writtenOff + over[h] /\ started' = started /\ expired' = expired + 1
      BY <1>1, <1>8, <2>2, <2>6 DEF ItemMoved, Post
    <3>2. /\ debt'[h] = 0 /\ debt'[o] = debt[o]
          /\ owed'[h] = 0 /\ owed'[o] = owed[o] /\ owed' \in [Halves -> Nat]
          /\ over'[h] = 0 /\ over'[o] = over[o] /\ over' \in [Halves -> Nat]
      <4>1. debt' = [debt EXCEPT ![h] = 0] /\ 0 \in 0..MemoryCap /\ 0 \in Nat
        BY <2>1, <2>3, <2>6
      <4>. QED  BY <1>10, <3>1, <4>1
    <3>3. OwedToZero(h)' = 0
      BY <3>2 DEF OwedToZero
    <3>4. PICK change \in Int :
            /\ (sent'[0] - sent'[1]) + OwedToZero(h)' - toggle'
                 = (sent[0] - sent[1]) + OwedToZero(h) - toggle + change
            /\ change <= 1 + over[h] /\ 0 <= change + (1 + over[h])
      <4>1. owed[h] = 1 + over[h]
        BY <1>4, <2>6
      <4>2. toggle' = 1 - b
        BY <2>1, <2>6
      <4> HIDE DEF b
      <4>3. sent'[0] - sent'[1] \in Int /\ sent[0] - sent[1] \in Int
        BY <1>2, <1>8, <1>9
      <4>4. CASE b = 0
        <5>1. OwedToZero(h) = 1 + over[h]
          BY <2>4, <4>1, <4>4 DEF OwedToZero
        <5>2. toggle - over[h] - 1 \in Int
          BY <1>1, <1>8
        <5>3. WITNESS toggle - over[h] - 1 \in Int
        <5>. QED  BY <1>1, <1>8, <1>9, <3>3, <4>2, <4>3, <4>4, <5>1
      <4>5. CASE b = 1
        <5>1. OwedToZero(h) = 0 - (1 + over[h])
          BY <2>4, <4>1, <4>5 DEF OwedToZero
        <5>2. toggle + over[h] \in Int
          BY <1>1, <1>8
        <5>3. WITNESS toggle + over[h] \in Int
        <5>. QED  BY <1>1, <1>8, <1>9, <3>3, <4>2, <4>3, <4>5, <5>1
      <4>. QED  BY <1>2, <4>4, <4>5
    <3>5. Running(debt'[h]) = 0 /\ Running(debt[h]) = 1
      BY <2>6, <3>2 DEF Running
    <3>6. /\ owed'[h] = debt'[h] + over'[h] /\ expired' \in Nat /\ writtenOff' \in Nat
          /\ started' - expired' = (started - expired) + 0 - 1 /\ 1 + over[h] \in Int
          /\ expired' + writtenOff' = (expired + writtenOff) + (1 + over[h])
      BY <1>1, <1>8, <3>1, <3>2
    <3>. QED  BY <1>1, <2>1, <2>3, <2>6, <3>1, <3>2, <3>4, <3>5, <3>6 DEF BooksMoved
  <2>. QED  BY <1>8, <1>14, <2>5, <2>6
<1>. QED  BY <1>8, <1>11, <1>12, <1>13, <1>14, <1>15
-----------------------------------------------------------------------------
(* Every routed item keeps the books balanced, and a blocked one leaves    *)
(* them alone.                                                             *)
LEMMA LedgerStep == LInv /\ SInv /\ [LedgerNext]_<<vars, books>> => (LInv /\ SInv)'
<1> SUFFICES ASSUME LInv, SInv, [LedgerNext]_<<vars, books>> PROVE LInv' /\ SInv'
  OBVIOUS
<1>1. SInv'
  <2>1. [Next]_vars
    BY DEF LedgerNext, LedgerRoute, LedgerBlocked, Next, Attempt, vars
  <2>. QED  BY <2>1, SplitterStep
<1>2. TypeOK'
  BY <1>1 DEF SInv
<1>3. ASSUME NEW h \in Halves, LedgerRoute(h) PROVE LInv'
  <2>1. First(h) \in Outputs /\ 1 - First(h) \in Outputs
    BY FirstIsOutput DEF SInv, Outputs
  <2>2. CASE RouteFirst(h) /\ Post(h, First(h))
    BY <1>2, <1>3, <2>1, <2>2, <1>1, MovedInv DEF ItemMoved, RouteFirst, LedgerRoute
  <2>3. CASE RouteFallback(h) /\ Post(h, 1 - First(h))
    BY <1>2, <1>3, <2>1, <2>3, <1>1, MovedInv DEF ItemMoved, RouteFallback, LedgerRoute
  <2>. QED  BY <1>3, <2>2, <2>3 DEF LedgerRoute
<1>4. ASSUME toggle' = toggle, remembered' = remembered, debt' = debt, linked' = linked,
             books' = books
      PROVE  LInv'
  BY <1>1, <1>2, <1>4
     DEF LInv, SInv, LedgerTypeOK, books, DebtIsOwed, EpisodesMatch, ImbalanceExplained, Drift,
         OwedToZero
<1>5. ASSUME NEW h \in Halves, LedgerBlocked(h) PROVE LInv'
  BY <1>4, <1>5 DEF LedgerBlocked, Blocked
<1>6. CASE UNCHANGED <<vars, books>>
  <2>1. vars' = vars /\ books' = books
    BY <1>6
  <2>2. toggle' = toggle /\ remembered' = remembered /\ debt' = debt /\ linked' = linked
    BY <2>1 DEF vars
  <2>. QED  BY <1>1, <1>4, <2>1, <2>2
<1>. QED  BY <1>1, <1>3, <1>5, <1>6 DEF LedgerNext

(* Every behaviour of the ledger stays within its invariant.               *)
LEMMA LedgerInductive == LedgerSpec => [](LInv /\ SInv)
<1>1. LedgerInit => LInv /\ SInv
  BY LedgerInitInv, SplitterInit DEF LedgerInit
<1>. QED  BY <1>1, LedgerStep, PTL DEF LedgerSpec

(* The ledger only watches: what it does to the splitter is what the       *)
(* splitter may do on its own.                                             *)
THEOREM LedgerIsSplitter == LedgerSpec => Spec
<1>1. LedgerInit => Init
  BY DEF LedgerInit
<1>2. [LedgerNext]_<<vars, books>> => [Next]_vars
  BY DEF LedgerNext, LedgerRoute, LedgerBlocked, Next, Attempt, vars
<1>. QED  BY <1>1, <1>2, PTL DEF LedgerSpec, Spec

(* For every cap and window: every book keeps its type.                    *)
THEOREM LedgerTypeCorrect == LedgerSpec => []LedgerTypeOK
<1>1. LInv => LedgerTypeOK
  BY DEF LInv
<1>. QED  BY <1>1, LedgerInductive, PTL

(* For every cap: what a half owes is what it diverted and has not         *)
(* returned, less what the cap forgot.                                     *)
THEOREM OwedIsRemembered == LedgerSpec => []DebtIsOwed
<1>1. LInv => DebtIsOwed
  BY DEF LInv
<1>. QED  BY <1>1, LedgerInductive, PTL

(* For every cap: memory_started and memory_expired differ by the episodes *)
(* that are running.                                                       *)
THEOREM EpisodesAddUp == LedgerSpec => []EpisodesMatch
<1>1. LInv => EpisodesMatch
  BY DEF LInv
<1>. QED  BY <1>1, LedgerInductive, PTL

(* For every cap and however long the splitter runs: the two branches are  *)
(* even up to what is owed, what the cap forgot and one item per episode.  *)
THEOREM BranchesBalance == LedgerSpec => []ImbalanceExplained
<1>1. LInv => ImbalanceExplained
  BY DEF LInv
<1>. QED  BY <1>1, LedgerInductive, PTL
-----------------------------------------------------------------------------
(* Items on belts: one lane.                                               *)

(* A lane of the network: slots counted from the entry, and no item twice. *)
LaneOK(lane) ==
  /\ \E k \in 1 .. SlotsPerTile : SlotsOf(lane) = 0 .. (k - 1)
  /\ \A i \in SlotsOf(lane) : lane.slots[i] \in Nat
  /\ \A i, j \in SlotsOf(lane) : lane.slots[i] = lane.slots[j] /\ lane.slots[i] # Empty => i = j

(* The exit is a slot.                                                     *)
LEMMA ExitIsASlot ==
  ASSUME NEW lane, LaneOK(lane)
  PROVE  Exit(lane) \in SlotsOf(lane)
<1>1. PICK k \in 1 .. SlotsPerTile : SlotsOf(lane) = 0 .. (k - 1)
  BY DEF LaneOK
<1>2. k - 1 \in SlotsOf(lane) /\ \A j \in SlotsOf(lane) : j <= k - 1
  BY <1>1, NetworkAssumption
<1>. QED  BY <1>2 DEF Exit

(* An item put on a free slot is on the lane with those that were there.   *)
LEMMA PutsOn ==
  ASSUME NEW lane, LaneOK(lane), NEW i \in Free(lane),
         NEW item \in Nat \ {Empty}, item \notin ItemsOn(lane), NEW offset
  PROVE  LaneOK(Put(lane, i, item, offset)) /\ ItemsOn(Put(lane, i, item, offset)) = ItemsOn(lane) \cup {item}
<1> DEFINE new == Put(lane, i, item, offset)
<1>1. new.slots = [lane.slots EXCEPT ![i] = item]
  BY DEF Put
<1>2. i \in SlotsOf(lane) /\ lane.slots[i] = Empty
  BY DEF Free
<1>3. SlotsOf(new) = SlotsOf(lane) /\ \A j \in SlotsOf(lane) : new.slots[j] = IF j = i THEN item ELSE lane.slots[j]
  BY <1>1, <1>2 DEF SlotsOf
<1> HIDE DEF new
<1>4. \A j \in SlotsOf(lane) : lane.slots[j] # item
  BY DEF ItemsOn, Occupied
<1>5. LaneOK(new)
  BY <1>3, <1>4 DEF LaneOK
<1>6. ItemsOn(new) = ItemsOn(lane) \cup {item}
  BY <1>2, <1>3 DEF ItemsOn, Occupied
<1>. QED  BY <1>5, <1>6 DEF new

(* What is taken off is what was on the slots taken.                       *)
LEMMA TakesOff ==
  ASSUME NEW lane, LaneOK(lane), NEW taken
  PROVE  /\ LaneOK(Without(lane, taken))
         /\ ItemsOn(Without(lane, taken)) = ItemsOn(lane) \ {lane.slots[i] : i \in taken \cap SlotsOf(lane)}
<1> DEFINE new == Without(lane, taken)
<1>1. SlotsOf(new) = SlotsOf(lane) /\ \A i \in SlotsOf(lane) : new.slots[i] = IF i \in taken THEN Empty ELSE lane.slots[i]
  BY DEF Without, SlotsOf
<1> HIDE DEF new
<1>2. LaneOK(new)
  BY <1>1 DEF LaneOK, Empty
<1>3. ItemsOn(new) = ItemsOn(lane) \ {lane.slots[i] : i \in taken \cap SlotsOf(lane)}
  BY <1>1 DEF ItemsOn, Occupied, LaneOK
<1>. QED  BY <1>2, <1>3 DEF new

(* Moving up keeps every item, and keeps them apart.                       *)
LEMMA MovesUp ==
  ASSUME NEW lane, LaneOK(lane)
  PROVE  LaneOK(ShiftForward(lane)) /\ ItemsOn(ShiftForward(lane)) = ItemsOn(lane)
<1> DEFINE new == ShiftForward(lane)
<1>1. /\ SlotsOf(new) = SlotsOf(lane)
      /\ \A i \in SlotsOf(lane) :
           new.slots[i] = IF ~Clears(lane, i) THEN lane.slots[i]
                          ELSE IF i = 0 THEN Empty ELSE lane.slots[i - 1]
  BY DEF ShiftForward, Shifted, SlotsOf
<1> HIDE DEF new
<1>2. PICK k \in 1 .. SlotsPerTile : SlotsOf(lane) = 0 .. (k - 1)
  BY DEF LaneOK
<1>3. k \in Nat /\ \A i \in SlotsOf(lane) : lane.slots[i] \in Nat
  BY <1>2, NetworkAssumption DEF LaneOK
<1>4. ASSUME NEW i \in SlotsOf(lane), Clears(lane, i), lane.slots[i] # Empty
      PROVE  i + 1 \in SlotsOf(lane) /\ Clears(lane, i + 1)
  BY <1>2, <1>3, <1>4 DEF Clears, Free
<1>5. ASSUME NEW i \in SlotsOf(lane), NEW j \in SlotsOf(lane), Clears(lane, i), j <= i PROVE Clears(lane, j)
  BY <1>2, <1>3, <1>5 DEF Clears, Free
<1>6. ASSUME NEW i \in SlotsOf(lane), new.slots[i] # Empty
      PROVE  \E j \in SlotsOf(lane) : /\ new.slots[i] = lane.slots[j] /\ (Clears(lane, j) => i = j + 1)
                                      /\ (~Clears(lane, j) => i = j)
  <2>1. CASE ~Clears(lane, i)
    BY <1>1, <2>1
  <2>2. CASE Clears(lane, i)
    <3>1. i # 0 /\ i - 1 \in SlotsOf(lane) /\ new.slots[i] = lane.slots[i - 1]
      BY <1>1, <1>2, <1>3, <1>6, <2>2
    <3>2. Clears(lane, i - 1)
      BY <1>2, <1>3, <1>5, <2>2, <3>1
    <3>. QED  BY <1>2, <1>3, <3>1, <3>2
  <2>. QED  BY <2>1, <2>2
<1>7. LaneOK(new)
  <2>1. \A i \in SlotsOf(lane) : new.slots[i] \in Nat
    BY <1>1, <1>2, <1>3 DEF Empty
  <2>2. ASSUME NEW i \in SlotsOf(lane), NEW j \in SlotsOf(lane), new.slots[i] = new.slots[j], new.slots[i] # Empty
        PROVE  i = j
    BY <1>6, <2>2 DEF LaneOK
  <2>. QED  BY <1>1, <1>2, <2>1, <2>2 DEF LaneOK
<1>8. ASSUME NEW x PROVE x \in ItemsOn(new) <=> x \in ItemsOn(lane)
  <2>1. ASSUME x \in ItemsOn(new) PROVE x \in ItemsOn(lane)
    BY <1>1, <1>6, <2>1 DEF ItemsOn, Occupied
  <2>2. ASSUME x \in ItemsOn(lane) PROVE x \in ItemsOn(new)
    <3>1. PICK i \in SlotsOf(lane) : lane.slots[i] # Empty /\ x = lane.slots[i]
      BY <2>2 DEF ItemsOn, Occupied
    <3>2. CASE ~Clears(lane, i)
      BY <1>1, <3>1, <3>2 DEF ItemsOn, Occupied
    <3>3. CASE Clears(lane, i)
      <4>1. i + 1 \in SlotsOf(lane) /\ Clears(lane, i + 1) /\ i + 1 # 0 /\ (i + 1) - 1 = i
        BY <1>2, <1>3, <1>4, <3>1, <3>3
      <4>2. new.slots[i + 1] = lane.slots[i]
        BY <1>1, <4>1
      <4>. QED  BY <1>1, <3>1, <4>1, <4>2 DEF ItemsOn, Occupied
    <3>. QED  BY <3>2, <3>3
  <2>. QED  BY <2>1, <2>2
<1>. QED  BY <1>7, <1>8 DEF new

(* Items moved aside towards a free slot make room for one more.           *)
LEMMA MakesRoom ==
  ASSUME NEW lane, LaneOK(lane), NEW free \in Free(lane), NEW at \in SlotsOf(lane), at # free,
         NEW item \in Nat \ {Empty}, item \notin ItemsOn(lane), NEW offset
  PROVE  /\ LaneOK(Put(MakeRoom(lane, free, at), at, item, offset))
         /\ ItemsOn(Put(MakeRoom(lane, free, at), at, item, offset)) = ItemsOn(lane) \cup {item}
<1> DEFINE from(i) == IF free <= i /\ i < at THEN i + 1
                      ELSE IF at < i /\ i <= free THEN i - 1 ELSE i
           room == MakeRoom(lane, free, at)
           new == Put(room, at, item, offset)
<1>1. PICK k \in 1 .. SlotsPerTile : SlotsOf(lane) = 0 .. (k - 1)
  BY DEF LaneOK
<1>2. k \in Nat /\ (\A i \in SlotsOf(lane) : lane.slots[i] \in Nat) /\ free \in SlotsOf(lane) /\ lane.slots[free] = Empty
  BY <1>1, NetworkAssumption DEF LaneOK, Free
<1>3. room.slots = [i \in SlotsOf(lane) |-> lane.slots[from(i)]]
  BY DEF MakeRoom
<1>4. new.slots = [room.slots EXCEPT ![at] = item]
  BY DEF Put
<1>5. /\ SlotsOf(new) = SlotsOf(lane)
      /\ \A i \in SlotsOf(lane) : new.slots[i] = IF i = at THEN item ELSE lane.slots[from(i)]
  BY <1>3, <1>4 DEF SlotsOf
<1> HIDE DEF new, room
<1>6. \A i \in SlotsOf(lane) : from(i) \in SlotsOf(lane)
  BY <1>1, <1>2
<1>7. \A i, j \in SlotsOf(lane) \ {at} : from(i) = from(j) => i = j
  BY <1>1, <1>2
<1>8. \A j \in SlotsOf(lane) \ {free} : \E i \in SlotsOf(lane) \ {at} : from(i) = j
  <2> SUFFICES ASSUME NEW j \in SlotsOf(lane) \ {free} PROVE \E i \in SlotsOf(lane) \ {at} : from(i) = j
    OBVIOUS
  <2>1. CASE free < j /\ j <= at
    <3>1. j - 1 \in SlotsOf(lane) \ {at} /\ from(j - 1) = j
      BY <1>1, <1>2, <2>1
    <3>. QED  BY <3>1
  <2>2. CASE at <= j /\ j < free
    <3>1. j + 1 \in SlotsOf(lane) \ {at} /\ from(j + 1) = j
      BY <1>1, <1>2, <2>2
    <3>. QED  BY <3>1
  <2>3. CASE ~(free < j /\ j <= at) /\ ~(at <= j /\ j < free)
    <3>1. j \in SlotsOf(lane) \ {at} /\ from(j) = j
      BY <1>1, <1>2, <2>3
    <3>. QED  BY <3>1
  <2>. QED  BY <2>1, <2>2, <2>3
<1> HIDE DEF from
<1>9. \A j \in SlotsOf(lane) : lane.slots[j] # item
  BY DEF ItemsOn, Occupied
<1>10. LaneOK(new)
  <2>1. \A i \in SlotsOf(lane) : new.slots[i] \in Nat
    BY <1>2, <1>5, <1>6
  <2>2. ASSUME NEW i \in SlotsOf(lane), NEW j \in SlotsOf(lane), new.slots[i] = new.slots[j], new.slots[i] # Empty
        PROVE  i = j
    BY <1>5, <1>6, <1>7, <1>9, <2>2 DEF LaneOK
  <2>. QED  BY <1>1, <1>5, <2>1, <2>2 DEF LaneOK
<1>11. ItemsOn(new) = ItemsOn(lane) \cup {item}
  <2>1. ItemsOn(new) \subseteq ItemsOn(lane) \cup {item}
    BY <1>5, <1>6 DEF ItemsOn, Occupied
  <2>2. item \in ItemsOn(new)
    BY <1>5 DEF ItemsOn, Occupied
  <2>3. ASSUME NEW x \in ItemsOn(lane) PROVE x \in ItemsOn(new)
    <3>1. PICK j \in SlotsOf(lane) \ {free} : lane.slots[j] # Empty /\ x = lane.slots[j]
      BY <1>2 DEF ItemsOn, Occupied
    <3>2. PICK i \in SlotsOf(lane) \ {at} : from(i) = j
      BY <1>8
    <3>3. new.slots[i] = x /\ i \in SlotsOf(new)
      BY <1>5, <3>1, <3>2
    <3>. QED  BY <3>1, <3>3 DEF ItemsOn, Occupied
  <2>. QED  BY <2>1, <2>2, <2>3
<1>. QED  BY <1>10, <1>11 DEF new, room

(* However an item gets onto a lane beside others, it is there with them.  *)
LEMMA Inserted ==
  ASSUME NEW lane, LaneOK(lane), NEW position, NEW phase, NEW mode,
         NEW item \in Nat \ {Empty}, item \notin ItemsOn(lane),
         NEW new \in InsertionsAt(lane, position, phase, item, mode)
  PROVE  LaneOK(new) /\ ItemsOn(new) = ItemsOn(lane) \cup {item}
<1>1. \/ \E i \in Free(lane), o \in {Residual(position, j, phase) : j \in SlotsOf(lane)} : new = Put(lane, i, item, o)
      \/ \E i \in Free(lane), n \in SlotsOf(lane), o \in {Residual(position, j, phase) : j \in SlotsOf(lane)} :
           i # n /\ new = Put(MakeRoom(lane, i, n), n, item, o)
  BY DEF InsertionsAt, Nearest, ClosestFreeBelow, ClosestFreeAbove, Free, Nearby, Occupied
<1>. QED  BY <1>1, PutsOn, MakesRoom
-----------------------------------------------------------------------------
(* A network in which no item is twice, and what has left is gone.         *)
Fields == {"lanes", "toggle", "debt", "remembered", "exitedLog"}
Shape(n) == DOMAIN n = Fields /\ DOMAIN n.lanes = TileIds /\ \A t \in TileIds : DOMAIN n.lanes[t] = Lanes
On(n, t, l) == ItemsOn(n.lanes[t][l])
LanesApart(n) ==
  \A t, u \in TileIds, l, k \in Lanes : On(n, t, l) \cap On(n, u, k) # {} => t = u /\ l = k
Sound(n) ==
  /\ Shape(n)
  /\ \A t \in TileIds, l \in Lanes : LaneOK(n.lanes[t][l])
  /\ LanesApart(n)
LogOK(n) == n.exitedLog \in Seq(Nat) /\ ItemsIn(n) \cap Range(n.exitedLog) = {}
Content(n) == ItemsIn(n) \cup Range(n.exitedLog)

(* An item is in the network when it is on a lane of a tile.               *)
LEMMA InIsOn ==
  ASSUME NEW n, Shape(n), NEW x
  PROVE  x \in ItemsIn(n) <=> \E t \in TileIds, l \in Lanes : x \in On(n, t, l)
BY DEF ItemsIn, ItemsOnTile, On

(* A network whose lanes hold what those of a sound one hold.              *)
LEMMA SameItems ==
  ASSUME NEW n, Sound(n), NEW m, Shape(m),
         \A t \in TileIds, l \in Lanes : LaneOK(m.lanes[t][l]) /\ On(m, t, l) = On(n, t, l)
  PROVE  Sound(m) /\ ItemsIn(m) = ItemsIn(n)
<1>1. ItemsIn(m) = ItemsIn(n)
  <2>1. ASSUME NEW x PROVE x \in ItemsIn(m) <=> x \in ItemsIn(n)
    BY InIsOn DEF Sound
  <2>. QED  BY <2>1
<1>2. LanesApart(m)
  <2> SUFFICES ASSUME NEW t \in TileIds, NEW u \in TileIds, NEW l \in Lanes, NEW k \in Lanes,
                      On(m, t, l) \cap On(m, u, k) # {}
               PROVE  t = u /\ l = k
    BY DEF LanesApart
  <2>1. On(m, t, l) = On(n, t, l) /\ On(m, u, k) = On(n, u, k)
    OBVIOUS
  <2>. QED  BY <2>1 DEF Sound, LanesApart
<1>. QED  BY <1>1, <1>2 DEF Sound

(* An item that goes from one lane to another is where it went to.         *)
LEMMA ItemMoves ==
  ASSUME NEW n, Sound(n), NEW t \in TileIds, NEW l \in Lanes, NEW u \in TileIds, NEW k \in Lanes,
         t # u, NEW item \in On(n, t, l),
         NEW m, Shape(m),
         \A v \in TileIds, j \in Lanes :
           /\ LaneOK(m.lanes[v][j])
           /\ On(m, v, j) = IF v = u /\ j = k THEN On(n, u, k) \cup {item}
                            ELSE IF v = t /\ j = l THEN On(n, t, l) \ {item}
                            ELSE On(n, v, j)
  PROVE  Sound(m) /\ ItemsIn(m) = ItemsIn(n)
<1>1. \A v \in TileIds, j \in Lanes : item \in On(n, v, j) => v = t /\ j = l
  BY DEF Sound, LanesApart
<1>2. ItemsIn(m) = ItemsIn(n)
  <2>1. ASSUME NEW x \in ItemsIn(m) PROVE x \in ItemsIn(n)
    <3>1. PICK v \in TileIds, j \in Lanes : x \in On(m, v, j)
      BY <2>1, InIsOn
    <3>2. x \in On(n, v, j) \/ x = item
      BY <3>1
    <3>. QED  BY <3>2, InIsOn DEF Sound
  <2>2. ASSUME NEW x \in ItemsIn(n) PROVE x \in ItemsIn(m)
    <3>1. PICK v \in TileIds, j \in Lanes : x \in On(n, v, j)
      BY <2>2, InIsOn DEF Sound
    <3>2. CASE x = item
      <4>1. x \in On(m, u, k)
        BY <3>2
      <4>. QED  BY <4>1, InIsOn
    <3>3. CASE x # item
      <4>1. x \in On(m, v, j)
        BY <3>1, <3>3
      <4>. QED  BY <4>1, InIsOn
    <3>. QED  BY <3>2, <3>3
  <2>. QED  BY <2>1, <2>2
<1>3. LanesApart(m)
  <2> SUFFICES ASSUME NEW v \in TileIds, NEW w \in TileIds, NEW j \in Lanes, NEW h \in Lanes,
                      NEW x \in On(m, v, j) \cap On(m, w, h)
               PROVE  v = w /\ j = h
    BY DEF LanesApart
  <2>1. CASE x = item
    <3>1. \A a \in TileIds, b \in Lanes : x \in On(m, a, b) => a = u /\ b = k
      BY <1>1, <2>1
    <3>. QED  BY <3>1
  <2>2. CASE x # item
    <3>1. x \in On(n, v, j) /\ x \in On(n, w, h)
      BY <2>2
    <3>. QED  BY <3>1 DEF Sound, LanesApart
  <2>. QED  BY <2>1, <2>2
<1>. QED  BY <1>2, <1>3 DEF Sound

(* An item that is taken off a lane, and nowhere else, is not in the       *)
(* network any more.                                                       *)
LEMMA ItemsLeave ==
  ASSUME NEW n, Sound(n), NEW t \in TileIds, NEW left, NEW m, Shape(m),
         \A v \in TileIds, j \in Lanes :
           /\ LaneOK(m.lanes[v][j])
           /\ On(m, v, j) = IF v = t THEN On(n, v, j) \ left[j] ELSE On(n, v, j),
         \A j \in Lanes : left[j] \subseteq On(n, t, j)
  PROVE  /\ Sound(m)
         /\ ItemsIn(m) = ItemsIn(n) \ UNION {left[j] : j \in Lanes}
         /\ UNION {left[j] : j \in Lanes} \subseteq ItemsIn(n)
<1> DEFINE gone == UNION {left[j] : j \in Lanes}
<1>1. ItemsIn(m) = ItemsIn(n) \ gone
  <2>1. ASSUME NEW x \in ItemsIn(m) PROVE x \in ItemsIn(n) \ gone
    <3>1. PICK v \in TileIds, j \in Lanes : x \in On(m, v, j)
      BY <2>1, InIsOn
    <3>2. x \in On(n, v, j)
      BY <3>1
    <3>3. x \notin gone
      <4> SUFFICES ASSUME NEW i \in Lanes, x \in left[i] PROVE FALSE
        OBVIOUS
      <4>1. x \in On(n, t, i)
        OBVIOUS
      <4>2. v = t /\ j = i
        BY <3>2, <4>1 DEF Sound, LanesApart
      <4>. QED  BY <3>1, <4>2
    <3>4. x \in ItemsIn(n)
      BY <3>2, InIsOn DEF Sound
    <3>. QED  BY <3>3, <3>4
  <2>2. ASSUME NEW x \in ItemsIn(n) \ gone PROVE x \in ItemsIn(m)
    <3>1. PICK v \in TileIds, j \in Lanes : x \in On(n, v, j)
      BY <2>2, InIsOn DEF Sound
    <3>2. x \in On(m, v, j)
      BY <2>2, <3>1
    <3>. QED  BY <3>2, InIsOn
  <2>. QED  BY <2>1, <2>2
<1>2. gone \subseteq ItemsIn(n)
  BY InIsOn DEF Sound
<1>3. \A v \in TileIds, j \in Lanes : On(m, v, j) \subseteq On(n, v, j)
  OBVIOUS
<1>4. LanesApart(m)
  BY <1>3 DEF Sound, LanesApart
<1>. QED  BY <1>1, <1>2, <1>4 DEF Sound
-----------------------------------------------------------------------------
\* What a step of a tile keeps: every item is still there, once, or has left.
Kept(m, n) == Sound(m) /\ LogOK(m) /\ Content(m) = Content(n)

(* What the network is assumed to be, as the steps use it: an item is      *)
(* handed on by the tile's own link or by that of its other half, and      *)
(* always to another tile.                                                 *)
LEMMA Wiring ==
  /\ NoTile \notin TileIds
  /\ \A t \in TileIds : Downstream[t] # NoTile => Downstream[t] \in TileIds
  /\ \A t \in TileIds, lane \in Lanes : TargetLane(Onto[t], lane) \in Lanes
  /\ \A t \in TileIds : \A output :
       HasOutput(t, output) => Via(t, output) \in TileIds /\ Downstream[Via(t, output)] \in TileIds \ {t}
<1>1. WellWired(Tiles, Downstream, Onto)
  BY NetworkIsWired
<1>2. /\ NoTile \notin TileIds
      /\ Downstream \in [TileIds -> TileIds \cup {NoTile}]
      /\ Onto \in [TileIds -> Lanes \cup {Straight}]
      /\ \A t \in TileIds : /\ Downstream[t] # t
                            /\ Tiles[t].partner \in TileIds \cup {NoTile}
                            /\ Tiles[t].partner # NoTile => Downstream[Tiles[t].partner] # t
  BY <1>1 DEF WellWired, TileIds
<1>3. \A t \in TileIds, lane \in Lanes : TargetLane(Onto[t], lane) \in Lanes
  BY <1>2 DEF TargetLane
<1>4. ASSUME NEW t \in TileIds, NEW output, HasOutput(t, output)
      PROVE  Via(t, output) \in TileIds /\ Downstream[Via(t, output)] \in TileIds \ {t}
  <2>1. Via(t, output) \in TileIds
    BY <1>2, <1>4 DEF HasOutput, Via
  <2>2. Downstream[Via(t, output)] \in TileIds
    BY <1>2, <1>4, <2>1 DEF HasOutput
  <2>3. Downstream[Via(t, output)] # t
    BY <1>2, <2>1 DEF Via
  <2>. QED  BY <2>1, <2>2, <2>3
<1>. QED  BY <1>2, <1>3, <1>4

(* The item at the exit is on the lane, and leaves the rest behind.        *)
LEMMA AtTheExit ==
  ASSUME NEW lane, LaneOK(lane), ExitItem(lane) # Empty
  PROVE  /\ ExitItem(lane) \in ItemsOn(lane) /\ ExitItem(lane) \in Nat \ {Empty}
         /\ LaneOK(Without(lane, {Exit(lane)}))
         /\ ItemsOn(Without(lane, {Exit(lane)})) = ItemsOn(lane) \ {ExitItem(lane)}
<1>1. Exit(lane) \in SlotsOf(lane)
  BY ExitIsASlot
<1>2. {lane.slots[i] : i \in {Exit(lane)} \cap SlotsOf(lane)} = {ExitItem(lane)}
  BY <1>1 DEF ExitItem
<1>3. ExitItem(lane) \in ItemsOn(lane) /\ ExitItem(lane) \in Nat \ {Empty}
  BY <1>1 DEF ExitItem, ItemsOn, Occupied, LaneOK
<1>. QED  BY <1>2, <1>3, TakesOff

(* An item handed on is on the tile ahead with what was there.             *)
LEMMA Received ==
  ASSUME NEW n, Sound(n), NEW t \in TileIds, NEW lane \in Lanes, Waits(n, t, lane), NEW phases,
         NEW via \in TileIds, Downstream[via] \in TileIds \ {t},
         NEW on \in Receptions(n, phases, t, lane, via)
  PROVE  /\ LaneOK(on)
         /\ ItemsOn(on) = On(n, Downstream[via], TargetLane(Onto[via], lane)) \cup {ExitItem(n.lanes[t][lane])}
<1> DEFINE u == Downstream[via]
           k == TargetLane(Onto[via], lane)
           item == ExitItem(n.lanes[t][lane])
           old == n.lanes[u][k]
<1>1. u \in TileIds \ {t} /\ k \in Lanes
  BY Wiring
<1>2. LaneOK(old) /\ LaneOK(n.lanes[t][lane])
  BY <1>1 DEF Sound
<1>3. item \in On(n, t, lane) /\ item \in Nat \ {Empty}
  BY <1>2, AtTheExit DEF Waits, On
<1>4. item \notin ItemsOn(old)
  BY <1>1, <1>3 DEF Sound, LanesApart, On
<1>5. OntoLane(n, lane, via) = old
  BY DEF OntoLane
<1>6. CASE Onto[via] = Straight
  <2>1. 0 \in Free(old) /\ on = Put(old, 0, item, ExitOffset(n.lanes[t][lane]))
    <3>1. Receptions(n, phases, t, lane, via)
            = IF EntryFree(old) THEN {EnterAt(old, Sideload(n, phases, t, lane, u).item, ExitOffset(n.lanes[t][lane]))}
              ELSE {}
      BY <1>5, <1>6 DEF Receptions
    <3>2. Sideload(n, phases, t, lane, u).item = item
      BY DEF Sideload
    <3> HIDE DEF old, item, u
    <3>3. EntryFree(old) /\ on = EnterAt(old, item, ExitOffset(n.lanes[t][lane]))
      BY <3>1, <3>2
    <3>. QED  BY <3>3 DEF EntryFree, EnterAt
  <2> HIDE DEF old, item
  <2>2. LaneOK(on) /\ ItemsOn(on) = ItemsOn(old) \cup {item}
    BY <1>2, <1>3, <1>4, <2>1, PutsOn
  <2>. QED  BY <2>2 DEF On, old, item
<1>7. CASE Onto[via] # Straight
  <2> DEFINE load == Sideload(n, phases, t, lane, u)
  <2>1. load.item = item
    BY DEF Sideload
  <2>2. on \in InsertionsAt(old, load.position, load.phase, load.item, load.mode)
    BY <1>5, <1>7 DEF Receptions
  <2> HIDE DEF load, old, item, u, k
  <2>3. PICK position, phase, mode : on \in InsertionsAt(old, position, phase, item, mode)
    BY <2>1, <2>2
  <2>4. LaneOK(on) /\ ItemsOn(on) = ItemsOn(old) \cup {item}
    BY <1>2, <1>3, <1>4, <2>3, Inserted
  <2>. QED  BY <2>4 DEF On, old, item, u, k
<1>. QED  BY <1>6, <1>7

(* Handing an item over to a lane ahead keeps every item.                  *)
LEMMA HandsOver ==
  ASSUME NEW n, Sound(n), LogOK(n), NEW t \in TileIds, NEW lane \in Lanes, Waits(n, t, lane), NEW phases,
         NEW via \in TileIds, Downstream[via] \in TileIds \ {t},
         NEW on \in Receptions(n, phases, t, lane, via)
  PROVE  Kept(HandOn(n, t, lane, via, on), n)
<1> DEFINE u == Downstream[via]
           k == TargetLane(Onto[via], lane)
           item == ExitItem(n.lanes[t][lane])
           vacated == [n.lanes EXCEPT ![t][lane] = Vacated(n, t, lane)]
           lanes == [vacated EXCEPT ![u][k] = on]
           m == [n EXCEPT !.lanes = lanes]
<1>1. HandOn(n, t, lane, via, on) = m
  BY DEF HandOn
<1>2. u \in TileIds \ {t} /\ k \in Lanes
  BY Wiring
<1>3. Shape(n)
  BY DEF Sound
<1>4. DOMAIN m = Fields /\ m.lanes = lanes /\ m.exitedLog = n.exitedLog
  BY <1>3 DEF Shape, Fields
<1>5. /\ DOMAIN lanes = TileIds
      /\ \A v \in TileIds : DOMAIN lanes[v] = Lanes
      /\ \A v \in TileIds, j \in Lanes :
           lanes[v][j] = IF v = u /\ j = k THEN on
                         ELSE IF v = t /\ j = lane THEN Vacated(n, t, lane)
                         ELSE n.lanes[v][j]
  BY <1>2, <1>3 DEF Shape
<1> HIDE DEF lanes, m
<1>6. /\ LaneOK(on) /\ ItemsOn(on) = On(n, u, k) \cup {item}
  BY Received
<1>7. LaneOK(n.lanes[t][lane]) /\ ExitItem(n.lanes[t][lane]) # Empty
  BY DEF Sound, Waits
<1>8. item \in On(n, t, lane) /\ LaneOK(Vacated(n, t, lane)) /\ ItemsOn(Vacated(n, t, lane)) = On(n, t, lane) \ {item}
  BY <1>7, AtTheExit DEF Vacated, On
<1>9. Shape(m)
  BY <1>4, <1>5 DEF Shape
<1> HIDE DEF item, u, k
<1>10. \A v \in TileIds, j \in Lanes :
         /\ LaneOK(m.lanes[v][j])
         /\ On(m, v, j) = IF v = u /\ j = k THEN On(n, u, k) \cup {item}
                          ELSE IF v = t /\ j = lane THEN On(n, t, lane) \ {item}
                          ELSE On(n, v, j)
  BY <1>4, <1>5, <1>6, <1>8 DEF Sound, On
<1>11. Sound(m) /\ ItemsIn(m) = ItemsIn(n)
  BY <1>2, <1>8, <1>9, <1>10, ItemMoves
<1>. QED  BY <1>1, <1>4, <1>11 DEF Kept, LogOK, Content

(* An item that leaves at a boundary output is in the log.                 *)
LEMMA Leaves ==
  ASSUME NEW n, Sound(n), LogOK(n), NEW t \in TileIds, NEW lane \in Lanes, Waits(n, t, lane)
  PROVE  Kept(DrainExit(n, t, lane), n)
<1> DEFINE item == ExitItem(n.lanes[t][lane])
           lanes == [n.lanes EXCEPT ![t][lane] = Vacated(n, t, lane)]
           log == Append(n.exitedLog, item)
           m == DrainExit(n, t, lane)
           left == [j \in Lanes |-> IF j = lane THEN {item} ELSE {}]
<1>1. Shape(n)
  BY DEF Sound
<1>2. DOMAIN m = Fields /\ m.lanes = lanes /\ m.exitedLog = log
  BY <1>1 DEF Shape, Fields, DrainExit
<1>3. /\ DOMAIN lanes = TileIds
      /\ \A v \in TileIds : DOMAIN lanes[v] = Lanes
      /\ \A v \in TileIds, j \in Lanes :
           lanes[v][j] = IF v = t /\ j = lane THEN Vacated(n, t, lane) ELSE n.lanes[v][j]
  BY <1>1 DEF Shape
<1> HIDE DEF lanes, m
<1>4. LaneOK(n.lanes[t][lane]) /\ ExitItem(n.lanes[t][lane]) # Empty
  BY DEF Sound, Waits
<1>5. /\ item \in On(n, t, lane) /\ item \in Nat
      /\ LaneOK(Vacated(n, t, lane)) /\ ItemsOn(Vacated(n, t, lane)) = On(n, t, lane) \ {item}
  BY <1>4, AtTheExit DEF Vacated, On
<1>6. Shape(m)
  BY <1>2, <1>3 DEF Shape
<1> HIDE DEF item
<1>7. \A v \in TileIds, j \in Lanes :
         /\ LaneOK(m.lanes[v][j])
         /\ On(m, v, j) = IF v = t THEN On(n, v, j) \ left[j] ELSE On(n, v, j)
  <2> SUFFICES ASSUME NEW v \in TileIds, NEW j \in Lanes
               PROVE  /\ LaneOK(m.lanes[v][j])
                      /\ On(m, v, j) = IF v = t THEN On(n, v, j) \ left[j] ELSE On(n, v, j)
    OBVIOUS
  <2>1. left[j] = IF j = lane THEN {item} ELSE {}
    OBVIOUS
  <2> HIDE DEF left
  <2>2. CASE v = t /\ j = lane
    BY <1>2, <1>3, <1>5, <2>1, <2>2 DEF Sound, On
  <2>3. CASE v # t \/ j # lane
    BY <1>2, <1>3, <2>1, <2>3 DEF Sound, On
  <2>. QED  BY <2>2, <2>3
<1>8. \A j \in Lanes : left[j] \subseteq On(n, t, j)
  BY <1>5
<1>9. UNION {left[j] : j \in Lanes} = {item}
  OBVIOUS
<1> HIDE DEF left
<1>10. Sound(m) /\ ItemsIn(m) = ItemsIn(n) \ {item} /\ item \in ItemsIn(n)
  BY <1>6, <1>7, <1>8, <1>9, ItemsLeave
<1>11. n.exitedLog \in Seq(Nat) /\ ItemsIn(n) \cap Range(n.exitedLog) = {}
  BY DEF LogOK
<1>12. log \in Seq(Nat) /\ Range(log) = Range(n.exitedLog) \cup {item}
  <2> DEFINE old == n.exitedLog
  <2>1. old \in Seq(Nat) /\ item \in Nat /\ log = Append(old, item)
    BY <1>5, <1>11
  <2> HIDE DEF log, old
  <2>2. /\ log \in Seq(Nat) /\ Len(old) \in Nat /\ DOMAIN old = 1 .. Len(old) /\ DOMAIN log = 1 .. Len(old) + 1
        /\ log[Len(old) + 1] = item /\ \A i \in 1 .. Len(old) : log[i] = old[i]
    BY <2>1
  <2>3. Range(log) = Range(old) \cup {item}
    BY <2>2 DEF Range
  <2>. QED  BY <2>2, <2>3 DEF old
<1> HIDE DEF log
<1>. QED  BY <1>2, <1>10, <1>11, <1>12 DEF Kept, LogOK, Content, m
-----------------------------------------------------------------------------
(* Whichever output an item leaves by.                                     *)
LEMMA Departs ==
  ASSUME NEW n, Sound(n), LogOK(n), NEW t \in TileIds, NEW lane \in Lanes, Waits(n, t, lane), NEW phases,
         NEW output, NEW m \in Departures(n, phases, t, lane, output)
  PROVE  Kept(m, n)
<1>1. CASE HasOutput(t, output)
  <2>1. Via(t, output) \in TileIds /\ Downstream[Via(t, output)] \in TileIds \ {t}
    BY <1>1, Wiring
  <2>2. PICK on \in Receptions(n, phases, t, lane, Via(t, output)) : m = HandOn(n, t, lane, Via(t, output), on)
    BY <1>1 DEF Departures
  <2>. QED  BY <2>1, <2>2, HandsOver
<1>2. CASE ~HasOutput(t, output)
  <2>1. m = DrainExit(n, t, lane)
    BY <1>2 DEF Departures
  <2>. QED  BY <2>1, Leaves
<1>. QED  BY <1>1, <1>2

(* The books of a splitter are no part of its lanes.                       *)
LEMMA BooksKeep ==
  ASSUME NEW n, NEW m, Kept(m, n), NEW t, NEW lane, NEW first, NEW which
  PROVE  Kept(Booked(n, m, t, lane, first, which), n)
<1> DEFINE b == Booked(n, m, t, lane, first, which)
<1>1. Shape(m)
  BY DEF Kept, Sound
<1>2. DOMAIN b = Fields /\ b.lanes = m.lanes /\ b.exitedLog = m.exitedLog
  BY <1>1 DEF Booked, Shape, Fields
<1> HIDE DEF b
<1>3. Shape(b) /\ \A u \in TileIds, l \in Lanes : LaneOK(b.lanes[u][l]) /\ On(b, u, l) = On(m, u, l)
  BY <1>1, <1>2 DEF Kept, Sound, Shape, On
<1>4. Sound(b) /\ ItemsIn(b) = ItemsIn(m)
  BY <1>3, SameItems DEF Kept
<1>. QED  BY <1>2, <1>4 DEF Kept, LogOK, Content, b

(* One exit, taken or not.                                                 *)
LEMMA Exits ==
  ASSUME NEW n, Sound(n), LogOK(n), NEW t \in TileIds, NEW lane \in Lanes, NEW phases
  PROVE  Kept(HandedOn(n, phases, t, lane), n)
<1> DEFINE first == TriedFirst(n, t, lane)
           split == SplitterExit(n, phases, t, lane)
           plain == PlainExit(n, phases, t, lane)
           moved == IF Tiles[t].kind = "splitter" THEN split ELSE plain
           after == IF ~Waits(n, t, lane) THEN {n} ELSE OrElse(moved, {n})
<1>1. Kept(n, n)
  BY DEF Kept
<1>2. ASSUME Waits(n, t, lane), NEW which, NEW m \in Routed(n, phases, t, lane, first, which) PROVE Kept(m, n)
  <2>1. PICK d \in Departures(n, phases, t, lane, which) : m = Booked(n, d, t, lane, first, which)
    BY <1>2 DEF Routed
  <2>2. Kept(d, n)
    BY <1>2, Departs
  <2>. QED  BY <2>1, <2>2, BooksKeep
<1>3. ASSUME Waits(n, t, lane), NEW m \in split PROVE Kept(m, n)
  <2>1. m \in Routed(n, phases, t, lane, first, first) \/ m \in Routed(n, phases, t, lane, first, 1 - first)
    BY <1>3 DEF SplitterExit, OrElse
  <2>. QED  BY <1>2, <1>3, <2>1
<1>4. ASSUME Waits(n, t, lane), NEW m \in plain PROVE Kept(m, n)
  BY <1>4, Departs DEF PlainExit
<1>5. after # {} /\ \A m \in after : Kept(m, n)
  <2> HIDE DEF split, plain
  <2>. QED  BY <1>1, <1>3, <1>4 DEF OrElse
<1>6. HandedOn(n, phases, t, lane) = CHOOSE m \in after : TRUE
  BY DEF HandedOn
<1> HIDE DEF after
<1>7. (CHOOSE m \in after : TRUE) \in after
  BY <1>5
<1>. QED  BY <1>5, <1>6, <1>7

(* Both lanes of a tile move up.                                           *)
LEMMA Rises ==
  ASSUME NEW n, Sound(n), LogOK(n), NEW t \in TileIds
  PROVE  Kept(Risen(n, t), n)
<1> DEFINE m == Risen(n, t)
<1>1. Shape(n)
  BY DEF Sound
<1>2. m = [n EXCEPT !.lanes = [n.lanes EXCEPT ![t] = [l \in Lanes |-> ShiftForward(n.lanes[t][l])]]]
  BY <1>1 DEF Risen, Shape
<1>3. DOMAIN m = Fields /\ m.exitedLog = n.exitedLog
      /\ m.lanes = [n.lanes EXCEPT ![t] = [l \in Lanes |-> ShiftForward(n.lanes[t][l])]]
  BY <1>1, <1>2 DEF Shape, Fields
<1> HIDE DEF m
<1>4. /\ DOMAIN m.lanes = TileIds
      /\ \A v \in TileIds : DOMAIN m.lanes[v] = Lanes
      /\ \A v \in TileIds, j \in Lanes :
           m.lanes[v][j] = IF v = t THEN ShiftForward(n.lanes[v][j]) ELSE n.lanes[v][j]
  BY <1>1, <1>3 DEF Shape
<1>5. ASSUME NEW v \in TileIds, NEW j \in Lanes PROVE LaneOK(m.lanes[v][j]) /\ On(m, v, j) = On(n, v, j)
  <2>1. LaneOK(n.lanes[v][j])
    BY DEF Sound
  <2>. QED  BY <1>4, <2>1, MovesUp DEF On
<1>6. Shape(m)
  BY <1>3, <1>4 DEF Shape
<1>7. Sound(m) /\ ItemsIn(m) = ItemsIn(n)
  BY <1>5, <1>6, SameItems
<1>. QED  BY <1>3, <1>7 DEF Kept, LogOK, Content, m

(* step_tile.                                                              *)
LEMMA TileKeeps ==
  ASSUME NEW n, Sound(n), LogOK(n), NEW t \in TileIds, NEW phases
  PROVE  Kept(StepTile(n, phases, t), n)
<1> DEFINE left == HandedOn(n, phases, t, 0)
           right == HandedOn(left, phases, t, 1)
<1>1. 0 \in Lanes /\ 1 \in Lanes
  BY DEF Lanes
<1>2. Kept(left, n)
  BY <1>1, Exits
<1>3. Sound(left) /\ LogOK(left) /\ Content(left) = Content(n)
  BY <1>2 DEF Kept
<1> HIDE DEF left
<1>4. Kept(right, left)
  BY <1>1, <1>3, Exits
<1>5. Sound(right) /\ LogOK(right) /\ Content(right) = Content(n)
  BY <1>3, <1>4 DEF Kept
<1> HIDE DEF right
<1>6. Kept(Risen(right, t), right)
  BY <1>5, Rises
<1>. QED  BY <1>5, <1>6 DEF Kept, StepTile, right, left

\* Where a step of the tiles q, in this order, has come to after i of them.
SoFar(n, phases, stepping, q, after, i) ==
  IF i = 0 THEN n
  ELSE IF Tiles[q[i]].tier \in stepping THEN StepTile(after[i - 1], phases, q[i]) ELSE after[i - 1]

\* All of them, and what the last one has come to.
IsWalk(n, phases, stepping, q, after) ==
  /\ after = [i \in 0 .. Len(q) |-> SoFar(n, phases, stepping, q, after, i)]
  /\ StepInOrder(n, phases, stepping, q) = after[Len(q)]

(* A set of numbers has a least element.                                   *)
LEMMA Least ==
  ASSUME NEW T, T \subseteq Nat, T # {}
  PROVE  \E x \in T : \A y \in T : x <= y
<1> DEFINE R == OpToRel(<, Nat)
<1>1. IsWellFoundedOn(R, T)
  BY NatLessThanWellFounded, IsWellFoundedOnSubset
<1>2. PICK x \in T : \A y \in T : <<y, x>> \notin R
  BY <1>1, WFMin
<1>3. \A y \in T : ~(y < x)
  BY <1>2 DEF OpToRel
<1>. QED  BY <1>3

(* The steps of the tiles are well defined: one after the other.           *)
LEMMA StepsAreDefined ==
  ASSUME NEW n, NEW phases, NEW stepping, NEW q, Len(q) \in Nat
  PROVE  \E after : IsWalk(n, phases, stepping, q, after)
<1> DEFINE Solved(k) == \E f : f = [i \in 0 .. k |-> SoFar(n, phases, stepping, q, f, i)]
           Missed == {k \in Nat : ~Solved(k)}
<1>1. Missed = {}
  <2> SUFFICES ASSUME Missed # {} PROVE FALSE
    OBVIOUS
  <2>1. PICK k \in Missed : \A j \in Missed : k <= j
    <3>1. Missed \subseteq Nat
      OBVIOUS
    <3> HIDE DEF Missed
    <3>. QED  BY <3>1, Least
  <2>2. CASE k = 0
    <3> DEFINE g == [i \in 0 .. 0 |-> n]
    <3>1. g = [i \in 0 .. 0 |-> SoFar(n, phases, stepping, q, g, i)]
      <4>1. \A i \in 0 .. 0 : SoFar(n, phases, stepping, q, g, i) = n
        BY DEF SoFar
      <4>. QED  BY <4>1
    <3>. QED  BY <2>1, <2>2, <3>1
  <2>3. CASE k # 0
    <3>1. k - 1 \in Nat /\ k - 1 \notin Missed /\ k \in Nat
      BY <2>1, <2>3
    <3>2. PICK f : f = [i \in 0 .. (k - 1) |-> SoFar(n, phases, stepping, q, f, i)]
      BY <3>1
    <3> DEFINE g == [i \in 0 .. k |-> IF i < k THEN f[i] ELSE SoFar(n, phases, stepping, q, f, k)]
    <3>3. ASSUME NEW i \in 0 .. k PROVE g[i] = SoFar(n, phases, stepping, q, g, i)
      <4>1. i # 0 => g[i - 1] = f[i - 1]
        BY <3>1
      <4>2. SoFar(n, phases, stepping, q, g, i) = SoFar(n, phases, stepping, q, f, i)
        BY <4>1 DEF SoFar
      <4>3. \A e \in 0 .. (k - 1) : f[e] = SoFar(n, phases, stepping, q, f, e)
        BY <3>2, Zenon
      <4>4. (i < k => i \in 0 .. (k - 1)) /\ (~(i < k) => i = k)
        BY <3>1
      <4>5. g[i] = IF i < k THEN f[i] ELSE SoFar(n, phases, stepping, q, f, k)
        OBVIOUS
      <4> HIDE DEF g
      <4>. QED  BY <4>2, <4>3, <4>4, <4>5
    <3>4. g = [i \in 0 .. k |-> g[i]]
      OBVIOUS
    <3> HIDE DEF g
    <3>5. g = [i \in 0 .. k |-> SoFar(n, phases, stepping, q, g, i)]
      BY <3>3, <3>4
    <3>. QED  BY <2>1, <3>5
  <2>. QED  BY <2>2, <2>3
<1>2. PICK g : g = [i \in 0 .. Len(q) |-> SoFar(n, phases, stepping, q, g, i)]
  BY <1>1
<1> DEFINE found == CHOOSE f : f = [i \in 0 .. Len(q) |-> SoFar(n, phases, stepping, q, f, i)]
<1>3. StepInOrder(n, phases, stepping, q) = found[Len(q)]
  BY DEF StepInOrder, SoFar
<1>4. found = [i \in 0 .. Len(q) |-> SoFar(n, phases, stepping, q, found, i)]
  BY <1>2
<1> HIDE DEF found
<1>. QED  BY <1>3, <1>4 DEF IsWalk

(* A whole step of the network.                                            *)
LEMMA StepKeeps ==
  ASSUME NEW n, Sound(n), LogOK(n), NEW phases, NEW stepping, NEW q \in Seq(TileIds)
  PROVE  Kept(StepInOrder(n, phases, stepping, q), n)
<1>1. Len(q) \in Nat /\ \A i \in 1 .. Len(q) : q[i] \in TileIds
  OBVIOUS
<1>2. PICK after : IsWalk(n, phases, stepping, q, after)
  BY <1>1, StepsAreDefined
<1>3. \A i \in 0 .. Len(q) : after[i] = SoFar(n, phases, stepping, q, after, i)
  BY <1>2, Zenon DEF IsWalk
<1> DEFINE Spoilt == {i \in 0 .. Len(q) : ~Kept(after[i], n)}
<1>4. Spoilt = {}
  <2> SUFFICES ASSUME Spoilt # {} PROVE FALSE
    OBVIOUS
  <2>1. PICK i \in Spoilt : \A j \in Spoilt : i <= j
    <3>1. Spoilt \subseteq Nat
      BY <1>1
    <3> HIDE DEF Spoilt
    <3>. QED  BY <3>1, Least
  <2>2. CASE i = 0
    <3>1. after[i] = n
      BY <1>1, <1>3, <2>2 DEF SoFar
    <3>. QED  BY <2>1, <3>1 DEF Kept
  <2>3. CASE i # 0
    <3>1. i - 1 \in 0 .. Len(q) /\ i - 1 \notin Spoilt /\ q[i] \in TileIds /\ i \in 0 .. Len(q)
      BY <1>1, <2>1, <2>3
    <3>2. Sound(after[i - 1]) /\ LogOK(after[i - 1]) /\ Content(after[i - 1]) = Content(n)
      BY <3>1 DEF Kept
    <3>3. after[i] = StepTile(after[i - 1], phases, q[i]) \/ after[i] = after[i - 1]
      BY <1>3, <2>3, <3>1 DEF SoFar
    <3>4. Kept(StepTile(after[i - 1], phases, q[i]), after[i - 1])
      BY <3>1, <3>2, TileKeeps
    <3>5. Kept(after[i], n)
      BY <3>2, <3>3, <3>4 DEF Kept
    <3>. QED  BY <2>1, <3>5
  <2>. QED  BY <2>2, <2>3
<1>5. Len(q) \in 0 .. Len(q)
  BY <1>1
<1>. QED  BY <1>2, <1>4, <1>5 DEF IsWalk
-----------------------------------------------------------------------------
(* Items that were nowhere in the network come onto the lanes of a tile.   *)
LEMMA ItemsCome ==
  ASSUME NEW n, Sound(n), NEW t \in TileIds, NEW added, NEW m, Shape(m),
         \A v \in TileIds, j \in Lanes :
           /\ LaneOK(m.lanes[v][j])
           /\ On(m, v, j) = IF v = t THEN On(n, v, j) \cup added[j] ELSE On(n, v, j),
         \A j \in Lanes : added[j] \cap ItemsIn(n) = {},
         \A i, j \in Lanes : added[i] \cap added[j] # {} => i = j
  PROVE  Sound(m) /\ ItemsIn(m) = ItemsIn(n) \cup UNION {added[j] : j \in Lanes}
<1> DEFINE new == UNION {added[j] : j \in Lanes}
<1>1. ItemsIn(m) = ItemsIn(n) \cup new
  <2>1. ASSUME NEW x \in ItemsIn(m) PROVE x \in ItemsIn(n) \cup new
    <3>1. PICK v \in TileIds, j \in Lanes : x \in On(m, v, j)
      BY <2>1, InIsOn
    <3>2. x \in On(n, v, j) \/ x \in added[j]
      BY <3>1
    <3>. QED  BY <3>2, InIsOn DEF Sound
  <2>2. ASSUME NEW x \in ItemsIn(n) PROVE x \in ItemsIn(m)
    <3>1. PICK v \in TileIds, j \in Lanes : x \in On(n, v, j)
      BY <2>2, InIsOn DEF Sound
    <3>2. x \in On(m, v, j)
      BY <3>1
    <3>. QED  BY <3>2, InIsOn
  <2>3. ASSUME NEW j \in Lanes, NEW x \in added[j] PROVE x \in ItemsIn(m)
    <3>1. x \in On(m, t, j)
      BY <2>3
    <3>. QED  BY <3>1, InIsOn
  <2>. QED  BY <2>1, <2>2, <2>3
<1>2. LanesApart(m)
  <2> SUFFICES ASSUME NEW v \in TileIds, NEW w \in TileIds, NEW j \in Lanes, NEW h \in Lanes,
                      NEW x \in On(m, v, j) \cap On(m, w, h)
               PROVE  v = w /\ j = h
    BY DEF LanesApart
  <2>1. \A a \in TileIds, b \in Lanes : x \in On(m, a, b) => x \in On(n, a, b) \/ (a = t /\ x \in added[b])
    OBVIOUS
  <2>2. \A a \in TileIds, b, c \in Lanes : ~(x \in On(n, a, b) /\ x \in added[c])
    BY InIsOn DEF Sound
  <2>3. CASE x \in On(n, v, j)
    <3>1. x \in On(n, w, h)
      BY <2>1, <2>2, <2>3
    <3>. QED  BY <2>3, <3>1 DEF Sound, LanesApart
  <2>4. CASE x \notin On(n, v, j)
    <3>1. v = t /\ x \in added[j]
      BY <2>1, <2>4
    <3>2. w = t /\ x \in added[h]
      BY <2>1, <2>2, <3>1
    <3>. QED  BY <3>1, <3>2
  <2>. QED  BY <2>3, <2>4
<1>. QED  BY <1>1, <1>2 DEF Sound

\* Every item that ever arrived is in the network, delivered or picked, and
\* only one of them.
TrafficInv ==
  /\ arrived \in Nat
  /\ Sound(net)
  /\ net.exitedLog = <<>>
  /\ ItemsIn(net) \cap delivered = {} /\ ItemsIn(net) \cap picked = {} /\ delivered \cap picked = {}
  /\ ItemsIn(net) \cup delivered \cup picked = 1 .. arrived

(* An empty lane.                                                          *)
LEMMA EmptyLane ==
  ASSUME NEW k \in 1 .. SlotsPerTile
  PROVE  LaneOK(NewLane(k)) /\ ItemsOn(NewLane(k)) = {}
<1>1. SlotsOf(NewLane(k)) = 0 .. (k - 1) /\ \A i \in 0 .. (k - 1) : NewLane(k).slots[i] = Empty
  BY DEF NewLane, SlotsOf
<1>2. Empty \in Nat
  BY DEF Empty
<1>. QED  BY <1>1, <1>2 DEF LaneOK, ItemsOn, Occupied

(* Nothing has arrived yet, and every lane is empty.                       *)
LEMMA TrafficStarts == TrafficInit => TrafficInv
<1> SUFFICES ASSUME TrafficInit PROVE TrafficInv
  OBVIOUS
<1>1. SlotsPerTile \in Nat /\ 1 \in 1 .. SlotsPerTile /\ SlotsPerTile \in 1 .. SlotsPerTile
  BY NetworkAssumption
<1>2. /\ DOMAIN net = Fields /\ net.exitedLog = <<>>
      /\ net.lanes = [t \in TileIds |-> [l \in Lanes |->
                        IF <<t, l>> \in ShortLanes THEN NewLane(1) ELSE NewLane(SlotsPerTile)]]
  BY DEF TrafficInit, EmptyNetwork, Fields
<1>3. Shape(net)
  BY <1>2 DEF Shape
<1>4. \A t \in TileIds, l \in Lanes : net.lanes[t][l] \in {NewLane(1), NewLane(SlotsPerTile)}
  BY <1>2
<1>5. \A t \in TileIds, l \in Lanes : LaneOK(net.lanes[t][l]) /\ On(net, t, l) = {}
  BY <1>1, <1>4, EmptyLane DEF On
<1>6. Sound(net)
  BY <1>3, <1>5 DEF Sound, LanesApart
<1>7. ItemsIn(net) = {}
  BY <1>3, <1>5, InIsOn
<1>8. arrived = 0 /\ delivered = {} /\ picked = {} /\ 1 .. 0 = {}
  BY DEF TrafficInit
<1>. QED  BY <1>2, <1>6, <1>7, <1>8 DEF TrafficInv

Below(free, l) == Cardinality({k \in free : k < l})

(* The numbers that a feed gives to the lanes it finds free.               *)
LEMMA Numbered ==
  ASSUME NEW free, free \subseteq Lanes, NEW a \in Nat
  PROVE  /\ Cardinality(free) \in Nat
         /\ \A l \in free : a + 1 + Below(free, l) \in (a + 1) .. (a + Cardinality(free))
         /\ \A x \in (a + 1) .. (a + Cardinality(free)) : \E l \in free : x = a + 1 + Below(free, l)
         /\ \A l, k \in free : a + 1 + Below(free, l) = a + 1 + Below(free, k) => l = k
<1>1. Cardinality({}) = 0
  BY FS_EmptySet
<1>2. Cardinality({0}) = 1 /\ Cardinality({1}) = 1
  BY FS_Singleton
<1>3. Cardinality({0, 1}) = 2
  <2>1. IsFiniteSet({0}) /\ 1 \notin {0} /\ {0, 1} = {0} \cup {1}
    BY FS_Singleton
  <2>2. Cardinality({0} \cup {1}) = Cardinality({0}) + 1
    BY <2>1, FS_AddElement
  <2>. QED  BY <1>2, <2>1, <2>2
<1>4. CASE free = {}
  BY <1>1, <1>4
<1>5. ASSUME NEW x \in {0, 1}, free = {x}
      PROVE  /\ Cardinality(free) = 1
             /\ \A l \in free : l = x /\ Below(free, l) = 0
  <2>1. \A l \in free : l = x /\ {k \in free : k < l} = {}
    BY <1>5
  <2>. QED  BY <1>1, <1>2, <1>5, <2>1 DEF Below
<1>6. CASE free = {0} \/ free = {1}
  BY <1>5, <1>6
<1>7. CASE free = {0, 1}
  <2>1. {k \in free : k < 0} = {} /\ {k \in free : k < 1} = {0}
    BY <1>7
  <2>2. Below(free, 0) = 0 /\ Below(free, 1) = 1 /\ Cardinality(free) = 2
    BY <1>1, <1>2, <1>3, <1>7, <2>1 DEF Below
  <2>. QED  BY <1>7, <2>2
<1>8. free = {} \/ free = {0} \/ free = {1} \/ free = {0, 1}
  BY DEF Lanes
<1>. QED  BY <1>4, <1>6, <1>7, <1>8

(* The items fed are the next that arrive, on lanes that were free.        *)
LEMMA FeedKeeps ==
  ASSUME TrafficInv, NEW t \in TileIds, Feed(t)
  PROVE  TrafficInv'
<1> DEFINE free == {l \in Lanes : EntryFree(net.lanes[t][l])}
           item(l) == arrived + 1 + Below(free, l)
           added == [l \in Lanes |-> IF l \in free THEN {item(l)} ELSE {}]
           fed == [l \in Lanes |-> IF l \in free THEN EnterAt(net.lanes[t][l], item(l), 0) ELSE net.lanes[t][l]]
<1>1. /\ net' = [net EXCEPT !.lanes[t] = fed] /\ arrived' = arrived + Cardinality(free)
      /\ UNCHANGED <<delivered, picked>>
  <2>1. Shape(net)
    BY DEF TrafficInv, Sound
  <2>. QED  BY <2>1 DEF Feed, Arrive, Shape, Fields, Below
<1>2. /\ arrived \in Nat /\ Sound(net) /\ Shape(net) /\ net.exitedLog = <<>>
      /\ ItemsIn(net) \subseteq 1 .. arrived
  BY DEF TrafficInv, Sound
<1>3. /\ Cardinality(free) \in Nat
      /\ \A l \in free : item(l) \in (arrived + 1) .. (arrived + Cardinality(free))
      /\ \A x \in (arrived + 1) .. (arrived + Cardinality(free)) : \E l \in free : x = item(l)
      /\ \A l, k \in free : item(l) = item(k) => l = k
  <2>1. free \subseteq Lanes
    OBVIOUS
  <2> HIDE DEF free
  <2>. QED  BY <1>2, <2>1, Numbered
<1>4. DOMAIN net' = Fields /\ net'.exitedLog = <<>> /\ net'.lanes = [net.lanes EXCEPT ![t] = fed]
  BY <1>1, <1>2 DEF Shape, Fields
<1> HIDE DEF item, free
<1>5. /\ DOMAIN net'.lanes = TileIds
      /\ \A v \in TileIds : DOMAIN net'.lanes[v] = Lanes
      /\ \A v \in TileIds, j \in Lanes : net'.lanes[v][j] = IF v = t THEN fed[j] ELSE net.lanes[v][j]
  BY <1>2, <1>4 DEF Shape
<1>6. ASSUME NEW j \in Lanes PROVE LaneOK(fed[j]) /\ ItemsOn(fed[j]) = On(net, t, j) \cup added[j]
  <2>1. LaneOK(net.lanes[t][j])
    BY <1>2 DEF Sound
  <2>2. CASE j \in free
    <3>1. fed[j] = Put(net.lanes[t][j], 0, item(j), 0) /\ 0 \in Free(net.lanes[t][j])
      BY <2>2 DEF EnterAt, EntryFree, free
    <3>2. item(j) \in Nat \ {Empty} /\ item(j) \notin 1 .. arrived
      BY <1>2, <1>3, <2>2 DEF Empty
    <3>3. item(j) \notin ItemsOn(net.lanes[t][j])
      BY <1>2, <3>2, InIsOn DEF On
    <3>4. LaneOK(fed[j]) /\ ItemsOn(fed[j]) = ItemsOn(net.lanes[t][j]) \cup {item(j)}
      BY <2>1, <3>1, <3>2, <3>3, PutsOn
    <3>. QED  BY <2>2, <3>4 DEF On
  <2>3. CASE j \notin free
    BY <2>1, <2>3 DEF On
  <2>. QED  BY <2>2, <2>3
<1>7. \A v \in TileIds, j \in Lanes :
        /\ LaneOK(net'.lanes[v][j])
        /\ On(net', v, j) = IF v = t THEN On(net, v, j) \cup added[j] ELSE On(net, v, j)
  <2> HIDE DEF fed, added
  <2>. QED  BY <1>2, <1>5, <1>6 DEF Sound, On
<1>8. Shape(net')
  BY <1>4, <1>5 DEF Shape
<1>9. \A j \in Lanes : added[j] \cap ItemsIn(net) = {}
  <2>1. \A j \in free : item(j) \notin 1 .. arrived
    BY <1>2, <1>3
  <2>. QED  BY <1>2, <2>1
<1>10. \A i, j \in Lanes : added[i] \cap added[j] # {} => i = j
  BY <1>3
<1>11. UNION {added[j] : j \in Lanes} = (arrived + 1) .. (arrived + Cardinality(free))
  <2>1. free \subseteq Lanes
    BY DEF free
  <2>2. \A j \in Lanes : added[j] = IF j \in free THEN {item(j)} ELSE {}
    OBVIOUS
  <2> HIDE DEF added
  <2>3. ASSUME NEW x \in (arrived + 1) .. (arrived + Cardinality(free)) PROVE x \in UNION {added[j] : j \in Lanes}
    <3>1. PICK l \in free : x = item(l)
      BY <1>3
    <3>2. x \in added[l] /\ l \in Lanes
      BY <2>1, <2>2, <3>1
    <3>. QED  BY <3>2
  <2>4. ASSUME NEW j \in Lanes, NEW x \in added[j] PROVE x \in (arrived + 1) .. (arrived + Cardinality(free))
    <3>1. j \in free /\ x = item(j)
      BY <2>2
    <3>. QED  BY <1>3, <3>1
  <2>. QED  BY <2>3, <2>4
<1> HIDE DEF added
<1>12. Sound(net') /\ ItemsIn(net') = ItemsIn(net) \cup (arrived + 1) .. (arrived + Cardinality(free))
  BY <1>2, <1>7, <1>8, <1>9, <1>10, <1>11, ItemsCome
<1>13. /\ 1 .. arrived \cup (arrived + 1) .. (arrived + Cardinality(free)) = 1 .. arrived'
       /\ 1 .. arrived \cap (arrived + 1) .. (arrived + Cardinality(free)) = {}
       /\ arrived' \in Nat
  BY <1>1, <1>2, <1>3
<1> DEFINE new == (arrived + 1) .. (arrived + Cardinality(free))
<1>14. /\ ItemsIn(net') = ItemsIn(net) \cup new /\ 1 .. arrived \cup new = 1 .. arrived'
       /\ 1 .. arrived \cap new = {}
  BY <1>12, <1>13
<1> HIDE DEF new
<1>15. /\ ItemsIn(net) \cap delivered = {} /\ ItemsIn(net) \cap picked = {} /\ delivered \cap picked = {}
       /\ ItemsIn(net) \cup delivered \cup picked = 1 .. arrived
  BY DEF TrafficInv
<1>16. /\ ItemsIn(net') \cap delivered = {} /\ ItemsIn(net') \cap picked = {}
       /\ ItemsIn(net') \cup delivered \cup picked = 1 .. arrived'
  BY <1>14, <1>15
<1>. QED  BY <1>1, <1>4, <1>12, <1>13, <1>15, <1>16 DEF TrafficInv
-----------------------------------------------------------------------------
(* The item an inserter drops is the next that arrives.                    *)
LEMMA DropKeeps ==
  ASSUME TrafficInv, NEW t \in TileIds, NEW from, Drop(t, from)
  PROVE  TrafficInv'
<1> DEFINE item == arrived + 1
<1>1. /\ arrived \in Nat /\ Sound(net) /\ Shape(net) /\ net.exitedLog = <<>>
      /\ ItemsIn(net) \cap delivered = {} /\ ItemsIn(net) \cap picked = {} /\ delivered \cap picked = {}
      /\ ItemsIn(net) \cup delivered \cup picked = 1 .. arrived
  BY DEF TrafficInv, Sound
<1>2. arrived' = item /\ UNCHANGED <<delivered, picked>>
  BY DEF Drop, Arrive
<1>3. PICK far \in Lanes : net' \in DropsOnto(net, progress, t, far, item)
  BY DEF Drop, Drops
<1>4. PICK on \in InsertionsAt(net.lanes[t][far], Midpoint, progress[Tiles[t].tier], item, "drop") :
        net' = [net EXCEPT !.lanes[t][far] = on]
  BY <1>3 DEF DropsOnto
<1> DEFINE added == [j \in Lanes |-> IF j = far THEN {item} ELSE {}]
<1>5. item \in Nat \ {Empty} /\ item \notin 1 .. arrived /\ 1 .. arrived \cup {item} = 1 .. item
  BY <1>1 DEF Empty
<1> HIDE DEF item
<1>6. LaneOK(net.lanes[t][far]) /\ item \notin ItemsOn(net.lanes[t][far])
  BY <1>1, <1>5, InIsOn DEF Sound, On
<1>7. LaneOK(on) /\ ItemsOn(on) = On(net, t, far) \cup {item}
  BY <1>4, <1>5, <1>6, Inserted DEF On
<1>8. DOMAIN net' = Fields /\ net'.exitedLog = <<>> /\ net'.lanes = [net.lanes EXCEPT ![t][far] = on]
  BY <1>1, <1>4 DEF Shape, Fields
<1>9. /\ DOMAIN net'.lanes = TileIds
      /\ \A v \in TileIds : DOMAIN net'.lanes[v] = Lanes
      /\ \A v \in TileIds, j \in Lanes :
           net'.lanes[v][j] = IF v = t /\ j = far THEN on ELSE net.lanes[v][j]
  BY <1>1, <1>8 DEF Shape
<1>10. \A v \in TileIds, j \in Lanes :
         /\ LaneOK(net'.lanes[v][j])
         /\ On(net', v, j) = IF v = t THEN On(net, v, j) \cup added[j] ELSE On(net, v, j)
  <2> SUFFICES ASSUME NEW v \in TileIds, NEW j \in Lanes
               PROVE  /\ LaneOK(net'.lanes[v][j])
                      /\ On(net', v, j) = IF v = t THEN On(net, v, j) \cup added[j] ELSE On(net, v, j)
    OBVIOUS
  <2>1. added[j] = IF j = far THEN {item} ELSE {}
    OBVIOUS
  <2> HIDE DEF added
  <2>2. CASE v = t /\ j = far
    BY <1>7, <1>9, <2>1, <2>2 DEF On
  <2>3. CASE v # t \/ j # far
    BY <1>1, <1>9, <2>1, <2>3 DEF On, Sound
  <2>. QED  BY <2>2, <2>3
<1>11. Shape(net')
  BY <1>8, <1>9 DEF Shape
<1>12. \A j \in Lanes : added[j] \cap ItemsIn(net) = {}
  BY <1>1, <1>5
<1>13. \A i, j \in Lanes : added[i] \cap added[j] # {} => i = j
  OBVIOUS
<1>14. UNION {added[j] : j \in Lanes} = {item}
  OBVIOUS
<1> HIDE DEF added
<1>15. Sound(net') /\ ItemsIn(net') = ItemsIn(net) \cup {item}
  <2>1. Sound(net') /\ ItemsIn(net') = ItemsIn(net) \cup UNION {added[j] : j \in Lanes}
    BY <1>1, <1>10, <1>11, <1>12, <1>13, ItemsCome
  <2>. QED  BY <1>14, <2>1
<1>16. /\ ItemsIn(net') \cap delivered = {} /\ ItemsIn(net') \cap picked = {}
       /\ ItemsIn(net') \cup delivered \cup picked = 1 .. item
  BY <1>1, <1>5, <1>15
<1>. QED  BY <1>1, <1>2, <1>5, <1>8, <1>15, <1>16 DEF TrafficInv

(* What an inserter picks has left the network.                            *)
LEMMA PickKeeps ==
  ASSUME TrafficInv, NEW t \in TileIds, NEW accepted, NEW max, Pick(t, accepted, max)
  PROVE  TrafficInv'
<1> DEFINE taken(j) == Taken(net, t, accepted, max)[j + 1]
           left == [j \in Lanes |-> {net.lanes[t][j].slots[i] : i \in taken(j)}]
           rest == [l \in Lanes |-> Without(net.lanes[t][l], taken(l))]
<1>1. /\ arrived \in Nat /\ Sound(net) /\ Shape(net) /\ net.exitedLog = <<>>
      /\ ItemsIn(net) \cap delivered = {} /\ ItemsIn(net) \cap picked = {} /\ delivered \cap picked = {}
      /\ ItemsIn(net) \cup delivered \cup picked = 1 .. arrived
  BY DEF TrafficInv, Sound
<1>2. /\ net' = [net EXCEPT !.lanes[t] = rest]
      /\ UNCHANGED <<arrived, delivered>>
  BY <1>1 DEF Pick, TakeFromTile, Shape, Fields
<1>3. picked' = picked \cup left[0] \cup left[1]
  <2>1. /\ left[0] = {net.lanes[t][0].slots[i] : i \in Taken(net, t, accepted, max)[1]}
        /\ left[1] = {net.lanes[t][1].slots[i] : i \in Taken(net, t, accepted, max)[2]}
    BY DEF Lanes
  <2> HIDE DEF left
  <2>. QED  BY <2>1 DEF Pick
<1>4. \A j \in Lanes : taken(j) \subseteq Occupied(net.lanes[t][j])
  <2> SUFFICES ASSUME NEW j \in Lanes PROVE taken(j) \subseteq Occupied(net.lanes[t][j])
    OBVIOUS
  <2>1. CASE j = 0
    BY <2>1 DEF Taken, Takes
  <2>2. CASE j = 1
    BY <2>2 DEF Taken, Takes
  <2>. QED  BY <2>1, <2>2 DEF Lanes
<1> HIDE DEF taken
<1>5. ASSUME NEW j \in Lanes PROVE LaneOK(rest[j]) /\ ItemsOn(rest[j]) = On(net, t, j) \ left[j] /\ left[j] \subseteq On(net, t, j)
  <2>1. LaneOK(net.lanes[t][j])
    BY <1>1 DEF Sound
  <2>2. taken(j) \cap SlotsOf(net.lanes[t][j]) = taken(j)
    BY <1>4 DEF Occupied
  <2>3. LaneOK(rest[j]) /\ ItemsOn(rest[j]) = On(net, t, j) \ left[j]
    BY <2>1, <2>2, TakesOff DEF On
  <2>4. left[j] \subseteq On(net, t, j)
    BY <1>4 DEF On, ItemsOn
  <2>. QED  BY <2>3, <2>4
<1>6. DOMAIN net' = Fields /\ net'.exitedLog = <<>> /\ net'.lanes = [net.lanes EXCEPT ![t] = rest]
  BY <1>1, <1>2 DEF Shape, Fields
<1>7. /\ DOMAIN net'.lanes = TileIds
      /\ \A v \in TileIds : DOMAIN net'.lanes[v] = Lanes
      /\ \A v \in TileIds, j \in Lanes : net'.lanes[v][j] = IF v = t THEN rest[j] ELSE net.lanes[v][j]
  BY <1>1, <1>6 DEF Shape
<1> HIDE DEF rest, left
<1>8. \A v \in TileIds, j \in Lanes :
        /\ LaneOK(net'.lanes[v][j])
        /\ On(net', v, j) = IF v = t THEN On(net, v, j) \ left[j] ELSE On(net, v, j)
  BY <1>1, <1>5, <1>7 DEF Sound, On
<1>9. Shape(net')
  BY <1>6, <1>7 DEF Shape
<1>10. UNION {left[j] : j \in Lanes} = left[0] \cup left[1]
  BY DEF Lanes
<1>11. Sound(net') /\ ItemsIn(net') = ItemsIn(net) \ (left[0] \cup left[1]) /\ left[0] \cup left[1] \subseteq ItemsIn(net)
  BY <1>1, <1>5, <1>8, <1>9, <1>10, ItemsLeave
<1>12. /\ ItemsIn(net') \cap delivered = {} /\ ItemsIn(net') \cap picked' = {} /\ delivered \cap picked' = {}
       /\ ItemsIn(net') \cup delivered \cup picked' = 1 .. arrived
  BY <1>1, <1>3, <1>11
<1>. QED  BY <1>1, <1>2, <1>6, <1>11, <1>12 DEF TrafficInv

(* What a tick logs as having run off has left the network.                *)
LEMMA TickKeeps ==
  ASSUME TrafficInv, Tick
  PROVE  TrafficInv'
<1>1. /\ arrived \in Nat /\ Sound(net) /\ net.exitedLog = <<>>
      /\ ItemsIn(net) \cap delivered = {} /\ ItemsIn(net) \cap picked = {} /\ delivered \cap picked = {}
      /\ ItemsIn(net) \cup delivered \cup picked = 1 .. arrived
  BY DEF TrafficInv
<1>2. PICK phases, moved :
        /\ moved = StepAll(net, phases, Stepping(progress))
        /\ delivered' = delivered \cup Range(moved.exitedLog)
        /\ net' = [moved EXCEPT !.exitedLog = <<>>]
        /\ UNCHANGED <<arrived, picked>>
  BY DEF Tick
<1>3. LogOK(net) /\ Content(net) = ItemsIn(net)
  BY <1>1 DEF LogOK, Content, Range
<1>4. UpdateOrder \in Seq(TileIds)
  BY NetworkIsWired
<1>5. Kept(moved, net)
  BY <1>1, <1>2, <1>3, <1>4, StepKeeps DEF StepAll
<1>6. Sound(moved) /\ Shape(moved) /\ ItemsIn(moved) \cap Range(moved.exitedLog) = {}
      /\ ItemsIn(moved) \cup Range(moved.exitedLog) = ItemsIn(net)
  BY <1>3, <1>5 DEF Kept, LogOK, Content, Sound
<1>7. DOMAIN net' = Fields /\ net'.exitedLog = <<>> /\ net'.lanes = moved.lanes
  BY <1>2, <1>6 DEF Shape, Fields
<1>8. Shape(net') /\ \A v \in TileIds, j \in Lanes : LaneOK(net'.lanes[v][j]) /\ On(net', v, j) = On(moved, v, j)
  BY <1>6, <1>7 DEF Shape, Sound, On
<1>9. Sound(net') /\ ItemsIn(net') = ItemsIn(moved)
  BY <1>6, <1>8, SameItems
<1>10. /\ ItemsIn(net') \cap delivered' = {} /\ ItemsIn(net') \cap picked = {} /\ delivered' \cap picked = {}
       /\ ItemsIn(net') \cup delivered' \cup picked = 1 .. arrived
  BY <1>1, <1>2, <1>6, <1>9
<1>. QED  BY <1>1, <1>2, <1>7, <1>9, <1>10 DEF TrafficInv

(* Every step keeps the account.                                           *)
LEMMA TrafficKeeps ==
  ASSUME TrafficInv, [TrafficNext]_trafficVars
  PROVE  TrafficInv'
<1>1. CASE UNCHANGED trafficVars
  BY <1>1 DEF trafficVars, TrafficInv
<1>2. CASE TrafficNext
  BY <1>2, FeedKeeps, DropKeeps, PickKeeps, TickKeeps DEF TrafficNext
<1>. QED  BY <1>1, <1>2

(* Whatever is fed, dropped and picked, and in whichever order the tiles   *)
(* are stepped: lanes are sound, and every item that arrived is in one of  *)
(* three places (Network::step, insert, feed, pick).                       *)
THEOREM TrafficInvariant == TrafficSpec => []TrafficInv
<1>. QED  BY TrafficStarts, TrafficKeeps, PTL DEF TrafficSpec

(* The places of a sound network are as many as its items.                 *)
LEMMA OnePlaceEach ==
  ASSUME NEW n, Sound(n), IsFiniteSet(ItemsIn(n))
  PROVE  LET held == {node \in Nodes : Holds(n, node)}
         IN  IsFiniteSet(held) /\ Cardinality(held) = Cardinality(ItemsIn(n))
<1> DEFINE held == {node \in Nodes : Holds(n, node)}
           f == [node \in held |-> ItemAt(n, node)]
<1>1. Shape(n)
  BY DEF Sound
<1>2. ASSUME NEW node \in held
      PROVE  /\ node[1] \in TileIds /\ node[2] \in Lanes /\ node = <<node[1], node[2], node[3]>>
             /\ node[3] \in SlotsOf(n.lanes[node[1]][node[2]])
             /\ ItemAt(n, node) \in On(n, node[1], node[2]) /\ ItemAt(n, node) # Empty
             /\ ItemAt(n, node) \in ItemsIn(n)
  <2>1. node \in Nodes /\ Holds(n, node)
    OBVIOUS
  <2>2. node[1] \in TileIds /\ node[2] \in Lanes /\ node = <<node[1], node[2], node[3]>>
    BY <2>1 DEF Nodes
  <2>3. ItemAt(n, node) \in On(n, node[1], node[2])
    BY <2>1 DEF Holds, ItemAt, On, ItemsOn, Occupied
  <2>. QED  BY <1>1, <2>1, <2>2, <2>3, InIsOn DEF Holds, ItemAt
<1>3. ASSUME NEW a \in held, NEW b \in held, ItemAt(n, a) = ItemAt(n, b) PROVE a = b
  <2>1. a[1] = b[1] /\ a[2] = b[2]
    BY <1>2, <1>3 DEF Sound, LanesApart
  <2>2. LaneOK(n.lanes[a[1]][a[2]])
    BY <1>2 DEF Sound
  <2>3. a[3] = b[3]
    BY <1>2, <1>3, <2>1, <2>2 DEF LaneOK, ItemAt
  <2>. QED  BY <1>2, <2>1, <2>3
<1>4. ASSUME NEW x \in ItemsIn(n) PROVE \E node \in held : ItemAt(n, node) = x
  <2>1. PICK t \in TileIds, l \in Lanes : x \in On(n, t, l)
    BY <1>1, InIsOn
  <2>2. PICK i \in SlotsOf(n.lanes[t][l]) : x = n.lanes[t][l].slots[i] /\ x # Empty
    BY <2>1 DEF On, ItemsOn, Occupied
  <2>3. i \in 0 .. (SlotsPerTile - 1)
    <3>1. PICK k \in 1 .. SlotsPerTile : SlotsOf(n.lanes[t][l]) = 0 .. (k - 1)
      BY DEF Sound, LaneOK
    <3>. QED  BY <2>2, <3>1, NetworkAssumption
  <2>4. <<t, l, i>> \in held /\ ItemAt(n, <<t, l, i>>) = x
    BY <2>2, <2>3 DEF Nodes, Holds, ItemAt
  <2>. QED  BY <2>4
<1> HIDE DEF held
<1>5. f \in Injection(held, ItemsIn(n)) /\ f \in Surjection(held, ItemsIn(n))
  <2>1. f \in [held -> ItemsIn(n)]
    BY <1>2
  <2>2. \A a, b \in held : f[a] = f[b] => a = b
    BY <1>3
  <2>3. \A x \in ItemsIn(n) : \E a \in held : f[a] = x
    BY <1>4
  <2> HIDE DEF f
  <2>4. f \in Injection(held, ItemsIn(n))
    BY <2>1, <2>2 DEF Injection, IsInjective
  <2>5. f \in Surjection(held, ItemsIn(n))
    BY <2>1, <2>3 DEF Surjection
  <2>. QED  BY <2>4, <2>5
<1>6. IsFiniteSet(held) /\ Cardinality(held) = Cardinality(ItemsIn(n))
  <2> HIDE DEF f
  <2>. QED  BY <1>5, FS_Injection
<1>. QED  BY <1>6 DEF held

(* Two sets with nothing in common are together as many as both.           *)
LEMMA Disjointly ==
  ASSUME NEW A, NEW B, IsFiniteSet(A), IsFiniteSet(B), A \cap B = {}
  PROVE  IsFiniteSet(A \cup B) /\ Cardinality(A \cup B) = Cardinality(A) + Cardinality(B)
<1>1. /\ IsFiniteSet(A \cup B)
      /\ Cardinality(A \cup B) = Cardinality(A) + Cardinality(B) - Cardinality(A \cap B)
  BY FS_Union
<1>2. Cardinality(A \cap B) = 0 /\ Cardinality(A) \in Nat /\ Cardinality(B) \in Nat
  BY FS_EmptySet, FS_CardinalityType
<1>. QED  BY <1>1, <1>2

(* Over the whole network no item is lost, duplicated, or both delivered   *)
(* and still there, whatever the layout, the feeds and the inserters do.   *)
THEOREM ItemsConserved == TrafficSpec => []EveryItemOnce
<1>1. TrafficInv => EveryItemOnce
  <2> SUFFICES ASSUME TrafficInv PROVE EveryItemOnce
    OBVIOUS
  <2> DEFINE held == {node \in Nodes : Holds(net, node)}
             items == ItemsIn(net)
  <2>1. /\ arrived \in Nat /\ Sound(net)
        /\ items \cap delivered = {} /\ items \cap picked = {} /\ delivered \cap picked = {}
        /\ items \cup delivered \cup picked = 1 .. arrived
    BY DEF TrafficInv
  <2>2. IsFiniteSet(1 .. arrived) /\ Cardinality(1 .. arrived) = arrived
    <3>1. IsFiniteSet(1 .. arrived) /\ Cardinality(1 .. arrived) = IF 1 > arrived THEN 0 ELSE arrived - 1 + 1
      BY <2>1, FS_Interval
    <3>. QED  BY <2>1, <3>1
  <2>3. items \subseteq 1 .. arrived /\ delivered \subseteq 1 .. arrived /\ picked \subseteq 1 .. arrived
    BY <2>1
  <2>4. IsFiniteSet(items) /\ IsFiniteSet(delivered) /\ IsFiniteSet(picked)
    BY <2>2, <2>3, FS_Subset
  <2>5. Cardinality(held) = Cardinality(items)
    BY <2>1, <2>4, OnePlaceEach
  <2> HIDE DEF items, held
  <2>6. IsFiniteSet(items \cup delivered) /\ Cardinality(items \cup delivered) = Cardinality(items) + Cardinality(delivered)
    BY <2>1, <2>4, Disjointly
  <2>7. Cardinality((items \cup delivered) \cup picked)
          = Cardinality(items \cup delivered) + Cardinality(picked)
    <3>1. (items \cup delivered) \cap picked = {}
      BY <2>1
    <3>. QED  BY <2>4, <2>6, <3>1, Disjointly
  <2>8. Cardinality(held) + Cardinality(delivered) + Cardinality(picked) = arrived
    BY <2>1, <2>2, <2>5, <2>6, <2>7
  <2>. QED  BY <2>1, <2>8 DEF EveryItemOnce, held, items
<1>. QED  BY <1>1, TrafficInvariant, PTL
-----------------------------------------------------------------------------
(* A lane with nothing at its exit moves up as a whole.                    *)
LEMMA AllMoveUp ==
  ASSUME NEW lane, LaneOK(lane), ExitItem(lane) = Empty
  PROVE  /\ SlotsOf(ShiftForward(lane)) = SlotsOf(lane)
         /\ ShiftForward(lane).slots[0] = Empty
         /\ \A j \in SlotsOf(lane) \ {Exit(lane)} :
              j + 1 \in SlotsOf(lane) /\ ShiftForward(lane).slots[j + 1] = lane.slots[j]
<1> DEFINE new == ShiftForward(lane)
<1>1. PICK k \in 1 .. SlotsPerTile : SlotsOf(lane) = 0 .. (k - 1)
  BY DEF LaneOK
<1>2. k \in Nat \ {0} /\ 0 \in SlotsOf(lane)
  BY <1>1, NetworkAssumption
<1>3. Exit(lane) = k - 1
  <2>1. k - 1 \in SlotsOf(lane) /\ \A j \in SlotsOf(lane) : j <= k - 1
    BY <1>1, <1>2
  <2>2. \A e \in SlotsOf(lane) : (\A j \in SlotsOf(lane) : j <= e) => e = k - 1
    BY <1>1, <1>2
  <2>. QED  BY <2>1, <2>2 DEF Exit
<1>4. \A i \in SlotsOf(lane) : Clears(lane, i)
  <2>1. k - 1 \in Free(lane)
    BY <1>1, <1>2, <1>3 DEF Free, ExitItem
  <2>. QED  BY <1>1, <1>2, <2>1 DEF Clears
<1>5. new.slots = [i \in SlotsOf(lane) |-> IF i = 0 THEN Empty ELSE lane.slots[i - 1]]
  <2>1. new.slots = Shifted(lane, lane.slots, Empty)
    BY DEF ShiftForward
  <2>2. \A i \in SlotsOf(lane) : Shifted(lane, lane.slots, Empty)[i] = IF i = 0 THEN Empty ELSE lane.slots[i - 1]
    BY <1>4 DEF Shifted
  <2>. QED  BY <1>4, <2>1, <2>2 DEF Shifted
<1> HIDE DEF new
<1>6. SlotsOf(new) = SlotsOf(lane) /\ new.slots[0] = Empty
  BY <1>2, <1>5 DEF SlotsOf
<1>7. ASSUME NEW j \in SlotsOf(lane) \ {Exit(lane)}
      PROVE  j + 1 \in SlotsOf(lane) /\ new.slots[j + 1] = lane.slots[j]
  <2>1. PICK i : i = j + 1 /\ i \in SlotsOf(lane) /\ i # 0 /\ i - 1 = j
    BY <1>1, <1>2, <1>3
  <2>2. \A x \in SlotsOf(lane) : new.slots[x] = IF x = 0 THEN Empty ELSE lane.slots[x - 1]
    BY <1>5
  <2>3. new.slots[i] = lane.slots[i - 1]
    BY <2>1, <2>2
  <2>. QED  BY <2>1, <2>3
<1>. QED  BY <1>6, <1>7 DEF new

(* One exit leaves the lanes and the log as they are, or as the departure   *)
(* by one output does.                                                     *)
LEMMA ExitKinds ==
  ASSUME NEW n, Shape(n), NEW t \in TileIds, NEW lane \in Lanes, NEW phases
  PROVE  LET m == HandedOn(n, phases, t, lane)
         IN  \/ m.lanes = n.lanes /\ m.exitedLog = n.exitedLog
             \/ \E output : \E d \in Departures(n, phases, t, lane, output) :
                  /\ t \notin HalfTiles => output = 0
                  /\ m.lanes = d.lanes /\ m.exitedLog = d.exitedLog
<1> DEFINE Kind(m) == \/ m.lanes = n.lanes /\ m.exitedLog = n.exitedLog
                      \/ \E output : \E d \in Departures(n, phases, t, lane, output) :
                           /\ t \notin HalfTiles => output = 0
                           /\ m.lanes = d.lanes /\ m.exitedLog = d.exitedLog
           first == TriedFirst(n, t, lane)
           split == SplitterExit(n, phases, t, lane)
           plain == PlainExit(n, phases, t, lane)
           moved == IF Tiles[t].kind = "splitter" THEN split ELSE plain
           after == IF ~Waits(n, t, lane) THEN {n} ELSE OrElse(moved, {n})
<1>1. ASSUME NEW output, NEW d \in Departures(n, phases, t, lane, output) PROVE DOMAIN d = Fields
  BY <1>1 DEF Departures, HandOn, DrainExit, Shape, Fields
<1>2. ASSUME t \in HalfTiles, NEW which, NEW m \in Routed(n, phases, t, lane, first, which) PROVE Kind(m)
  <2>1. PICK d \in Departures(n, phases, t, lane, which) : m = Booked(n, d, t, lane, first, which)
    BY <1>2 DEF Routed
  <2>2. DOMAIN d = Fields
    BY <1>1
  <2>3. m.lanes = d.lanes /\ m.exitedLog = d.exitedLog
    BY <2>1, <2>2 DEF Booked, Fields
  <2>. QED  BY <1>2, <2>3
<1>3. ASSUME Tiles[t].kind = "splitter", NEW m \in split PROVE Kind(m)
  <2>1. m \in Routed(n, phases, t, lane, first, first) \/ m \in Routed(n, phases, t, lane, first, 1 - first)
    BY <1>3 DEF SplitterExit, OrElse
  <2>2. t \in HalfTiles
    BY <1>3 DEF HalfTiles
  <2>. QED  BY <1>2, <2>1, <2>2
<1>4. ASSUME Tiles[t].kind # "splitter", NEW m \in plain PROVE Kind(m)
  <2>1. m \in Departures(n, phases, t, lane, 0)
    BY <1>4 DEF PlainExit
  <2>. QED  BY <2>1
<1>5. Kind(n)
  OBVIOUS
<1>6. after # {} /\ \A m \in after : Kind(m)
  <2> HIDE DEF Kind, split, plain
  <2>. QED  BY <1>3, <1>4, <1>5 DEF OrElse
<1>7. HandedOn(n, phases, t, lane) = CHOOSE m \in after : TRUE
  BY DEF HandedOn
<1> HIDE DEF after, Kind
<1>8. Kind(HandedOn(n, phases, t, lane))
  BY <1>6, <1>7
<1>. QED  BY <1>8 DEF Kind

(* By whichever output an item leaves a tile, that tile feeds the one it   *)
(* comes to, and the tile with the link does too.                          *)
LEMMA OutputsFeed ==
  ASSUME NEW t \in TileIds, NEW output, t \notin HalfTiles => output = 0, HasOutput(t, output)
  PROVE  t \in Feeders(Downstream[Via(t, output)]) /\ Via(t, output) \in Feeders(Downstream[Via(t, output)])
<1> DEFINE via == Via(t, output)
<1>1. via \in TileIds /\ Downstream[via] \in TileIds \ {t} /\ Downstream[via] # NoTile
  BY Wiring
<1>2. t \in Feeders(Downstream[via])
  <2>1. CASE t \in HalfTiles
    <3>1. PICK branch \in Outputs : Via(t, branch) = via /\ HasOutput(t, branch)
      <4>1. 0 \in Outputs /\ 1 \in Outputs /\ Via(t, output) = Via(t, IF output = 0 THEN 0 ELSE 1)
        BY DEF Outputs, Via
      <4>. QED  BY <4>1 DEF HasOutput
    <3> HIDE DEF via
    <3>. QED  BY <2>1, <3>1 DEF Feeders, Ahead, BranchTiles
  <2>2. CASE t \notin HalfTiles
    BY <1>1, <2>2 DEF Feeders, Ahead, Via
  <2>. QED  BY <2>1, <2>2
<1>3. via \in Feeders(Downstream[via])
  <2>1. CASE via \in HalfTiles
    <3>1. 0 \in Outputs /\ Via(via, 0) = via
      BY DEF Outputs, Via
    <3>2. HasOutput(via, 0)
      BY <1>1, <3>1, Wiring DEF HasOutput
    <3> HIDE DEF via
    <3>. QED  BY <1>1, <2>1, <3>1, <3>2 DEF Feeders, Ahead, BranchTiles
  <2>2. CASE via \notin HalfTiles
    BY <1>1, <2>2 DEF Feeders, Ahead
  <2>. QED  BY <2>1, <2>2
<1>. QED  BY <1>2, <1>3

\* A tile onto which nothing is sideloaded.
Unmerged(u) == \A f \in Feeders(u) : Onto[f] = Straight

\* What comes onto a lane leaves what is there where it is.
Fills(old, new) ==
  /\ SlotsOf(new) = SlotsOf(old)
  /\ \A j \in SlotsOf(old) : old.slots[j] # Empty => new.slots[j] = old.slots[j]

\* What a step of tile t leaves alone in the rest of a network.
Spared(n, m, t) ==
  /\ \A u \in TileIds \ {t}, k \in Lanes :
       /\ Unmerged(u) => Fills(n.lanes[u][k], m.lanes[u][k])
       /\ t \notin Feeders(u) => m.lanes[u][k] = n.lanes[u][k]
  /\ Range(n.exitedLog) \subseteq Range(m.exitedLog)

(* A departure adds an item to one lane that its tile feeds, or to the log. *)
LEMMA DepartureSpares ==
  ASSUME NEW n, Sound(n), LogOK(n), NEW t \in TileIds, NEW lane \in Lanes, NEW phases,
         NEW output, t \notin HalfTiles => output = 0, NEW m \in Departures(n, phases, t, lane, output)
  PROVE  Spared(n, m, t)
<1>1. CASE HasOutput(t, output)
  <2> DEFINE via == Via(t, output)
             w == Downstream[via]
             h == TargetLane(Onto[via], lane)
             vacated == [n.lanes EXCEPT ![t][lane] = Vacated(n, t, lane)]
  <2>1. via \in TileIds /\ w \in TileIds \ {t} /\ h \in Lanes
    BY <1>1, Wiring
  <2>2. PICK on \in Receptions(n, phases, t, lane, via) : m = HandOn(n, t, lane, via, on)
    BY <1>1 DEF Departures
  <2>3. t \in Feeders(w) /\ via \in Feeders(w)
    BY <1>1, OutputsFeed
  <2>4. m.exitedLog = n.exitedLog /\ m.lanes = [vacated EXCEPT ![w][h] = on]
    BY <2>2 DEF HandOn, Sound, Shape, Fields
  <2>5. ASSUME Onto[via] = Straight PROVE Fills(n.lanes[w][h], on)
    <3>1. h = lane /\ OntoLane(n, lane, via) = n.lanes[w][lane] /\ lane \in Lanes
      BY <2>5 DEF TargetLane, OntoLane
    <3> DEFINE old == n.lanes[w][lane]
    <3>2. EntryFree(old) /\ \E item, offset : on = EnterAt(old, item, offset)
      BY <2>2, <2>5, <3>1 DEF Receptions
    <3> HIDE DEF old
    <3>3. 0 \in SlotsOf(old) /\ old.slots[0] = Empty /\ \E item : on.slots = [old.slots EXCEPT ![0] = item]
      BY <3>2 DEF EntryFree, Free, EnterAt, Put
    <3>4. Fills(old, on)
      BY <3>3 DEF Fills, SlotsOf
    <3>. QED  BY <3>1, <3>4 DEF old
  <2>6. \A v \in TileIds \ {t}, k \in Lanes : m.lanes[v][k] = IF v = w /\ k = h THEN on ELSE n.lanes[v][k]
    <3> HIDE DEF w, h
    <3>. QED  BY <2>1, <2>4 DEF Sound, Shape
  <2> HIDE DEF via, w, h
  <2>7. ASSUME NEW v \in TileIds \ {t}, NEW k \in Lanes
        PROVE  /\ Unmerged(v) => Fills(n.lanes[v][k], m.lanes[v][k])
               /\ t \notin Feeders(v) => m.lanes[v][k] = n.lanes[v][k]
    <3>1. CASE v = w /\ k = h
      BY <2>3, <2>5, <2>6, <3>1 DEF Unmerged
    <3>2. CASE ~(v = w /\ k = h)
      BY <2>6, <3>2 DEF Fills
    <3>. QED  BY <3>1, <3>2
  <2>. QED  BY <2>4, <2>7 DEF Spared
<1>2. CASE ~HasOutput(t, output)
  <2>1. m = DrainExit(n, t, lane)
    BY <1>2 DEF Departures
  <2>2. /\ m.lanes = [n.lanes EXCEPT ![t][lane] = Vacated(n, t, lane)]
        /\ m.exitedLog = Append(n.exitedLog, ExitItem(n.lanes[t][lane]))
    BY <2>1 DEF DrainExit, Sound, Shape, Fields
  <2>3. \A v \in TileIds \ {t} : m.lanes[v] = n.lanes[v]
    BY <2>2 DEF Sound, Shape
  <2>4. Range(n.exitedLog) \subseteq Range(m.exitedLog)
    <3> DEFINE old == n.exitedLog
               item == ExitItem(n.lanes[t][lane])
    <3>1. old \in Seq(Nat) /\ m.exitedLog = Append(old, item)
      BY <2>2 DEF LogOK
    <3> HIDE DEF old, item
    <3>2. DOMAIN old \subseteq DOMAIN m.exitedLog /\ \A i \in DOMAIN old : m.exitedLog[i] = old[i]
      BY <3>1
    <3>3. Range(old) \subseteq Range(m.exitedLog)
      BY <3>2 DEF Range
    <3>. QED  BY <3>3 DEF old
  <2>. QED  BY <2>3, <2>4 DEF Spared, Fills
<1>. QED  BY <1>1, <1>2

(* So does one exit, taken or not.                                         *)
LEMMA ExitSpares ==
  ASSUME NEW n, Sound(n), LogOK(n), NEW t \in TileIds, NEW lane \in Lanes, NEW phases
  PROVE  Spared(n, HandedOn(n, phases, t, lane), t)
<1> DEFINE m == HandedOn(n, phases, t, lane)
<1>1. ASSUME m.lanes = n.lanes, m.exitedLog = n.exitedLog PROVE Spared(n, m, t)
  <2> HIDE DEF m
  <2>. QED  BY <1>1 DEF Spared, Fills
<1>2. ASSUME \E output : \E d \in Departures(n, phases, t, lane, output) :
               /\ t \notin HalfTiles => output = 0
               /\ m.lanes = d.lanes /\ m.exitedLog = d.exitedLog
      PROVE  Spared(n, m, t)
  <2>0. PICK output : \E d \in Departures(n, phases, t, lane, output) :
                        /\ t \notin HalfTiles => output = 0
                        /\ m.lanes = d.lanes /\ m.exitedLog = d.exitedLog
    BY <1>2
  <2>1. PICK d \in Departures(n, phases, t, lane, output) :
          /\ t \notin HalfTiles => output = 0
          /\ m.lanes = d.lanes /\ m.exitedLog = d.exitedLog
    BY <2>0
  <2>2. Spared(n, d, t)
    BY <2>1, DepartureSpares
  <2> HIDE DEF m
  <2>. QED  BY <2>1, <2>2 DEF Spared
<1>3. Shape(n)
  BY DEF Sound
<1>4. \/ m.lanes = n.lanes /\ m.exitedLog = n.exitedLog
      \/ \E output : \E d \in Departures(n, phases, t, lane, output) :
           /\ t \notin HalfTiles => output = 0
           /\ m.lanes = d.lanes /\ m.exitedLog = d.exitedLog
  BY <1>3, ExitKinds
<1> HIDE DEF m
<1>5. Spared(n, m, t)
  BY <1>1, <1>2, <1>4
<1>. QED  BY <1>5 DEF m

(* And a whole step of a tile.                                             *)
LEMMA StepSpares ==
  ASSUME NEW n, Sound(n), LogOK(n), NEW t \in TileIds, NEW phases
  PROVE  Spared(n, StepTile(n, phases, t), t)
<1> DEFINE left == HandedOn(n, phases, t, 0)
           right == HandedOn(left, phases, t, 1)
           m == Risen(right, t)
<1>1. 0 \in Lanes /\ 1 \in Lanes
  BY DEF Lanes
<1>2. Kept(left, n) /\ Spared(n, left, t)
  BY <1>1, Exits, ExitSpares
<1>3. Sound(left) /\ LogOK(left)
  BY <1>2 DEF Kept
<1> HIDE DEF left
<1>4. Kept(right, left) /\ Spared(left, right, t)
  BY <1>1, <1>3, Exits, ExitSpares
<1>5. Shape(right)
  BY <1>4 DEF Kept, Sound
<1> HIDE DEF right
<1>6. m.exitedLog = right.exitedLog /\ \A v \in TileIds \ {t} : m.lanes[v] = right.lanes[v]
  BY <1>5 DEF Risen, Shape, Fields
<1>7. ASSUME NEW v \in TileIds \ {t}, NEW k \in Lanes
      PROVE  /\ Unmerged(v) => Fills(n.lanes[v][k], m.lanes[v][k])
             /\ t \notin Feeders(v) => m.lanes[v][k] = n.lanes[v][k]
  <2>1. /\ Unmerged(v) => Fills(n.lanes[v][k], left.lanes[v][k])
        /\ t \notin Feeders(v) => left.lanes[v][k] = n.lanes[v][k]
    BY <1>2 DEF Spared
  <2>2. /\ Unmerged(v) => Fills(left.lanes[v][k], right.lanes[v][k])
        /\ t \notin Feeders(v) => right.lanes[v][k] = left.lanes[v][k]
    BY <1>4 DEF Spared
  <2>3. m.lanes[v][k] = right.lanes[v][k]
    BY <1>6
  <2> HIDE DEF m
  <2>. QED  BY <2>1, <2>2, <2>3 DEF Fills
<1>8. Range(n.exitedLog) \subseteq Range(m.exitedLog)
  BY <1>2, <1>4, <1>6 DEF Spared
<1>9. StepTile(n, phases, t) = m
  BY DEF StepTile, left, right
<1> HIDE DEF m
<1>. QED  BY <1>7, <1>8, <1>9 DEF Spared
-----------------------------------------------------------------------------
(* The exit is the last slot.                                              *)
LEMMA ExitIsLast ==
  ASSUME NEW lane, LaneOK(lane)
  PROVE  \E k \in Nat \ {0} : SlotsOf(lane) = 0 .. (k - 1) /\ Exit(lane) = k - 1
<1>1. PICK k \in 1 .. SlotsPerTile : SlotsOf(lane) = 0 .. (k - 1)
  BY DEF LaneOK
<1>2. k \in Nat \ {0} /\ k - 1 \in SlotsOf(lane) /\ \A j \in SlotsOf(lane) : j <= k - 1
  BY <1>1, NetworkAssumption
<1>3. \A e \in SlotsOf(lane) : (\A j \in SlotsOf(lane) : j <= e) => e = k - 1
  BY <1>1, <1>2
<1>4. Exit(lane) = k - 1
  BY <1>2, <1>3 DEF Exit
<1>. QED  BY <1>1, <1>2, <1>4

(* Lanes with the same slots have the same exit.                           *)
LEMMA SameExit ==
  ASSUME NEW a, LaneOK(a), NEW b, LaneOK(b), SlotsOf(a) = SlotsOf(b)
  PROVE  Exit(a) = Exit(b)
<1>1. PICK k \in Nat \ {0} : SlotsOf(a) = 0 .. (k - 1) /\ Exit(a) = k - 1
  BY ExitIsLast
<1>2. PICK h \in Nat \ {0} : SlotsOf(b) = 0 .. (h - 1) /\ Exit(b) = h - 1
  BY ExitIsLast
<1>3. Exit(a) \in SlotsOf(b) /\ Exit(b) \in SlotsOf(a)
  BY ExitIsASlot
<1>4. Exit(a) <= Exit(b)
  BY <1>2, <1>3
<1>5. Exit(b) <= Exit(a)
  BY <1>1, <1>3
<1>. QED  BY <1>1, <1>2, <1>4, <1>5

\* A tile that hands on straight, with room ahead on the lanes.
Clear(n, t, lanes) ==
  /\ Tiles[t].kind # "splitter" /\ Onto[t] = Straight
  /\ IF Downstream[t] = NoTile THEN IsSink(t) ELSE \A l \in lanes : EntryFree(n.lanes[Downstream[t]][l])

\* The exit item of a lane has gone to the entry ahead, or into the log.
Gone(item, m, t, lane) ==
  IF Downstream[t] = NoTile THEN item \in Range(m.exitedLog)
  ELSE m.lanes[Downstream[t]][lane].slots[0] = item

\* A lane without its exit item.
Emptied(old, new) ==
  /\ SlotsOf(new) = SlotsOf(old)
  /\ ExitItem(new) = Empty
  /\ \A j \in SlotsOf(old) \ {Exit(old)} : new.slots[j] = old.slots[j]

(* With room ahead the exit item goes, and nothing else on the two tiles   *)
(* changes.                                                                *)
LEMMA ClearExit ==
  ASSUME NEW n, Sound(n), LogOK(n), NEW t \in TileIds, NEW lane \in Lanes, NEW phases, Clear(n, t, {lane})
  PROVE  LET m == HandedOn(n, phases, t, lane)
         IN  /\ Emptied(n.lanes[t][lane], m.lanes[t][lane])
             /\ Waits(n, t, lane) => Gone(ExitItem(n.lanes[t][lane]), m, t, lane)
             /\ \A k \in Lanes \ {lane} :
                  /\ m.lanes[t][k] = n.lanes[t][k]
                  /\ Downstream[t] # NoTile => m.lanes[Downstream[t]][k] = n.lanes[Downstream[t]][k]
<1> DEFINE u == Downstream[t]
           item == ExitItem(n.lanes[t][lane])
           Done(m) == /\ Emptied(n.lanes[t][lane], m.lanes[t][lane])
                      /\ Waits(n, t, lane) => Gone(item, m, t, lane)
                      /\ \A k \in Lanes \ {lane} :
                           /\ m.lanes[t][k] = n.lanes[t][k]
                           /\ u # NoTile => m.lanes[u][k] = n.lanes[u][k]
<1>1. Shape(n) /\ LaneOK(n.lanes[t][lane])
  BY DEF Sound
<1>2. CASE ~Waits(n, t, lane)
  <2>1. HandedOn(n, phases, t, lane) = n
    BY <1>2 DEF HandedOn
  <2>2. Done(n)
    BY <1>2 DEF Emptied, Waits
  <2> HIDE DEF Done
  <2>3. Done(HandedOn(n, phases, t, lane))
    BY <2>1, <2>2
  <2>. QED  BY <2>3 DEF Done
<1>3. CASE Waits(n, t, lane)
  <2> DEFINE after == Departures(n, phases, t, lane, 0)
  <2>1. Emptied(n.lanes[t][lane], Vacated(n, t, lane))
    <3> DEFINE old == n.lanes[t][lane]
               new == Without(old, {Exit(old)})
    <3>1. new.slots = [i \in SlotsOf(old) |-> IF i \in {Exit(old)} THEN Empty ELSE old.slots[i]]
      BY DEF Without
    <3> HIDE DEF old, new
    <3>2. SlotsOf(new) = SlotsOf(old)
      BY <3>1 DEF SlotsOf
    <3>3. Exit(old) \in SlotsOf(old) /\ Exit(new) = Exit(old)
      <4>1. LaneOK(old) /\ LaneOK(new)
        BY <1>1, TakesOff DEF old, new
      <4>. QED  BY <3>2, <4>1, ExitIsASlot, SameExit
    <3>4. Emptied(old, new)
      BY <3>1, <3>2, <3>3 DEF Emptied, ExitItem
    <3>. QED  BY <3>4 DEF Vacated, old, new
  <2>2. \A m \in after : Done(m)
    <3> SUFFICES ASSUME NEW m \in after PROVE Done(m)
      OBVIOUS
    <3>1. Via(t, 0) = t
      BY DEF Via
    <3>2. CASE u # NoTile
      <4>1. HasOutput(t, 0)
        BY <3>1, <3>2, Wiring DEF HasOutput
      <4>2. u \in TileIds \ {t}
        BY <3>1, <4>1, Wiring
      <4>3. PICK on \in Receptions(n, phases, t, lane, t) : m = HandOn(n, t, lane, t, on)
        BY <3>1, <4>1 DEF Departures
      <4>4. TargetLane(Onto[t], lane) = lane /\ OntoLane(n, lane, t) = n.lanes[u][lane]
        BY DEF Clear, TargetLane, OntoLane
      <4>5. on = EnterAt(n.lanes[u][lane], item, ExitOffset(n.lanes[t][lane])) /\ EntryFree(n.lanes[u][lane])
        BY <4>3, <4>4 DEF Clear, Receptions, Sideload
      <4>6. on.slots[0] = item
        BY <4>5 DEF EntryFree, Free, EnterAt, Put, SlotsOf
      <4> DEFINE vacated == [n.lanes EXCEPT ![t][lane] = Vacated(n, t, lane)]
      <4>7. m.lanes = [vacated EXCEPT ![u][lane] = on]
        BY <1>1, <4>3, <4>4 DEF HandOn, Shape, Fields
      <4> HIDE DEF u, item
      <4>8. \A v \in TileIds, k \in Lanes :
              m.lanes[v][k] = IF v = u /\ k = lane THEN on
                              ELSE IF v = t /\ k = lane THEN Vacated(n, t, lane) ELSE n.lanes[v][k]
        BY <1>1, <4>2, <4>7 DEF Shape
      <4>9. m.lanes[t][lane] = Vacated(n, t, lane) /\ m.lanes[u][lane] = on
        BY <4>2, <4>8
      <4>10. \A k \in Lanes \ {lane} : m.lanes[t][k] = n.lanes[t][k] /\ m.lanes[u][k] = n.lanes[u][k]
        BY <4>2, <4>8
      <4>11. Gone(item, m, t, lane)
        BY <3>2, <4>6, <4>9 DEF Gone, u
      <4>. QED  BY <2>1, <4>9, <4>10, <4>11
    <3>3. CASE u = NoTile
      <4>1. ~HasOutput(t, 0)
        BY <3>1, <3>3 DEF HasOutput
      <4>2. m = DrainExit(n, t, lane)
        BY <4>1 DEF Departures
      <4>3. m.lanes = [n.lanes EXCEPT ![t][lane] = Vacated(n, t, lane)] /\ m.exitedLog = Append(n.exitedLog, item)
        BY <1>1, <4>2 DEF DrainExit, Shape, Fields
      <4>4. item \in Range(m.exitedLog)
        <5> DEFINE old == n.exitedLog
        <5>1. old \in Seq(Nat)
          BY DEF LogOK
        <5> HIDE DEF old, item
        <5>2. m.exitedLog = Append(old, item)
          BY <4>3 DEF old
        <5>3. Len(old) + 1 \in DOMAIN m.exitedLog /\ m.exitedLog[Len(old) + 1] = item
          BY <5>1, <5>2
        <5>. QED  BY <5>3 DEF Range
      <4>5. \A k \in Lanes : m.lanes[t][k] = IF k = lane THEN Vacated(n, t, lane) ELSE n.lanes[t][k]
        BY <1>1, <4>3 DEF Shape
      <4>. QED  BY <2>1, <3>3, <4>4, <4>5 DEF Gone
    <3>. QED  BY <3>2, <3>3
  <2>3. after # {}
    <3>1. Via(t, 0) = t
      BY DEF Via
    <3>2. CASE u # NoTile
      <4>1. HasOutput(t, 0) /\ EntryFree(n.lanes[u][lane])
        BY <3>1, <3>2, Wiring DEF HasOutput, Clear
      <4>2. OntoLane(n, lane, t) = n.lanes[u][lane]
        BY DEF Clear, TargetLane, OntoLane
      <4>3. Receptions(n, phases, t, lane, t) # {}
        BY <4>1, <4>2 DEF Clear, Receptions
      <4>. QED  BY <3>1, <4>1, <4>3 DEF Departures
    <3>3. CASE u = NoTile
      <4>1. ~HasOutput(t, 0) /\ IsSink(t)
        BY <3>1, <3>3 DEF HasOutput, Clear
      <4>. QED  BY <4>1 DEF Departures
    <3>. QED  BY <3>2, <3>3
  <2>4. HandedOn(n, phases, t, lane) = CHOOSE m \in after : TRUE
    <3>1. Tiles[t].kind # "splitter"
      BY DEF Clear
    <3> HIDE DEF after
    <3>2. OrElse(PlainExit(n, phases, t, lane), {n}) = after
      BY <2>3 DEF OrElse, PlainExit, after
    <3>. QED  BY <1>3, <3>1, <3>2 DEF HandedOn
  <2> HIDE DEF Done, after
  <2>5. Done(HandedOn(n, phases, t, lane))
    BY <2>2, <2>3, <2>4
  <2>. QED  BY <2>5 DEF Done, item, u
<1>. QED  BY <1>2, <1>3

\* A lane every item of which has moved one slot on.
MovedOn(old, new, m, t, lane) ==
  /\ SlotsOf(new) = SlotsOf(old)
  /\ new.slots[0] = Empty
  /\ \A j \in SlotsOf(old) :
       IF j = Exit(old) THEN old.slots[j] # Empty => Gone(old.slots[j], m, t, lane)
       ELSE j + 1 \in SlotsOf(old) /\ new.slots[j + 1] = old.slots[j]

(* An emptied lane moves up as a whole.                                    *)
LEMMA EmptiedMovesOn ==
  ASSUME NEW old, LaneOK(old), NEW new, LaneOK(new), Emptied(old, new), NEW m, NEW t, NEW lane,
         old.slots[Exit(old)] # Empty => Gone(old.slots[Exit(old)], m, t, lane)
  PROVE  MovedOn(old, ShiftForward(new), m, t, lane)
<1> DEFINE up == ShiftForward(new)
<1>1. ExitItem(new) = Empty /\ SlotsOf(new) = SlotsOf(old)
      /\ \A j \in SlotsOf(old) \ {Exit(old)} : new.slots[j] = old.slots[j]
  BY DEF Emptied
<1>2. Exit(new) = Exit(old)
  BY <1>1, SameExit
<1>3. /\ SlotsOf(up) = SlotsOf(new) /\ up.slots[0] = Empty
      /\ \A j \in SlotsOf(new) \ {Exit(new)} : j + 1 \in SlotsOf(new) /\ up.slots[j + 1] = new.slots[j]
  BY <1>1, AllMoveUp
<1> HIDE DEF up
<1>4. MovedOn(old, up, m, t, lane)
  BY <1>1, <1>2, <1>3 DEF MovedOn
<1>. QED  BY <1>4 DEF up

(* step_tile of a tile with room ahead: both lanes move one slot on.       *)
LEMMA ClearStep ==
  ASSUME NEW n, Sound(n), LogOK(n), NEW t \in TileIds, NEW phases, Clear(n, t, Lanes)
  PROVE  LET m == StepTile(n, phases, t)
         IN  \A lane \in Lanes : MovedOn(n.lanes[t][lane], m.lanes[t][lane], m, t, lane)
<1> DEFINE u == Downstream[t]
           left == HandedOn(n, phases, t, 0)
           right == HandedOn(left, phases, t, 1)
           m == Risen(right, t)
<1>1. 0 \in Lanes /\ 1 \in Lanes /\ \A k \in Lanes : k = 0 \/ k = 1
  BY DEF Lanes
<1>2. u # NoTile => u \in TileIds \ {t}
  <2>1. Via(t, 0) = t
    BY DEF Via
  <2>. QED  BY <2>1, Wiring DEF HasOutput
<1>3. Clear(n, t, {0})
  BY <1>1 DEF Clear
<1>4. Kept(left, n) /\ Spared(n, left, t)
  BY <1>1, Exits, ExitSpares
<1>5. /\ Emptied(n.lanes[t][0], left.lanes[t][0])
      /\ Waits(n, t, 0) => Gone(ExitItem(n.lanes[t][0]), left, t, 0)
      /\ left.lanes[t][1] = n.lanes[t][1]
      /\ u # NoTile => left.lanes[u][1] = n.lanes[u][1]
  <2>1. 1 \in Lanes \ {0}
    BY <1>1
  <2>. QED  BY <1>1, <1>3, <2>1, ClearExit
<1>6. Sound(left) /\ LogOK(left)
  BY <1>4 DEF Kept
<1> HIDE DEF left
<1>7. Clear(left, t, {1})
  BY <1>1, <1>5 DEF Clear
<1>8. Kept(right, left) /\ Spared(left, right, t)
  BY <1>1, <1>6, Exits, ExitSpares
<1>9. /\ Emptied(left.lanes[t][1], right.lanes[t][1])
      /\ Waits(left, t, 1) => Gone(ExitItem(left.lanes[t][1]), right, t, 1)
      /\ right.lanes[t][0] = left.lanes[t][0]
      /\ u # NoTile => right.lanes[u][0] = left.lanes[u][0]
  <2>1. 0 \in Lanes \ {1}
    BY <1>1
  <2>. QED  BY <1>1, <1>6, <1>7, <2>1, ClearExit
<1>10. Sound(right) /\ Range(left.exitedLog) \subseteq Range(right.exitedLog)
  BY <1>8 DEF Kept, Spared
<1> HIDE DEF right
<1>11. /\ m.exitedLog = right.exitedLog
       /\ u # NoTile => m.lanes[u] = right.lanes[u]
       /\ \A k \in Lanes : m.lanes[t][k] = ShiftForward(right.lanes[t][k])
  BY <1>2, <1>10 DEF Risen, Sound, Shape, Fields
<1> HIDE DEF m
<1>12. ASSUME NEW k \in Lanes
       PROVE  /\ Emptied(n.lanes[t][k], right.lanes[t][k])
              /\ n.lanes[t][k].slots[Exit(n.lanes[t][k])] # Empty
                   => Gone(n.lanes[t][k].slots[Exit(n.lanes[t][k])], m, t, k)
  <2>1. CASE k = 0
    BY <1>5, <1>9, <1>10, <1>11, <2>1 DEF Waits, ExitItem, Gone, u
  <2>2. CASE k = 1
    BY <1>5, <1>9, <1>11, <2>2 DEF Waits, ExitItem, Gone, u
  <2>. QED  BY <1>1, <2>1, <2>2
<1>13. ASSUME NEW k \in Lanes PROVE MovedOn(n.lanes[t][k], m.lanes[t][k], m, t, k)
  <2>1. LaneOK(n.lanes[t][k]) /\ LaneOK(right.lanes[t][k])
    BY <1>10 DEF Sound
  <2>. QED  BY <1>11, <1>12, <2>1, EmptiedMovesOn
<1>. QED  BY <1>13 DEF StepTile, m, right, left
-----------------------------------------------------------------------------
\* The item that network n has on a slot is in m where the next place is.
OneFurther(n, m, t, lane, j) ==
  LET item == n.lanes[t][lane].slots[j]
  IN  IF j = Exit(n.lanes[t][lane]) THEN Gone(item, m, t, lane)
      ELSE j + 1 \in SlotsOf(m.lanes[t][lane]) /\ m.lanes[t][lane].slots[j + 1] = item

\* What tile u of a run is like in network m when the tiles of done have
\* been worked, starting from n.
Worked(n, m, run, done, u) ==
  \A lane \in Lanes :
    /\ SlotsOf(m.lanes[u][lane]) = SlotsOf(n.lanes[u][lane])
    /\ u \notin done => Fills(n.lanes[u][lane], m.lanes[u][lane])
    /\ u \in done => /\ \A j \in Occupied(n.lanes[u][lane]) : OneFurther(n, m, u, lane, j)
                     /\ \A f \in run \ done : Downstream[f] = u => EntryFree(m.lanes[u][lane])

(* A step of another tile leaves a tile of a run as it is, but for an item *)
(* that comes to its entry.                                                *)
LEMMA OthersStep ==
  ASSUME NEW n, Sound(n), NEW m, Sound(m), NEW new, NEW v \in TileIds, Spared(m, new, v),
         NEW t, NEW run \in SUBSET TileIds, FreeRun(t, run), NEW done, v \in run => v \notin done,
         \A f \in run \cap done : Downstream[f] # NoTile => Downstream[f] \in done,
         \A u \in run : Worked(n, m, run, done, u),
         NEW u \in run, u # v
  PROVE  Worked(n, new, run, done \cup {v}, u)
<1>1. Unmerged(u) /\ u \in TileIds
  BY DEF FreeRun, Unmerged
<1> SUFFICES ASSUME NEW lane \in Lanes
             PROVE  /\ SlotsOf(new.lanes[u][lane]) = SlotsOf(n.lanes[u][lane])
                    /\ u \notin done \cup {v} => Fills(n.lanes[u][lane], new.lanes[u][lane])
                    /\ u \in done \cup {v} =>
                         /\ \A j \in Occupied(n.lanes[u][lane]) : OneFurther(n, new, u, lane, j)
                         /\ \A f \in run \ (done \cup {v}) : Downstream[f] = u => EntryFree(new.lanes[u][lane])
  BY DEF Worked
<1>2. /\ SlotsOf(m.lanes[u][lane]) = SlotsOf(n.lanes[u][lane])
      /\ u \notin done => Fills(n.lanes[u][lane], m.lanes[u][lane])
      /\ u \in done => /\ \A j \in Occupied(n.lanes[u][lane]) : OneFurther(n, m, u, lane, j)
                       /\ \A f \in run \ done : Downstream[f] = u => EntryFree(m.lanes[u][lane])
  BY DEF Worked
<1>3. \A w \in run \ {v} : Fills(m.lanes[w][lane], new.lanes[w][lane])
  BY DEF Spared, FreeRun, Unmerged
<1>4. SlotsOf(new.lanes[u][lane]) = SlotsOf(n.lanes[u][lane])
  BY <1>2, <1>3 DEF Fills
<1>5. ASSUME u \notin done \cup {v} PROVE Fills(n.lanes[u][lane], new.lanes[u][lane])
  BY <1>2, <1>3, <1>5 DEF Fills
<1>6. ASSUME u \in done, NEW j \in Occupied(n.lanes[u][lane]) PROVE OneFurther(n, new, u, lane, j)
  <2> DEFINE item == n.lanes[u][lane].slots[j]
  <2>1. item # Empty /\ j \in SlotsOf(n.lanes[u][lane]) /\ OneFurther(n, m, u, lane, j)
    BY <1>2, <1>6 DEF Occupied
  <2>2. CASE j # Exit(n.lanes[u][lane])
    <3>1. j + 1 \in SlotsOf(m.lanes[u][lane]) /\ m.lanes[u][lane].slots[j + 1] = item
      BY <2>1, <2>2 DEF OneFurther
    <3>2. j + 1 \in SlotsOf(new.lanes[u][lane]) /\ new.lanes[u][lane].slots[j + 1] = item
      BY <1>3, <2>1, <3>1 DEF Fills
    <3>. QED  BY <2>2, <3>1, <3>2 DEF OneFurther
  <2>3. CASE j = Exit(n.lanes[u][lane])
    <3>1. Gone(item, m, u, lane)
      BY <2>1, <2>3 DEF OneFurther
    <3>2. CASE Downstream[u] = NoTile
      <4>1. item \in Range(new.exitedLog)
        BY <3>1, <3>2 DEF Gone, Spared
      <4>. QED  BY <2>3, <3>2, <4>1 DEF OneFurther, Gone
    <3>3. CASE Downstream[u] # NoTile
      <4> DEFINE w == Downstream[u]
      <4>1. w \in run \ {v}
        BY <1>6, <3>3 DEF FreeRun
      <4>2. m.lanes[w][lane].slots[0] = item
        BY <3>1, <3>3 DEF Gone
      <4>3. LaneOK(m.lanes[w][lane])
        BY <4>1 DEF Sound
      <4> HIDE DEF w
      <4>4. 0 \in SlotsOf(m.lanes[w][lane])
        <5>1. PICK k \in Nat \ {0} : SlotsOf(m.lanes[w][lane]) = 0 .. (k - 1)
          BY <4>3, ExitIsLast
        <5>. QED  BY <5>1
      <4>5. new.lanes[w][lane].slots[0] = item
        BY <1>3, <2>1, <4>1, <4>2, <4>4 DEF Fills
      <4>. QED  BY <2>3, <3>3, <4>5 DEF OneFurther, Gone, w
    <3>. QED  BY <3>2, <3>3
  <2>. QED  BY <2>2, <2>3
<1>7. ASSUME u \in done, NEW f \in run \ (done \cup {v}), Downstream[f] = u PROVE EntryFree(new.lanes[u][lane])
  <2>1. f \in Feeders(u) /\ u # t
    <3>1. f \notin HalfTiles /\ u # NoTile /\ f \in TileIds
      BY <1>1, Wiring DEF FreeRun, HalfTiles
    <3>2. f \in Feeders(u)
      BY <1>7, <3>1 DEF Feeders, Ahead
    <3>. QED  BY <1>7, <3>1, <3>2 DEF FreeRun
  <2>2. v \notin Feeders(u)
    BY <2>1 DEF FreeRun
  <2>3. new.lanes[u][lane] = m.lanes[u][lane]
    BY <1>1, <2>2 DEF Spared
  <2>. QED  BY <1>2, <1>7, <2>3
<1>. QED  BY <1>4, <1>5, <1>6, <1>7

(* A tile of a run that comes after the one ahead of it moves on.          *)
LEMMA RunTileSteps ==
  ASSUME NEW n, Sound(n), NEW m, Sound(m), LogOK(m), NEW phases,
         NEW t, NEW run \in SUBSET TileIds, FreeRun(t, run), NEW done,
         NEW u \in run, u \notin done, Downstream[u] # NoTile => Downstream[u] \in done,
         \A v \in run : Worked(n, m, run, done, v)
  PROVE  Worked(n, StepTile(m, phases, u), run, done \cup {u}, u)
<1> DEFINE new == StepTile(m, phases, u)
<1>1. u \in TileIds /\ (Downstream[u] # NoTile => Downstream[u] \in run)
  BY DEF FreeRun
<1>2. Clear(m, u, Lanes)
  <2>1. Downstream[u] # NoTile => \A lane \in Lanes : EntryFree(m.lanes[Downstream[u]][lane])
    BY <1>1 DEF Worked
  <2>. QED  BY <2>1 DEF Clear, FreeRun
<1>3. \A lane \in Lanes : MovedOn(m.lanes[u][lane], new.lanes[u][lane], new, u, lane)
  BY <1>1, <1>2, ClearStep
<1> HIDE DEF new
<1>4. ASSUME NEW lane \in Lanes
      PROVE  /\ SlotsOf(new.lanes[u][lane]) = SlotsOf(n.lanes[u][lane])
             /\ \A j \in Occupied(n.lanes[u][lane]) : OneFurther(n, new, u, lane, j)
             /\ EntryFree(new.lanes[u][lane])
  <2> DEFINE first == n.lanes[u][lane]
             old == m.lanes[u][lane]
             on == new.lanes[u][lane]
  <2>1. LaneOK(first) /\ LaneOK(old)
    BY <1>1 DEF Sound
  <2>2. SlotsOf(old) = SlotsOf(first) /\ \A j \in SlotsOf(first) : first.slots[j] # Empty => old.slots[j] = first.slots[j]
    BY DEF Worked, Fills
  <2>3. /\ SlotsOf(on) = SlotsOf(old) /\ on.slots[0] = Empty
        /\ \A j \in SlotsOf(old) :
             IF j = Exit(old) THEN old.slots[j] # Empty => Gone(old.slots[j], new, u, lane)
             ELSE j + 1 \in SlotsOf(old) /\ on.slots[j + 1] = old.slots[j]
    BY <1>3 DEF MovedOn
  <2> HIDE DEF first, old, on
  <2>4. Exit(old) = Exit(first)
    BY <2>1, <2>2, SameExit
  <2>5. 0 \in SlotsOf(on)
    <3>1. PICK k \in Nat \ {0} : SlotsOf(old) = 0 .. (k - 1)
      BY <2>1, ExitIsLast
    <3>. QED  BY <2>3, <3>1
  <2>6. EntryFree(on)
    BY <2>3, <2>5 DEF EntryFree, Free
  <2>7. ASSUME NEW j \in Occupied(first) PROVE OneFurther(n, new, u, lane, j)
    <3>1. j \in SlotsOf(first) /\ first.slots[j] # Empty
      BY <2>7 DEF Occupied
    <3>2. IF j = Exit(first) THEN Gone(first.slots[j], new, u, lane)
          ELSE j + 1 \in SlotsOf(on) /\ on.slots[j + 1] = first.slots[j]
      BY <2>2, <2>3, <2>4, <3>1
    <3>. QED  BY <3>2 DEF OneFurther, first, on
  <2>. QED  BY <2>2, <2>3, <2>6, <2>7 DEF first, on, old
<1>5. Worked(n, new, run, done \cup {u}, u)
  BY <1>4 DEF Worked
<1>. QED  BY <1>5 DEF new

\* Each tile of a run is worked once, and after the one ahead of it.
Sorted(run) ==
  \A i, j \in DOMAIN UpdateOrder : UpdateOrder[i] \in run /\ UpdateOrder[j] \in run =>
    /\ UpdateOrder[i] = UpdateOrder[j] => i = j
    /\ UpdateOrder[i] = Downstream[UpdateOrder[j]] => i < j

(* A run leads to an output, so the tiles that the order does not sort are *)
(* no part of it: they would all lead to one another and none to the first *)
(* of the run, one too few for them.                                       *)
LEMMA RunIsSorted ==
  ASSUME NEW t, NEW run \in SUBSET TileIds, FreeRun(t, run)
  PROVE  \E part \in SUBSET TileIds : FreeRun(t, part) /\ Sorted(part)
<1> DEFINE q == UpdateOrder
<1>1. /\ q \in Seq(TileIds) /\ DOMAIN Downstream = TileIds /\ NoTile \notin TileIds
      /\ Range(q) = TileIds /\ \A i, j \in DOMAIN q : q[i] = q[j] => i = j
  BY NetworkIsWired DEF WellOrdered, WellWired, TileIds
<1>2. PICK s \in 0 .. Len(q) : \A i \in DOMAIN q :
        IF i > s THEN \E j \in DOMAIN q : j > s /\ q[j] = Downstream[q[i]]
        ELSE Downstream[q[i]] # NoTile => \E j \in DOMAIN q : j < i /\ q[j] = Downstream[q[i]]
  BY NetworkIsWired DEF WellOrdered
<1>3. Len(q) \in Nat /\ s \in Nat /\ DOMAIN q = 1 .. Len(q)
  BY <1>1, <1>2
<1> HIDE DEF q
<1> DEFINE first == {q[i] : i \in {j \in DOMAIN q : ~(j > s)}}
           rest == {q[i] : i \in {j \in DOMAIN q : j > s}}
           part == run \cap first
<1>4. first \cup rest = TileIds /\ first \cap rest = {}
  BY <1>1 DEF Range
<1>5. ASSUME NEW u \in rest PROVE Downstream[u] \in rest
  BY <1>2
<1>6. ASSUME NEW u \in first, Downstream[u] # NoTile PROVE Downstream[u] \in first
  <2>1. PICK i \in DOMAIN q : ~(i > s) /\ q[i] = u
    OBVIOUS
  <2>2. PICK j \in DOMAIN q : j < i /\ q[j] = Downstream[u]
    BY <1>2, <1>6, <2>1
  <2>3. ~(j > s)
    BY <1>3, <2>1, <2>2
  <2>. QED  BY <2>2, <2>3
<1>7. \A f \in run : Ahead(f) = {Downstream[f]} \ {NoTile}
  BY DEF FreeRun, Ahead, HalfTiles
<1>8. \A u, f \in run : f \in Feeders(u) <=> Downstream[f] = u
  BY <1>1, <1>7 DEF Feeders
<1> HIDE DEF first, rest
<1>9. t \in first
  <2> SUFFICES ASSUME t \in rest PROVE FALSE
    BY <1>4 DEF FreeRun
  <2> DEFINE A == run \cap rest
             g == [u \in A |-> Downstream[u]]
  <2>1. t \in A /\ A \subseteq TileIds
    BY DEF FreeRun
  <2>2. \A u \in A : Downstream[u] \in A \ {t}
    <3>1. \A u \in A : Downstream[u] \in rest /\ Downstream[u] # NoTile
      BY <1>1, <1>4, <1>5
    <3>. QED  BY <3>1 DEF FreeRun
  <2>3. ASSUME NEW u \in A, NEW v \in A, Downstream[u] = Downstream[v] PROVE u = v
    <3>1. Downstream[u] \in run /\ Downstream[u] # t
      BY <2>2
    <3>2. u \in Feeders(Downstream[u]) /\ v \in Feeders(Downstream[u])
      BY <1>8, <2>3, <3>1
    <3>. QED  BY <3>1, <3>2 DEF FreeRun
  <2>4. IsFiniteSet(A)
    <3>1. q \in Surjection(DOMAIN q, TileIds)
      BY <1>1 DEF Surjection, Range
    <3>2. IsFiniteSet(DOMAIN q)
      BY <1>3, FS_Interval
    <3>3. IsFiniteSet(TileIds)
      BY <3>1, <3>2, FS_Surjection
    <3>. QED  BY <2>1, <3>3, FS_Subset
  <2>5. g \in Injection(A, A \ {t})
    BY <2>2, <2>3 DEF Injection, IsInjective
  <2> HIDE DEF A, g
  <2>6. IsFiniteSet(A \ {t}) /\ Cardinality(A \ {t}) = Cardinality(A) - 1
    BY <2>1, <2>4, FS_RemoveElement
  <2>7. Cardinality(A) <= Cardinality(A \ {t})
    BY <2>5, <2>6, FS_Injection
  <2>8. Cardinality(A) \in Nat
    BY <2>4, FS_CardinalityType
  <2>. QED  BY <2>6, <2>7, <2>8
<1>10. FreeRun(t, part)
  <2>1. t \in part
    BY <1>9 DEF FreeRun
  <2>2. ASSUME NEW u \in part
        PROVE  /\ Tiles[u].kind # "splitter" /\ Tiles[u].tier = Tiles[t].tier /\ Onto[u] = Straight
               /\ \A f \in Feeders(u) : Onto[f] = Straight
               /\ IF Downstream[u] = NoTile THEN IsSink(u) ELSE Downstream[u] \in part \ {t}
    BY <1>6 DEF FreeRun
  <2>3. ASSUME NEW u \in part, u # t PROVE \E f \in part : Feeders(u) = {f}
    <3>1. PICK f \in run : Feeders(u) = {f}
      BY <2>3 DEF FreeRun
    <3>2. f \in TileIds /\ Downstream[f] = u
      BY <1>8, <3>1
    <3>3. f \in first
      BY <1>4, <1>5, <3>2
    <3>. QED  BY <3>1, <3>3
  <2> HIDE DEF part
  <2>. QED  BY <2>1, <2>2, <2>3 DEF FreeRun
<1>11. Sorted(part)
  <2> SUFFICES ASSUME NEW i \in DOMAIN q, NEW j \in DOMAIN q, q[i] \in part, q[j] \in part, q[i] = Downstream[q[j]]
               PROVE  i < j
    BY <1>1 DEF Sorted, q
  <2>1. ~(j > s) /\ Downstream[q[j]] # NoTile
    BY <1>1, <1>4 DEF first, rest
  <2>2. PICK k \in DOMAIN q : k < j /\ q[k] = Downstream[q[j]]
    BY <1>2, <2>1
  <2>. QED  BY <1>1, <2>2
<1>. QED  BY <1>10, <1>11

(* A step of the network in a sorted order moves all of a run one place on. *)
LEMMA RunMovesOn ==
  ASSUME NEW n, Sound(n), LogOK(n), NEW phases, NEW stepping,
         NEW t, NEW run \in SUBSET TileIds, FreeRun(t, run), Sorted(run), Tiles[t].tier \in stepping
  PROVE  LET m == StepInOrder(n, phases, stepping, UpdateOrder)
         IN  \A u \in run, lane \in Lanes : \A j \in Occupied(n.lanes[u][lane]) : OneFurther(n, m, u, lane, j)
<1> DEFINE q == UpdateOrder
           done(i) == {q[j] : j \in 1 .. i}
<1>1. q \in Seq(TileIds) /\ Len(q) \in Nat /\ DOMAIN q = 1 .. Len(q) /\ \A i \in 1 .. Len(q) : q[i] \in TileIds
  BY NetworkIsWired
<1>2. PICK after : IsWalk(n, phases, stepping, q, after)
  BY <1>1, StepsAreDefined
<1>3. \A i \in 0 .. Len(q) : after[i] = SoFar(n, phases, stepping, q, after, i)
  BY <1>2, Zenon DEF IsWalk
<1>4. \A u \in run : \E i \in 1 .. Len(q) : q[i] = u
  <2>1. Range(q) = TileIds
    BY NetworkIsWired DEF WellOrdered, WellWired, TileIds
  <2>. QED  BY <1>1, <2>1 DEF Range
<1>5. \A i, j \in 1 .. Len(q) : q[i] \in run /\ q[j] \in run =>
        /\ q[i] = q[j] => i = j
        /\ q[i] = Downstream[q[j]] => i < j
  BY <1>1 DEF Sorted
<1>6. \A u \in run : (Downstream[u] # NoTile => Downstream[u] \in run) /\ Tiles[u].tier \in stepping
  BY DEF FreeRun
<1> DEFINE Fine(i) == Kept(after[i], n) /\ \A u \in run : Worked(n, after[i], run, done(i), u)
           Spoilt == {i \in 0 .. Len(q) : ~Fine(i)}
<1>7. Fine(0)
  <2>1. after[0] = n
    BY <1>1, <1>3 DEF SoFar
  <2>2. done(0) = {}
    BY SMT
  <2>. QED  BY <2>1, <2>2 DEF Kept, Worked, Fills
<1>8. ASSUME NEW i \in 1 .. Len(q), Fine(i - 1) PROVE Fine(i)
  <2> DEFINE v == q[i]
             m == after[i - 1]
             was == done(i - 1)
  <2>1. i - 1 \in 0 .. Len(q) /\ i \in 0 .. Len(q) /\ i # 0 /\ v \in TileIds
    BY <1>1, <1>8
  <2>2. done(i) = was \cup {v}
    <3>1. \A j : j \in 1 .. i <=> j \in 1 .. (i - 1) \/ j = i
      BY <1>1, <1>8
    <3>. QED  BY <3>1
  <2>3. Sound(m) /\ LogOK(m) /\ Content(m) = Content(n) /\ \A u \in run : Worked(n, m, run, was, u)
    BY <1>8 DEF Kept
  <2>4. ASSUME NEW x \in 1 .. i, q[x] \in run, Downstream[q[x]] # NoTile PROVE Downstream[q[x]] \in was
    <3>1. x \in 1 .. Len(q) /\ Downstream[q[x]] \in run
      BY <1>1, <1>6, <1>8, <2>4
    <3>2. PICK y \in 1 .. Len(q) : q[y] = Downstream[q[x]]
      BY <1>4, <3>1
    <3>3. y < x
      BY <1>5, <2>4, <3>1, <3>2
    <3>4. y \in 1 .. (i - 1)
      BY <1>1, <1>8, <3>1, <3>3
    <3>. QED  BY <3>2, <3>4
  <2>5. v \in run => v \notin was
    <3> SUFFICES ASSUME v \in run, NEW x \in 1 .. (i - 1), q[x] = v PROVE FALSE
      OBVIOUS
    <3>1. x \in 1 .. Len(q) /\ x # i
      BY <1>1, <1>8
    <3>. QED  BY <1>5, <1>8, <3>1
  <2>6. \A f \in run \cap was : Downstream[f] # NoTile => Downstream[f] \in was
    <3> SUFFICES ASSUME NEW x \in 1 .. (i - 1), q[x] \in run, Downstream[q[x]] # NoTile
                 PROVE  Downstream[q[x]] \in was
      OBVIOUS
    <3>1. x \in 1 .. i
      BY <1>1, <1>8
    <3>. QED  BY <2>4, <3>1
  <2>7. v \in run /\ Downstream[v] # NoTile => Downstream[v] \in was
    <3>1. i \in 1 .. i
      BY <1>1, <1>8
    <3>. QED  BY <2>4, <3>1
  <2>8. after[i] = IF Tiles[v].tier \in stepping THEN StepTile(m, phases, v) ELSE m
    BY <1>3, <2>1 DEF SoFar
  <2> HIDE DEF v, m, was, done
  <2>9. CASE Tiles[v].tier \in stepping
    <3> DEFINE new == StepTile(m, phases, v)
    <3>1. Kept(new, m) /\ Spared(m, new, v)
      BY <2>1, <2>3, TileKeeps, StepSpares
    <3>2. v \in run => Worked(n, new, run, was \cup {v}, v)
      BY <2>3, <2>5, <2>7, RunTileSteps
    <3> HIDE DEF new
    <3>3. \A u \in run \ {v} : Worked(n, new, run, was \cup {v}, u)
      BY <2>1, <2>3, <2>5, <2>6, <3>1, OthersStep
    <3>4. after[i] = new
      BY <2>8, <2>9 DEF new
    <3>5. Kept(new, n)
      BY <2>3, <3>1 DEF Kept
    <3>. QED  BY <2>2, <3>2, <3>3, <3>4, <3>5
  <2>10. CASE Tiles[v].tier \notin stepping
    <3>1. v \notin run /\ after[i] = m
      BY <1>6, <2>8, <2>10
    <3>2. ASSUME NEW u \in run PROVE Worked(n, m, run, was \cup {v}, u)
      <4>1. (u \in was \cup {v} <=> u \in was) /\ run \ (was \cup {v}) = run \ was
        BY <3>1
      <4>2. Worked(n, m, run, was, u)
        BY <2>3
      <4>. QED  BY <4>1, <4>2 DEF Worked
    <3>. QED  BY <2>2, <2>3, <3>1, <3>2 DEF Kept
  <2>. QED  BY <2>9, <2>10
<1>9. Fine(Len(q))
  <2>1. Spoilt = {}
    <3> SUFFICES ASSUME Spoilt # {} PROVE FALSE
      OBVIOUS
    <3>1. Spoilt \subseteq Nat
      BY <1>1
    <3>2. PICK i \in Spoilt : \A j \in Spoilt : i <= j
      <4> HIDE DEF Spoilt
      <4>. QED  BY <3>1, Least
    <3> HIDE DEF Fine
    <3>3. i # 0
      BY <1>7, <3>2
    <3>4. i \in 1 .. Len(q) /\ i - 1 \in 0 .. Len(q) /\ i - 1 \notin Spoilt
      BY <1>1, <3>1, <3>2, <3>3
    <3>. QED  BY <1>8, <3>2, <3>4
  <2> HIDE DEF Fine
  <2>2. Len(q) \in 0 .. Len(q)
    BY <1>1
  <2>. QED  BY <2>1, <2>2
<1>10. run \subseteq done(Len(q))
  BY <1>4
<1>11. StepInOrder(n, phases, stepping, UpdateOrder) = after[Len(q)]
  BY <1>2 DEF IsWalk
<1>. QED  BY <1>9, <1>10, <1>11 DEF Worked

(* In a sound network an item has one place.                               *)
LEMMA PlaceOf ==
  ASSUME NEW n, Sound(n), NEW t \in TileIds, NEW lane \in Lanes, NEW j \in Occupied(n.lanes[t][lane])
  PROVE  LET item == n.lanes[t][lane].slots[j]
         IN  item \in ItemsIn(n) /\ item \in DOMAIN Places(n) /\ Places(n)[item] = <<t, lane, j>>
<1> DEFINE held == {node \in Nodes : Holds(n, node)}
           item == n.lanes[t][lane].slots[j]
           here == <<t, lane, j>>
<1>1. Shape(n) /\ LaneOK(n.lanes[t][lane])
  BY DEF Sound
<1>2. j \in SlotsOf(n.lanes[t][lane]) /\ item # Empty
  BY DEF Occupied
<1>3. item \in On(n, t, lane)
  BY DEF On, ItemsOn
<1>4. item \in ItemsIn(n)
  BY <1>1, <1>3, InIsOn
<1>5. here \in held /\ ItemAt(n, here) = item
  <2>1. j \in 0 .. (SlotsPerTile - 1)
    <3>1. PICK k \in 1 .. SlotsPerTile : SlotsOf(n.lanes[t][lane]) = 0 .. (k - 1)
      BY <1>1 DEF LaneOK
    <3>. QED  BY <1>2, <3>1, NetworkAssumption
  <2>. QED  BY <1>2, <2>1 DEF Nodes, Holds, ItemAt
<1>6. ASSUME NEW node \in held, ItemAt(n, node) = item PROVE node = here
  <2>1. PICK u \in TileIds, k \in Lanes, i \in 0 .. (SlotsPerTile - 1) : node = <<u, k, i>>
    BY DEF Nodes
  <2>2. i \in Occupied(n.lanes[u][k]) /\ n.lanes[u][k].slots[i] = item
    BY <1>6, <2>1 DEF Holds, ItemAt, Occupied
  <2>3. item \in On(n, u, k)
    BY <2>2 DEF On, ItemsOn
  <2> HIDE DEF item
  <2>4. u = t /\ k = lane
    BY <1>3, <2>3 DEF Sound, LanesApart
  <2>5. i = j
    BY <1>1, <1>2, <2>2, <2>4 DEF LaneOK, Occupied, item
  <2>. QED  BY <2>1, <2>4, <2>5
<1> HIDE DEF held, item, here
<1>7. (CHOOSE node \in held : ItemAt(n, node) = item) = here
  BY <1>5, <1>6
<1>8. Places(n) = [x \in ItemsIn(n) |-> CHOOSE node \in held : ItemAt(n, node) = x]
  BY DEF Places, held
<1>. QED  BY <1>4, <1>7, <1>8 DEF item, here

(* Items on a run of tiles that leads to an output without merges all      *)
(* advance together, at every whole-slot step, whatever else moves in the  *)
(* network, whatever the layout and however full the run: what the update  *)
(* order is for (BeltNetwork::tick, compute_order).                        *)
THEOREM FreeRunsAdvance == TrafficSpec => FreeRunAdvances
<1> DEFINE Advances ==
      progress' # progress =>
        \A was \in {Places(net)}, is \in {Places(net')} :
          \A t \in FreeRuns : \A item \in ItemsOnTile(net, t) :
            Tiles[t].tier \in Stepping(progress) =>
              IF item \in DOMAIN is THEN is[item] = OneOn(net, was[item])
              ELSE OneOn(net, was[item])[1] = NoTile
<1>1. ASSUME TrafficInv, TrafficInv', Tick,
             NEW t \in FreeRuns, NEW item \in ItemsOnTile(net, t), Tiles[t].tier \in Stepping(progress)
      PROVE  IF item \in DOMAIN Places(net') THEN Places(net')[item] = OneOn(net, Places(net)[item])
             ELSE OneOn(net, Places(net)[item])[1] = NoTile
  <2>1. PICK run \in SUBSET TileIds : FreeRun(t, run) /\ Sorted(run)
    BY <1>1, RunIsSorted DEF FreeRuns
  <2>2. t \in run /\ t \in TileIds /\ (Downstream[t] # NoTile => Downstream[t] \in TileIds)
    BY <2>1 DEF FreeRun
  <2>3. PICK lane \in Lanes : \E i \in Occupied(net.lanes[t][lane]) : item = net.lanes[t][lane].slots[i]
    BY <1>1 DEF ItemsOnTile, ItemsOn
  <2>4. PICK j \in Occupied(net.lanes[t][lane]) : item = net.lanes[t][lane].slots[j]
    BY <2>3
  <2>5. PICK phases, moved :
          /\ moved = StepInOrder(net, phases, Stepping(progress), UpdateOrder)
          /\ net' = [moved EXCEPT !.exitedLog = <<>>]
    BY <1>1 DEF Tick, StepAll
  <2>6. Sound(net) /\ LogOK(net) /\ Sound(net')
    BY <1>1 DEF TrafficInv, LogOK, Range
  <2>7. Kept(moved, net)
    BY <2>5, <2>6, NetworkIsWired, StepKeeps
  <2>8. OneFurther(net, moved, t, lane, j)
    BY <1>1, <2>1, <2>2, <2>5, <2>6, RunMovesOn
  <2>9. net'.lanes = moved.lanes /\ LogOK(moved) /\ Sound(moved)
    BY <2>5, <2>7 DEF Kept, Sound, Shape, Fields
  <2>10. Places(net)[item] = <<t, lane, j>>
    BY <2>2, <2>4, <2>6, PlaceOf
  <2>11. item # Empty /\ j \in SlotsOf(net.lanes[t][lane])
    BY <2>4 DEF Occupied
  <2>12. ASSUME NEW u \in TileIds, NEW i \in SlotsOf(net'.lanes[u][lane]), net'.lanes[u][lane].slots[i] = item
         PROVE  item \in DOMAIN Places(net') /\ Places(net')[item] = <<u, lane, i>>
    <3>1. i \in Occupied(net'.lanes[u][lane])
      BY <2>11, <2>12 DEF Occupied
    <3>. QED  BY <2>6, <2>12, <3>1, PlaceOf
  <2>13. CASE j # Exit(net.lanes[t][lane])
    <3>1. j + 1 \in SlotsOf(net'.lanes[t][lane]) /\ net'.lanes[t][lane].slots[j + 1] = item
      BY <2>4, <2>8, <2>9, <2>13 DEF OneFurther
    <3>2. OneOn(net, Places(net)[item]) = <<t, lane, j + 1>>
      BY <2>10, <2>13 DEF OneOn
    <3>. QED  BY <2>2, <2>12, <3>1, <3>2
  <2>14. CASE j = Exit(net.lanes[t][lane])
    <3>1. Gone(item, moved, t, lane)
      BY <2>4, <2>8, <2>14 DEF OneFurther
    <3>2. OneOn(net, Places(net)[item]) = <<Downstream[t], lane, 0>>
      BY <2>10, <2>14 DEF OneOn
    <3>3. CASE Downstream[t] # NoTile
      <4>1. net'.lanes[Downstream[t]][lane].slots[0] = item
        BY <2>9, <3>1, <3>3 DEF Gone
      <4>2. 0 \in SlotsOf(net'.lanes[Downstream[t]][lane])
        <5>1. PICK k \in Nat \ {0} : SlotsOf(net'.lanes[Downstream[t]][lane]) = 0 .. (k - 1)
          BY <2>2, <2>6, <3>3, ExitIsLast DEF Sound
        <5>. QED  BY <5>1
      <4>. QED  BY <2>2, <2>12, <3>2, <3>3, <4>1, <4>2
    <3>4. CASE Downstream[t] = NoTile
      <4>1. item \notin ItemsIn(moved)
        BY <2>9, <3>1, <3>4 DEF Gone, LogOK
      <4>2. ItemsIn(net') = ItemsIn(moved)
        BY <2>9 DEF ItemsIn, ItemsOnTile
      <4>3. DOMAIN Places(net') = ItemsIn(net')
        BY DEF Places
      <4>. QED  BY <3>2, <3>4, <4>1, <4>2, <4>3
    <3>. QED  BY <3>3, <3>4
  <2>. QED  BY <2>13, <2>14
<1>2. ASSUME TrafficInv, TrafficInv', [TrafficNext]_trafficVars PROVE [Advances]_trafficVars
  <2>1. ASSUME progress' # progress PROVE Tick
    BY <1>2, <2>1 DEF TrafficNext, trafficVars, Feed, Arrive, Drop, Pick
  <2>2. CASE progress' = progress
    BY <2>2
  <2>3. CASE progress' # progress
    BY <1>1, <1>2, <2>1, <2>3
  <2>. QED  BY <2>2, <2>3
<1>. QED  BY <1>2, TrafficInvariant, PTL DEF TrafficSpec, FreeRunAdvances, Advances
=============================================================================

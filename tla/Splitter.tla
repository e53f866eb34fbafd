------------------------------ MODULE Splitter ------------------------------
(***************************************************************************)
(* One lane of one splitter of the belt network                            *)
(* (BeltNetwork::step_splitter_exit, crates/meter/src/network.rs), with    *)
(* everything around it left free: which half has an item at its exit, and *)
(* which branches would accept one, change from step to step.  The two     *)
(* lanes of a splitter share nothing (toggle and memory are per lane).     *)
(*                                                                         *)
(* linked is the set of branches with a belt ahead; sinks the set of       *)
(* halves that are declared boundary outputs.  Both are fixed when the     *)
(* network is built.  A half whose partner could not be created is half 0  *)
(* of a splitter where only half 0 ever holds items.                       *)
(***************************************************************************)
EXTENDS SplitterRouting

VARIABLES
  linked,      \* branches with a downstream tile
  sinks,       \* halves with is_sink set
  paired,      \* both halves exist
  toggle,      \* splitter_toggle: the branch whose turn it is
  remembered,  \* splitter_memory, the output of each half's episode
  debt,        \* splitter_memory, the items still owed to it; 0 is None
  open,        \* branches that would accept an item in this step
  placed       \* the branch the last step put its item on, or Nowhere

Nowhere == 2

vars == <<linked, sinks, paired, toggle, remembered, debt, open, placed>>

Init ==
  /\ paired \in BOOLEAN
  /\ linked \in SUBSET (IF paired THEN Branches ELSE {0})
  /\ sinks \in SUBSET (IF paired THEN Halves ELSE {0})
  /\ toggle = 0
  /\ remembered = [h \in Halves |-> 0]
  /\ debt = [h \in Halves |-> 0]
  /\ open = linked
  /\ placed = Nowhere

\* What half h meets at a branch: a belt with room, or, for a sink half,
\* the missing belt that drains it.
Accepts(h, branch) ==
  IF branch \in linked THEN branch \in open ELSE h \in sinks

First(h) == FirstOutput(h, debt[h], remembered[h], toggle)

\* Mutant: one memory for the lane, so an episode replaces the other half's.
PlaceOneEpisode(h, which) ==
  LET first == First(h)
      owed == DebtAfter(debt[h], remembered[h], first, which,
                        BranchOf(h, first) \in linked)
  IN  /\ debt' = [g \in Halves |-> IF g = h THEN owed ELSE IF owed > 0 THEN 0 ELSE debt[g]]
      /\ remembered' = [remembered EXCEPT
                          ![h] = IF debt[h] = 0 /\ owed > 0 THEN first ELSE @]
      /\ toggle' = ToggleAfter(h, owed, which, toggle)
      /\ placed' = BranchOf(h, which)

\* The item leaves through output which of half h.
Place(h, which) ==
  LET first == First(h)
      owed == DebtAfter(debt[h], remembered[h], first, which,
                        BranchOf(h, first) \in linked)
  IN  /\ debt' = [debt EXCEPT ![h] = owed]
      /\ remembered' = [remembered EXCEPT
                          ![h] = IF debt[h] = 0 /\ owed > 0 THEN first ELSE @]
      /\ toggle' = ToggleAfter(h, owed, which, toggle)
      /\ placed' = BranchOf(h, which)

(* Half h finds an item at its exit: the first output that accepts takes   *)
(* it, and when neither does it stays where it is.                         *)
RouteFirst(h) ==
  /\ Accepts(h, BranchOf(h, First(h)))
  /\ Place(h, First(h))

RouteFallback(h) ==
  /\ ~Accepts(h, BranchOf(h, First(h)))
  /\ Accepts(h, BranchOf(h, 1 - First(h)))
  /\ Place(h, 1 - First(h))

Blocked(h) ==
  /\ \A b \in Branches : ~Accepts(h, b)
  /\ placed' = Nowhere
  /\ UNCHANGED <<toggle, remembered, debt>>

Attempt(h) ==
  /\ h = 0 \/ paired
  /\ RouteFirst(h) \/ RouteFallback(h) \/ Blocked(h)
  /\ UNCHANGED <<linked, sinks, paired>>

(* Between two attempts the branches fill up and drain.                    *)
Next ==
  /\ \E h \in Halves : Attempt(h)
  /\ open' \in SUBSET linked

Spec == Init /\ [][Next]_vars
-----------------------------------------------------------------------------
TypeOK ==
  /\ paired \in BOOLEAN
  /\ linked \in SUBSET Branches
  /\ sinks \in SUBSET Halves
  /\ toggle \in Branches
  /\ remembered \in [Halves -> Outputs]
  /\ debt \in [Halves -> 0..MemoryCap]
  /\ open \in SUBSET linked
  /\ placed \in Branches \cup {Nowhere}

(* An episode of memory is only ever about an output that exists: missing  *)
(* output geometry is not backpressure, so an orphan half never owes       *)
(* anything and never waits on a belt that is not there.                   *)
MemoryOfRealOutput ==
  \A h \in Halves : debt[h] > 0 => BranchOf(h, remembered[h]) \in linked
=============================================================================

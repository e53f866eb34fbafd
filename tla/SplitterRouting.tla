-------------------------- MODULE SplitterRouting --------------------------
(***************************************************************************)
(* The choice a meter splitter makes for one item, as operators shared by  *)
(* the splitter on its own (Splitter) and by the belt network              *)
(* (BeltNetwork).                                                          *)
(*                                                                         *)
(* A splitter is two halves.  Branch b of the splitter is the belt ahead   *)
(* of half b.  A half calls its own branch output 0 and its partner's      *)
(* output 1, so half 1's outputs are the branches in the other order.  The *)
(* round-robin toggle names a branch; the memory of a blocked output names *)
(* an output of its half.  An absent memory has debt 0.                    *)
(***************************************************************************)
EXTENDS Integers

CONSTANT MemoryCap      \* SPLITTER_BLOCK_MEMORY_ITEMS

ASSUME MemoryCapAssumption == MemoryCap \in Nat \ {0}

Halves == {0, 1}
Branches == {0, 1}
Outputs == {0, 1}

\* Output number <-> branch for half h; its own inverse.
BranchOf(h, output) == IF h = 0 THEN output ELSE 1 - output
OutputOf(h, branch) == IF h = 0 THEN branch ELSE 1 - branch

\* The output probed first: the remembered one, or the toggle's branch.
FirstOutput(h, debt, output, toggle) ==
  IF debt > 0 THEN output ELSE OutputOf(h, toggle)

\* Mutants of DebtAfter: the cap is forgotten; an episode starts even when
\* the refused output does not exist.
DebtAfterUncapped(debt, output, first, which, firstLinked) ==
  IF debt > 0
  THEN IF which = output THEN debt - 1 ELSE debt + 1
  ELSE IF which # first /\ firstLinked THEN 1 ELSE 0

DebtAfterUnlinked(debt, output, first, which, firstLinked) ==
  IF debt > 0
  THEN IF which = output THEN debt - 1
       ELSE IF debt < MemoryCap THEN debt + 1 ELSE MemoryCap
  ELSE IF which # first THEN 1 ELSE 0

\* The debt once the item has gone to output which: a return pays one, a
\* further diversion adds one up to the cap, a first diversion from an
\* existing output opens an episode of one.
DebtAfter(debt, output, first, which, firstLinked) ==
  IF debt > 0
  THEN IF which = output THEN debt - 1
       ELSE IF debt < MemoryCap THEN debt + 1 ELSE MemoryCap
  ELSE IF which # first /\ firstLinked THEN 1 ELSE 0

\* Mutant: the next turn is named by output number instead of branch.
ToggleAfterLocal(h, debtAfter, which, toggle) ==
  IF debtAfter = 0 THEN (IF which = 0 THEN 1 ELSE 0) ELSE toggle

\* The next turn is the branch this item did not take, unless the half is
\* in an episode.
ToggleAfter(h, debtAfter, which, toggle) ==
  IF debtAfter = 0 THEN 1 - BranchOf(h, which) ELSE toggle
=============================================================================

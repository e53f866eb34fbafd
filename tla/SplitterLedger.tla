--------------------------- MODULE SplitterLedger ---------------------------
(***************************************************************************)
(* The splitter with the books of its episodes kept beside it: where every *)
(* item went, what each half really diverted and returned, and what the    *)
(* cap of the memory wrote off.  The counters started and expired are the  *)
(* memory_started and memory_expired of SplitterStats; the others are      *)
(* history.  A window of MaxItems routed items is observed.                *)
(***************************************************************************)
EXTENDS Splitter

CONSTANT MaxItems

ASSUME MaxItemsAssumption == MaxItems \in Nat

VARIABLES
  sent,        \* items per branch
  owed,        \* per half: diverted minus returned in the running episode
  over,        \* per half: diversions of the running episode beyond the cap
  writtenOff,  \* diversions beyond the cap in episodes that are over
  started,     \* episodes opened
  expired      \* episodes paid off

books == <<sent, owed, over, writtenOff, started, expired>>

LedgerInit ==
  /\ Init
  /\ sent = [b \in Branches |-> 0]
  /\ owed = [h \in Halves |-> 0]
  /\ over = [h \in Halves |-> 0]
  /\ writtenOff = 0
  /\ started = 0
  /\ expired = 0

\* Half h sent its item through output which, having probed first first.
Returned(h, which) == debt[h] > 0 /\ which = remembered[h]
Diverted(h, which) == debt[h] > 0 /\ which # remembered[h]
Opened(h, which) == debt[h] = 0 /\ which # First(h) /\ BranchOf(h, First(h)) \in linked

\* A return that pays off the last item closes the books of the episode.
Post(h, which) ==
  LET closes == Returned(h, which) /\ debt[h] = 1
      capped == Diverted(h, which) /\ debt[h] = MemoryCap
  IN  /\ sent' = [sent EXCEPT ![BranchOf(h, which)] = @ + 1]
      /\ owed' = [owed EXCEPT ![h] =
                    IF closes THEN 0
                    ELSE IF Returned(h, which) THEN @ - 1
                    ELSE IF Diverted(h, which) \/ Opened(h, which) THEN @ + 1
                    ELSE @]
      /\ over' = [over EXCEPT ![h] =
                    IF closes THEN 0 ELSE IF capped THEN @ + 1 ELSE @]
      /\ writtenOff' = writtenOff + (IF closes THEN over[h] ELSE 0)
      /\ started' = started + (IF Opened(h, which) THEN 1 ELSE 0)
      /\ expired' = expired + (IF closes THEN 1 ELSE 0)

LedgerRoute(h) ==
  /\ sent[0] + sent[1] < MaxItems
  /\ h = 0 \/ paired
  /\ \/ RouteFirst(h) /\ Post(h, First(h))
     \/ RouteFallback(h) /\ Post(h, 1 - First(h))
  /\ open' \in SUBSET linked
  /\ UNCHANGED <<linked, sinks, paired>>

LedgerBlocked(h) ==
  /\ h = 0 \/ paired
  /\ Blocked(h)
  /\ open' \in SUBSET linked
  /\ UNCHANGED <<linked, sinks, paired, books>>

LedgerNext == \E h \in Halves : LedgerRoute(h) \/ LedgerBlocked(h)

LedgerSpec == LedgerInit /\ [][LedgerNext]_<<vars, books>>
-----------------------------------------------------------------------------
LedgerTypeOK ==
  /\ TypeOK
  /\ sent \in [Branches -> Nat]
  /\ owed \in [Halves -> Nat]
  /\ over \in [Halves -> Nat]
  /\ writtenOff \in Nat
  /\ started \in Nat
  /\ expired \in Nat

(* The memory is the true imbalance of the episode less what the cap       *)
(* forgot, so a half never returns more than it diverted.                  *)
DebtIsOwed == \A h \in Halves : owed[h] = debt[h] + over[h]

Running(d) == IF d > 0 THEN 1 ELSE 0

(* An episode that has been opened is running or has been paid off; the    *)
(* two halves never open or close each other's.                            *)
EpisodesMatch ==
  started = expired + Running(debt[0]) + Running(debt[1])

(* The signed number of items half h still owes to branch 0.               *)
OwedToZero(h) == IF BranchOf(h, remembered[h]) = 0 THEN owed[h] ELSE 0 - owed[h]

\* How far the branches would be apart with every running episode settled,
\* less the one item the toggle accounts for.
Drift == (sent[0] - sent[1]) + OwedToZero(0) + OwedToZero(1) - toggle

(* Any lasting imbalance between the two branches is explained: by what is *)
(* owed now, by diversions the cap forgot, and by at most one item per     *)
(* episode that was paid off (the toggle restarts opposite the last        *)
(* return).  In particular a splitter that never blocked is balanced to    *)
(* one item although two halves share one toggle.                          *)
ImbalanceExplained ==
  linked = Branches =>
    /\ Drift <= expired + writtenOff
    /\ 0 <= Drift + (expired + writtenOff)
=============================================================================

\* A cap of two reaches diversions beyond the cap, their write-off and
\* several episodes of both halves within the window.
CONSTANTS
  MemoryCap = 2
  MaxItems = 9
SPECIFICATION LedgerSpec
INVARIANTS MemoryOfRealOutput DebtIsOwed ImbalanceExplained
\* The observed window ends after MaxItems items.
CHECK_DEADLOCK FALSE

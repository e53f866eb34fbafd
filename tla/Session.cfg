\* Three requests of the page, up to three of them solves, against a boot of three calls
\* whose second one is caught; a pass visits at most two regions.
CONSTANTS
  Callers <- PageCallers
  Boot <- Calls
  Caught = {"seed"}
  MaxRequests = 3
  MaxSolves = 3
  MaxVisits = 2
SPECIFICATION FairSession
INVARIANTS ActivityIsPending AnswerComing StreamIsKnown BlueprintIsNewest
PROPERTIES NewestEnds PassEnds
\* The page makes no more than MaxRequests requests.
CHECK_DEADLOCK FALSE

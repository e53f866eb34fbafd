\* Two solves, and passes that visit at most two regions.
CONSTANTS
  Callers <- PageCallers
  Boot <- Calls
  Caught = {"seed"}
  MaxRequests = 3
  MaxSolves = 2
  MaxVisits = 2
SPECIFICATION SessionSpec
INVARIANTS QueueAbandoned
\* The page makes no more than MaxRequests requests.
CHECK_DEADLOCK FALSE

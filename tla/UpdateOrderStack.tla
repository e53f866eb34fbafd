-------------------------- MODULE UpdateOrderStack --------------------------
(***************************************************************************)
(* compute_order as the code runs it: tiles are numbered from 1, the       *)
(* worklist is a stack that starts with the tiles without a downstream in  *)
(* ascending order, and a popped tile's feeders are pushed in ascending    *)
(* order.  The whole order is kept: the sorted tiles and, behind them,     *)
(* what the worklist never reached. Topology says when the steps are taken.*)
(***************************************************************************)
EXTENDS Integers, FiniteSets, Sequences, SequencesExt

CONSTANT NoTile

VARIABLES
  downstream, outDegree,
  queue,       \* the stack; its top is the last element
  order,
  loose        \* how many tiles at the end of order are left over, or Open

Open == -1

Tiles == DOMAIN downstream
Ascending(S) ==
  [i \in 1..Cardinality(S) |-> CHOOSE t \in S : Cardinality({u \in S : u < t}) = i - 1]
Seen == ToSet(order)
\* Mutant: the sort starts at the tiles without a feeder.
StartUpstream(links) == Ascending({t \in DOMAIN links : \A u \in DOMAIN links : links[u] # t})

\* Out-degrees and stack before the first step.
StartDegrees(links) == [t \in DOMAIN links |-> IF links[t] = NoTile THEN 0 ELSE 1]
StartQueue(links) == Ascending({t \in DOMAIN links : links[t] = NoTile})

\* Mutant: a merge is entered through its first feeder only.
PopFirstFeeder ==
  /\ queue # <<>>
  /\ LET feeders == {u \in Tiles : downstream[u] = Last(queue) /\ outDegree[u] = 1}
         first == SelectSeq(Ascending(feeders), LAMBDA u : \A w \in feeders : u <= w)
     IN  /\ order' = Append(order, Last(queue))
         /\ queue' = Front(queue) \o first
         /\ outDegree' = [u \in Tiles |-> IF u \in feeders THEN 0 ELSE outDegree[u]]
  /\ UNCHANGED <<downstream, loose>>

Pop ==
  /\ queue # <<>>
  /\ LET id == Last(queue)
         discharged == {u \in Tiles : downstream[u] = id /\ outDegree[u] > 0}
     IN  IF id \in Seen
         THEN /\ queue' = Front(queue)
              /\ UNCHANGED <<outDegree, order>>
         ELSE /\ order' = Append(order, id)
              /\ outDegree' = [u \in Tiles |-> outDegree[u] - (IF u \in discharged THEN 1 ELSE 0)]
              /\ queue' = Front(queue) \o Ascending({u \in discharged : outDegree[u] = 1})
  /\ UNCHANGED <<downstream, loose>>

\* Mutant: what the worklist never reached is not stepped at all.
DrainedWithoutRest ==
  /\ queue = <<>>
  /\ loose = Open
  /\ loose' = 0
  /\ UNCHANGED <<downstream, outDegree, queue, order>>

Drained ==
  /\ queue = <<>>
  /\ loose = Open
  /\ LET leftover == Ascending(Tiles \ Seen)
     IN  /\ order' = order \o leftover
         /\ loose' = Len(leftover)
  /\ UNCHANGED <<downstream, outDegree, queue>>

-----------------------------------------------------------------------------
\* The sorted part of the order, and what is behind it.
Sorted == SubSeq(order, 1, Len(order) - (IF loose = Open THEN 0 ELSE loose))
Leftover == Seen \ ToSet(Sorted)
=============================================================================

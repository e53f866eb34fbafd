----------------------------- MODULE Junctions ------------------------------
(***************************************************************************)
(* Steps 5 and 6 of the ghost router (route_bus_ghost,                     *)
(* crates/core/src/bus/ghost_router.rs): the crossings of the routed paths *)
(* are grouped into clusters, and each cluster in turn is given to the     *)
(* junction solver (solve_crossing, bus/junction_solver.rs), which tries   *)
(* ever larger regions. A solution replaces what stood in its footprint.   *)
(* What the solver looks at, placed, is brought in line with the claims    *)
(* only when all clusters are done. The belt tier is pinned: the rungs     *)
(* that evict flows or upgrade belts are not in use.                       *)
(***************************************************************************)
EXTENDS JunctionZone, GhostOccupancy

CONSTANTS
  Plans,        \* the routed layouts to start from
  HullBudget    \* HULL_BUDGET

VARIABLES
  plan,        \* what was routed (JunctionRegion)
  placed,      \* entities
  claims,      \* occupancy
  clusters,    \* those not yet visited, in order
  growth,      \* the solve that is under way, or Idle
  handled,     \* corridor_handled
  remaining,   \* remaining_crossings
  capped,      \* cap_coords: how many clusters have been given up
  panicked,    \* a place failed
  synced       \* Step 6 is done

vars == <<plan, placed, claims, clusters, growth, handled, remaining, capped, panicked, synced>>

Idle == <<>>

-----------------------------------------------------------------------------
(* Clusters.                                                               *)

SpecsAt(p, t) == {s \in DOMAIN p.path : t \in ToSet(p.path[s])}
Crossings(p) ==
  {t \in UNION {ToSet(p.path[s]) : s \in DOMAIN p.path} : Cardinality(SpecsAt(p, t)) > 1}
OnPipe(p, t) == SpecsAt(p, t) \intersect p.pipes # {}

BlockOf(P, t) == CHOOSE B \in P : t \in B
Merge(P, a, b) ==
  (P \ {BlockOf(P, a), BlockOf(P, b)}) \union {BlockOf(P, a) \union BlockOf(P, b)}

\* Crossings of one flow, at most two steps apart.
Adjacent(p, tiles) ==
  LET off(a, b, i) == Max({a[i] - b[i], b[i] - a[i]})
  IN  {l \in tiles \X tiles :
         /\ l[1] # l[2] /\ ~OnPipe(p, l[1]) /\ ~OnPipe(p, l[2])
         /\ off(l[1], l[2], 1) + off(l[1], l[2], 2) <= 2
         /\ SpecsAt(p, l[1]) \intersect SpecsAt(p, l[2]) # {}}

\* A crossing that stands alone joins the next one on its path, if that is
\* at most three steps on and the cluster does not become too large.
JoinLoners(p, P, s) ==
  LET on == SelectSeq(p.path[s], LAMBDA t : t \in UNION P)
      step(Q, i) ==
        LET a == BlockOf(Q, on[i])
            b == BlockOf(Q, on[i + 1])
            gap == Min({k \in DOMAIN p.path[s] : p.path[s][k] = on[i + 1]})
                   - Min({k \in DOMAIN p.path[s] : p.path[s][k] = on[i]})
        IN  IF /\ gap <= 3 /\ a # b /\ 1 \in {Cardinality(a), Cardinality(b)}
               /\ ~OnPipe(p, on[i]) /\ ~OnPipe(p, on[i + 1])
               /\ TileCount(Around(a \union b)) <= HullBudget
            THEN Merge(Q, on[i], on[i + 1]) ELSE Q
  IN  FoldLeft(step, P, [i \in 1 .. Len(on) - 1 |-> i])

Reads(a, b) == a[2] < b[2] \/ (a[2] = b[2] /\ a[1] <= b[1])
Seed(cluster) == CHOOSE t \in cluster : \A o \in cluster : Reads(t, o)

ClusterAdjacentCrossings(p) ==
  LET tiles == Crossings(p)
      near == FoldSet(LAMBDA l, P : Merge(P, l[1], l[2]), {{t} : t \in tiles}, Adjacent(p, tiles))
      joined == FoldSet(LAMBDA s, P : JoinLoners(p, P, s), near, DOMAIN p.path)
      upTo(c) == {d \in joined : Reads(Seed(d), Seed(c))}
  IN  [i \in 1 .. Cardinality(joined) |-> CHOOSE c \in joined : Cardinality(upTo(c)) = i]

\* Crossings that are neither of two flows nor on something a belt can pass under.
Undecidable(t) ==
  /\ Cardinality(SpecsAt(plan, t)) # 2
  /\ ~\E e \in Here(placed, t) : e.kind # "belt"

Pending == {t \in Crossings(plan) : t \notin handled}

-----------------------------------------------------------------------------
(* One solve: up to MaxGrowthIters rounds of five attempts.                *)

\* The first attempt of a round.
Round(cluster, region, iter) ==
  [cluster |-> cluster, region |-> region, iter |-> iter, side |-> 0, best |-> <<>>, veto |-> {},
   deferred |-> FALSE, asked |-> 0, refused |-> 0]

StartSolve(cluster, override) == Round(cluster, FromCrossings(plan, placed, cluster, override), 0)

\* An attempt is over; what it has added.
After(g, best, veto, deferred, asked, refused) ==
  [cluster |-> g.cluster, region |-> g.region, iter |-> g.iter, side |-> g.side + 1, best |-> best,
   veto |-> g.veto \union veto, deferred |-> g.deferred \/ deferred, asked |-> g.asked + asked,
   refused |-> g.refused + refused]

AtCap(g) == g.side = 1 /\ TileCount(g.region.box) >= MaxRegionTiles
RoundOver(g) == g.side = 5 \/ AtCap(g)

\* The region of the next attempt: the region itself, then one side further
\* on each side, unless that changes nothing or is too large.
Tried(g) == IF g.side = 0 THEN {g.region}
            ELSE {v \in {ExpandBbox(plan, placed, g.region, SingleSideVariants[g.side])} :
                    v # g.region /\ TileCount(v.box) <= MaxRegionTiles}

\* try_solve_on_region. A solution is kept if it is cheaper than the best so
\* far; one that ends at a pending crossing is put off, one that breaks a flow
\* says where.
Outcomes(g, region) ==
  LET specs == ToJunction(plan, region)
      ports == Boundaries(placed, region, specs)
      over == TileCount(region.box) > CeilingTiles
      solutions == IF over THEN {} ELSE Solutions(plan, region, ports)
      judged(sol) ==
        LET breaks == Breaks(plan, placed, region.box, sol)
        IN  IF DefersOnExit(specs, Pending \ g.cluster) THEN After(g, g.best, {}, TRUE, 1, 0)
            ELSE IF breaks # {} THEN After(g, g.best, breaks, FALSE, 1, 0)
            ELSE IF g.best # <<>> /\ Cost(g.best[1].ents) <= Cost(sol) THEN After(g, g.best, {}, FALSE, 1, 0)
            ELSE After(g, <<[ents |-> sol, region |-> region, ports |-> ports]>>, {}, FALSE, 1, 0)
  IN  IF ItemConflicts(specs) # {}
      THEN {After(g, g.best, {t}, FALSE, 0, 0) : t \in ItemConflicts(specs)}
      ELSE IF TileCount(region.box) = 1 \/ specs = {} THEN {After(g, g.best, {}, FALSE, 0, 0)}
      ELSE IF solutions = {} THEN {After(g, g.best, {}, FALSE, 1, IF over THEN 1 ELSE 0)}
      ELSE {judged(sol) : sol \in solutions}

Attempt ==
  /\ growth # Idle /\ ~RoundOver(growth)
  /\ growth' \in IF Tried(growth) = {} THEN {After(growth, growth.best, {}, FALSE, 0, 0)}
                 ELSE UNION {Outcomes(growth, v) : v \in Tried(growth)}
  /\ UNCHANGED <<plan, placed, claims, clusters, handled, remaining, capped, panicked, synced>>

\* No larger region can help a solver that refuses them all for their size.
CeilingStop(g) ==
  /\ g.iter >= 1 /\ g.veto = {} /\ ~g.deferred
  /\ g.asked > 0 /\ g.refused = g.asked

Grown(g) == ExpandBbox(plan, placed, g.region, GrowthDeltas(plan, g.region, g.veto))

Grow ==
  /\ growth # Idle /\ RoundOver(growth) /\ growth.best = <<>>
  /\ ~AtCap(growth) /\ ~CeilingStop(growth)
  /\ growth.iter + 1 < MaxGrowthIters
  /\ Grown(growth) # growth.region
  /\ growth' = Round(growth.cluster, Grown(growth), growth.iter + 1)
  /\ UNCHANGED <<plan, placed, claims, clusters, handled, remaining, capped, panicked, synced>>

\* Mutant: the crossings of a cluster that is given up are not left over.
GiveUpSilently ==
  /\ capped' = capped + 1 /\ growth' = Idle
  /\ UNCHANGED <<plan, placed, claims, clusters, handled, remaining, panicked, synced>>

GiveUp ==
  /\ capped' = capped + 1
  /\ remaining' = remaining \union growth.cluster
  /\ growth' = Idle
  /\ UNCHANGED <<plan, placed, claims, clusters, handled, panicked, synced>>

Cap ==
  /\ growth # Idle /\ RoundOver(growth) /\ growth.best = <<>>
  /\ \/ AtCap(growth) \/ CeilingStop(growth)
     \/ growth.iter + 1 = MaxGrowthIters
     \/ Grown(growth) = growth.region
  /\ GiveUp

-----------------------------------------------------------------------------
(* The clusters.                                                           *)

Visiting == clusters # <<>> /\ growth = Idle /\ ~panicked

\* A tile of the cluster lies in the footprint of an earlier solution.
SkipHandled ==
  /\ Visiting /\ Head(clusters) \intersect handled # {}
  /\ clusters' = Tail(clusters)
  /\ UNCHANGED <<plan, placed, claims, growth, handled, remaining, capped, panicked, synced>>

SetAside ==
  /\ Visiting /\ Head(clusters) \intersect handled = {}
  /\ \E t \in Head(clusters) : Undecidable(t)
  /\ remaining' = remaining \union Head(clusters)
  /\ clusters' = Tail(clusters)
  /\ UNCHANGED <<plan, placed, claims, growth, handled, capped, panicked, synced>>

SolveCluster ==
  /\ Visiting /\ Head(clusters) \intersect handled = {}
  /\ \A t \in Head(clusters) : ~Undecidable(t)
  /\ growth' = StartSolve(Head(clusters), {})
  /\ clusters' = Tail(clusters)
  /\ UNCHANGED <<plan, placed, claims, handled, remaining, capped, panicked, synced>>

-----------------------------------------------------------------------------
(* Commit.                                                                 *)

Solved == growth # Idle /\ RoundOver(growth) /\ growth.best # <<>>
Best == growth.best[1]

Same(a, b) == a.dir = b.dir /\ a.item = b.item /\ a.kind = b.kind

\* An exit may replace a committed belt that goes on in the same direction,
\* if nothing that stays behind it or beside it feeds that belt.
FlowCompatible(e, found) ==
  LET old == claims[e.tile].e
      zone == TilesOf(found.region.box)
      vacated(t) == /\ t \in zone
                    /\ \/ t \notin DOMAIN claims
                       \/ claims[t].kind = "ghost" /\ claims[t].e.item \in {plan.item[s] : s \in DOMAIN found.region.span}
                       \/ claims[t].kind = "permanent" /\ claims[t].e.seg = "trunk" /\ claims[t].e.kind # "pipe"
      stays(t) == t \in DOMAIN claims /\ claims[t].kind # "hard" /\ ~vacated(t)
  IN  /\ e.kind = "out" /\ old.kind = "belt" /\ old.dir = e.dir /\ old.item = e.item
      /\ Behind(e.tile, e.dir) \in zone /\ ~stays(Behind(e.tile, e.dir))
      /\ \A d \in {(e.dir + 1) % 4, (e.dir + 3) % 4} :
           LET t == Ahead(e.tile, d)
           IN  stays(t) => Ahead(t, claims[t].e.dir) # e.tile

Differs(e) == Claimed(claims, e.tile, {"template", "row"}) /\ ~Same(claims[e.tile].e, e)
Upgrades(found) == {e.tile : e \in {f \in found.ents : Differs(f) /\ claims[f.tile].kind = "template"
                                                       /\ FlowCompatible(f, found)}}
Conflicts(found) == {e.tile : e \in {f \in found.ents : Differs(f)}} \ Upgrades(found)

\* Mutant: the retry does not keep off the tiles in conflict.
RetryAsBefore ==
  /\ Solved /\ Conflicts(Best) # {} /\ growth.region.override = {}
  /\ growth' = StartSolve(growth.cluster, {})
  /\ UNCHANGED <<plan, placed, claims, clusters, handled, remaining, capped, panicked, synced>>

\* The solution would overwrite something else: once more, without its tiles.
Retry ==
  /\ Solved /\ Conflicts(Best) # {} /\ growth.region.override = {}
  /\ growth' = StartSolve(growth.cluster, Conflicts(Best))
  /\ UNCHANGED <<plan, placed, claims, clusters, handled, remaining, capped, panicked, synced>>

CapAfterRetry ==
  /\ Solved /\ Conflicts(Best) # {} /\ growth.region.override # {}
  /\ GiveUp

\* Balancers that the solution takes as they are, and taps it is fed by.
Preserve(found) ==
  {t \in found.region.forbidden :
     /\ Claimed(claims, t, {"permanent"})
     /\ \/ claims[t].e.seg = "balancer"
        \/ claims[t].e.seg = "tapoff" /\ \E p \in found.ports : p.interior /\ p.tile = t}

\* Mutant: what stands in the way is stamped over.
StampedOver(found, released) == {e \in found.ents : ~Claimed(released, e.tile, {"hard"})}

\* What is stamped once the footprint is released: nothing on hard obstacles,
\* nor where a template or a row stands, unless it is upgraded.
Stamped(found, released) ==
  {e \in found.ents : /\ ~Claimed(released, e.tile, {"hard"})
                      /\ \/ ~Claimed(released, e.tile, {"template", "row"})
                         \/ e.tile \in Upgrades(found)}

\* All that a solution lays is of one family, the crossings.
Listed(e, n) ==
  [tile |-> e.tile, dir |-> e.dir, item |-> e.item, kind |-> e.kind, seg |-> "crossing", at |-> n]
NewlyListed(ents) == {Listed(e, 1 + Max({f.at : f \in placed})) : e \in ents}

Commit ==
  /\ Solved /\ Conflicts(Best) = {}
  /\ LET zone == TilesOf(Best.region.box)
         released == ReleaseForTemplate(claims, zone, Preserve(Best))
         freed == ReleaseTiles(released, Upgrades(Best))
         stamped == NewlyListed(Stamped(Best, released))
     IN  /\ handled' = handled \union growth.cluster \union (Crossings(plan) \intersect zone)
         /\ panicked' = \E e \in stamped : ~CanPlace(freed, e.tile)
         /\ claims' = Place(freed, stamped, "template")
         /\ placed' = {e \in placed : e.tile \notin Upgrades(Best)} \union stamped
  /\ growth' = Idle
  /\ UNCHANGED <<plan, clusters, remaining, capped, synced>>

-----------------------------------------------------------------------------

\* The list and the claims tell of the same layout: what stands on a tile
\* that is neither hard nor a row is listed; and what is listed and would be
\* kept is what stands there.
Agree(list, held) ==
  /\ \A t \in DOMAIN held : held[t].kind \notin {"hard", "row"} =>
       /\ held[t].e \in list /\ held[t].e.tile = t
       /\ held[t].e.seg = "ghost" <=> held[t].kind = "ghost"
       /\ held[t].e.seg \in {"trunk", "tapoff", "balancer"} => held[t].kind = "permanent"
  /\ \A e \in list : Kept(held, e) =>
       e.tile \in DOMAIN held /\ held[e.tile].kind \notin {"hard", "row"} /\ held[e.tile].e = e

BalancerSplitter(held, t) ==
  Claimed(held, t, {"permanent"}) /\ held[t].e.kind = "splitter" /\ held[t].e.seg = "balancer"

\* No path runs over a splitter of a balancer: they are obstacles that no
\* port excuses. (A layout may have a path that ends on one.)
SplittersAside(p) ==
  \A t \in DOMAIN p.claims :
    BalancerSplitter(p.claims, t) => /\ t \in p.plan.obstacles /\ SpecsAt(p.plan, t) = {}
                                     /\ \A e \in Here(p.placed, t) : e.kind # "belt"

\* What the router hands over: every pipe is an obstacle and listed as one,
\* and every crossing is in a cluster.
WellFormed(p) ==
  /\ IsPlan(p.plan)
  /\ \A t \in DOMAIN p.claims :
       /\ p.claims[t].kind \in ClaimKinds
       /\ HeldByPipe(p.claims, t) => /\ t \in p.plan.obstacles /\ t \in PipeTiles(p.placed)
                                     /\ \A e \in Here(p.placed, t) : e.kind # "belt"
  /\ Agree(p.placed, p.claims)
  /\ ClusterAdjacentCrossings(p.plan) \in Seq(SUBSET Crossings(p.plan))
  /\ Crossings(p.plan) \subseteq UNION ToSet(ClusterAdjacentCrossings(p.plan))

ASSUME JunctionsAssumption == MaxGrowthIters \in Nat \ {0} /\ \A p \in Plans : WellFormed(p)

Sync ==
  /\ clusters = <<>> /\ growth = Idle /\ ~panicked /\ ~synced
  /\ placed' = {e \in placed : Kept(claims, e)}
  /\ synced' = TRUE
  /\ UNCHANGED <<plan, claims, clusters, growth, handled, remaining, capped, panicked>>

Init ==
  /\ \E p \in Plans : plan = p.plan /\ placed = p.placed /\ claims = p.claims
  /\ clusters = ClusterAdjacentCrossings(plan)
  /\ growth = Idle
  /\ handled = {} /\ remaining = {} /\ capped = 0
  /\ panicked = FALSE /\ synced = FALSE

Stop == (synced \/ panicked) /\ UNCHANGED vars

Next == \/ SkipHandled \/ SetAside \/ SolveCluster
        \/ Attempt \/ Grow \/ Cap
        \/ Retry \/ CapAfterRetry \/ Commit
        \/ Sync \/ Stop

Spec == Init /\ [][Next]_vars

-----------------------------------------------------------------------------
(* No solution is stamped where something stands that is not released: the *)
(* router asserts it with a panic.                                         *)
NoPanic == ~panicked

(* The list of entities and the occupancy are two accounts of one layout;  *)
(* the solver goes by the one, the commits by the other. In the end they   *)
(* agree.                                                                  *)
ListMatchesClaims ==
  synced => placed = {claims[t].e : t \in {u \in DOMAIN claims : claims[u].kind \notin {"hard", "row"}}}

\* A flow that gets from the first to the last tile of its path.
Runs(s) ==
  LET rows == {claims[t].e : t \in {u \in DOMAIN claims : claims[u].kind = "row"}}
  IN  Last(plan.path[s]) \in Reached(Shadow(placed \union rows, {}), plan.item[s], Head(plan.path[s]))

MeetsPipe(s) == \E t \in ToSet(plan.path[s]) : OnPipe(plan, t)

(* What is not given up is solved: a flow none of whose crossings is left  *)
(* over runs from end to end, whatever was rerouted round it afterwards.   *)
(* (Not so a flow that meets a pipe: the solver does not walk it.)         *)
SolvedFlowsRun ==
  synced => \A s \in BeltSpecs(plan) :
              (~MeetsPipe(s) /\ ToSet(plan.path[s]) \intersect Crossings(plan) \subseteq handled) => Runs(s)

Stays(t) == t \in DOMAIN claims' /\ claims'[t] = claims[t]

\* Upgraded at most: the belt goes on with the same item in the same direction.
FlowStays(t) ==
  /\ Claimed(claims', t, {"template"})
  /\ claims'[t].e.dir = claims[t].e.dir /\ claims'[t].e.item = claims[t].e.item

RowsStay == \A t \in DOMAIN claims : Claimed(claims, t, {"hard", "row"}) => Stays(t)
PipesStay == \A t \in DOMAIN claims : HeldByPipe(claims, t) => Stays(t)
SplittersStay == \A t \in DOMAIN claims : BalancerSplitter(claims, t) => Stays(t)
FlowsStay == \A t \in DOMAIN claims : Claimed(claims, t, {"template"}) => FlowStays(t)

(* Rows, machines, pipes and the splitters of balancers are as they were,  *)
(* whatever the solutions round them release and lay anew; and where one   *)
(* solution has laid a belt, a later one at most leads it under the        *)
(* ground, never in another direction.                                     *)
FixturesStay == [][RowsStay /\ PipesStay /\ SplittersStay /\ FlowsStay]_vars

(* No crossing gets lost, but for those that share a cluster with one that *)
(* an earlier solution covers.                                             *)
LostOnlyBesideSolved ==
  synced => \A t \in Crossings(plan) \ (handled \union remaining) :
              \E c \in ToSet(ClusterAdjacentCrossings(plan)) : t \in c /\ c \intersect handled # {}

(* Attempts, growth and retries come to an end: every step takes one from  *)
(* this count, so none is repeated for ever. That the router stops nowhere *)
(* else than at the end is what TLC's deadlock check adds.                 *)
AttemptsLeft(g) ==
  1 + (IF g.region.override = {} THEN 6 * MaxGrowthIters ELSE 0) + 6 * (MaxGrowthIters - g.iter) - g.side
WorkLeft == Len(clusters) * (12 * MaxGrowthIters + 2) + (IF growth = Idle THEN 0 ELSE AttemptsLeft(growth))
        + (IF synced THEN 0 ELSE 1)
WorkRunsOut == [][WorkLeft' < WorkLeft]_vars
=============================================================================

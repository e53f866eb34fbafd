--------------------------- MODULE JunctionProofs ---------------------------
(***************************************************************************)
(* What the junction solver and its commits keep to in every layout: no    *)
(* region lets a solution onto a pipe, because pipes are obstacles that no *)
(* port excuses and that stay listed as pipes until all clusters are done; *)
(* nor onto a splitter of a balancer, as long as no path runs over one.    *)
(***************************************************************************)
EXTENDS Junctions, FiniteSetTheorems, WellFoundedInduction, TLAPS

\* A region that may not build on the pipes it holds.
KeepsOut(region) ==
  \A t \in DOMAIN claims : HeldByPipe(claims, t) /\ t \in TilesOf(region.box) => t \in region.forbidden

PipesInv ==
  ~synced => \A t \in DOMAIN claims :
               HeldByPipe(claims, t) => /\ t \in plan.obstacles /\ t \in PipeTiles(placed)
                                        /\ \A e \in Here(placed, t) : e.kind # "belt"

GrowthInv ==
  growth # Idle => /\ ~synced
                   /\ KeepsOut(growth.region)
                   /\ growth.best # <<>> => /\ KeepsOut(Best.region)
                                            /\ Allowed(Best.ents, Best.region)
                                            /\ OneEntityPerTile(Best.ents)

SyncInv == synced => clusters = <<>>

Safe == PipesInv /\ GrowthInv

IInv == Safe /\ SyncInv

-----------------------------------------------------------------------------
(* Regions.                                                                *)

(* Whatever is promoted, the tiles of pipes are forbidden.                 *)
LEMMA PromotedKeepsOut ==
  ASSUME NEW box, NEW span, NEW override, PipesInv, ~synced
  PROVE  KeepsOut(PromoteBlocked(plan, placed, box, span, override))
<1> DEFINE r == PromoteBlocked(plan, placed, box, span, override)
<1>1. r.box = box /\ r.forbidden = RefreshForbidden(plan, placed, box, span, override)
  BY DEF PromoteBlocked
<1> SUFFICES ASSUME NEW t \in DOMAIN claims, HeldByPipe(claims, t), t \in TilesOf(r.box)
             PROVE  t \in r.forbidden
  BY DEF KeepsOut
<1>2. t \in plan.obstacles /\ t \in PipeTiles(placed) /\ \A e \in Here(placed, t) : e.kind # "belt"
  BY DEF PipesInv
<1>3. t \notin PortTiles(plan, placed, box, span)
  BY <1>2 DEF PortTiles
<1>4. ~Rebuildable(placed, t)
  BY <1>2 DEF Rebuildable
<1>. QED  BY <1>1, <1>2, <1>3, <1>4 DEF RefreshForbidden

(* So they are in the first region of a cluster.                           *)
LEMMA FirstKeepsOut ==
  ASSUME NEW cluster, NEW override, PipesInv, ~synced
  PROVE  KeepsOut(FromCrossings(plan, placed, cluster, override))
BY PromotedKeepsOut DEF FromCrossings

(* So they are in every larger one.                                        *)
LEMMA ExpandedKeepsOut ==
  ASSUME NEW region, NEW by, KeepsOut(region), PipesInv, ~synced
  PROVE  KeepsOut(ExpandBbox(plan, placed, region, by))
BY PromotedKeepsOut DEF ExpandBbox
-----------------------------------------------------------------------------
(* Commits.                                                                *)

(* What is listed is what was stamped, with its place in the list.         *)
LEMMA ListedIsStamped ==
  ASSUME NEW ents, NEW e \in NewlyListed(ents)
  PROVE  e.seg = "crossing" /\ \E f \in ents : e.tile = f.tile /\ e.dir = f.dir /\ e.item = f.item
<1>1. PICK f \in ents : e = Listed(f, 1 + Max({g.at : g \in placed}))
  BY DEF NewlyListed
<1>. QED  BY <1>1 DEF Listed

(* All that was stamped is listed.                                         *)
LEMMA StampedIsListed ==
  ASSUME NEW ents, NEW f \in ents
  PROVE  \E e \in NewlyListed(ents) : e.tile = f.tile
<1> DEFINE n == 1 + Max({g.at : g \in placed})
<1>1. Listed(f, n) \in NewlyListed(ents)
  BY DEF NewlyListed
<1>2. Listed(f, n).tile = f.tile
  BY DEF Listed
<1>. QED  BY <1>1, <1>2

(* No solution lays anything on a pipe, nor is a pipe released.            *)
LEMMA CommitSparesPipes ==
  ASSUME Commit, PipesInv, GrowthInv, NEW t \in DOMAIN claims, HeldByPipe(claims, t)
  PROVE  /\ Stays(t)
         /\ t \in PipeTiles(placed')
         /\ \A e \in Here(placed', t) : e.kind # "belt"
<1> DEFINE zone == TilesOf(Best.region.box)
           released == ReleaseForTemplate(claims, zone, Preserve(Best))
           freed == ReleaseTiles(released, Upgrades(Best))
           stamped == NewlyListed(Stamped(Best, released))
<1>1. /\ claims' = Place(freed, stamped, "template")
      /\ placed' = {e \in placed : e.tile \notin Upgrades(Best)} \union stamped
      /\ KeepsOut(Best.region) /\ Allowed(Best.ents, Best.region) /\ ~synced
  BY DEF Commit, Solved, GrowthInv
<1>2. \A e \in Best.ents : e.tile # t
  <2> SUFFICES ASSUME NEW e \in Best.ents, e.tile = t PROVE FALSE
    OBVIOUS
  <2>1. e.tile \in TilesOf(Best.region.box) /\ e.tile \notin Best.region.forbidden
    BY <1>1 DEF Allowed
  <2>. QED  BY <1>1, <2>1 DEF KeepsOut
<1>3. \A e \in stamped : e.tile # t
  BY <1>2, ListedIsStamped DEF Stamped
<1>4. t \notin Upgrades(Best)
  BY <1>2 DEF Upgrades
<1>5. t \in DOMAIN released /\ released[t] = claims[t]
  BY DEF ReleaseForTemplate, Releasable, HeldByPipe, Claimed
<1>6. t \in DOMAIN freed /\ freed[t] = claims[t]
  BY <1>4, <1>5 DEF ReleaseTiles
<1>7. Stays(t)
  BY <1>1, <1>3, <1>6 DEF Place, Stays
<1>8. t \in PipeTiles(placed) /\ \A e \in Here(placed, t) : e.kind # "belt"
  BY <1>1 DEF PipesInv
<1>9. Here(placed', t) = Here(placed, t)
  BY <1>1, <1>3, <1>4 DEF Here
<1>10. t \in PipeTiles(placed')
  BY <1>8, <1>9 DEF PipeTiles, Here
<1>. QED  BY <1>7, <1>8, <1>9, <1>10

(* What a commit leaves claimed is claimed as before, or newly laid.       *)
LEMMA CommitClaims ==
  ASSUME Commit, NEW t \in DOMAIN claims'
  PROVE  \/ t \in DOMAIN claims /\ claims'[t] = claims[t]
         \/ claims'[t].kind = "template"
BY DEF Commit, Place, ReleaseTiles, ReleaseForTemplate

(* Hard tiles and rows are neither released nor built on.                  *)
LEMMA CommitSparesRows ==
  ASSUME Commit, NEW t \in DOMAIN claims, Claimed(claims, t, {"hard", "row"})
  PROVE  Stays(t)
<1> DEFINE zone == TilesOf(Best.region.box)
           released == ReleaseForTemplate(claims, zone, Preserve(Best))
           freed == ReleaseTiles(released, Upgrades(Best))
           stamped == NewlyListed(Stamped(Best, released))
<1>1. claims' = Place(freed, stamped, "template")
  BY DEF Commit
<1>2. t \in DOMAIN released /\ released[t] = claims[t]
  BY DEF ReleaseForTemplate, Releasable, Claimed
<1>3. t \notin Upgrades(Best)
  BY DEF Upgrades, Claimed
<1>4. \A e \in stamped : e.tile # t
  BY <1>2, <1>3, ListedIsStamped DEF Stamped, Claimed
<1>. QED  BY <1>1, <1>2, <1>3, <1>4 DEF Place, ReleaseTiles, Stays

(* A belt that an earlier solution laid stays, or the exit that takes its  *)
(* place carries the same item the same way.                               *)
LEMMA CommitKeepsFlows ==
  ASSUME Commit, GrowthInv, NEW t \in DOMAIN claims, Claimed(claims, t, {"template"})
  PROVE  FlowStays(t)
<1> DEFINE zone == TilesOf(Best.region.box)
           released == ReleaseForTemplate(claims, zone, Preserve(Best))
           freed == ReleaseTiles(released, Upgrades(Best))
           stamped == NewlyListed(Stamped(Best, released))
<1>1. claims' = Place(freed, stamped, "template") /\ OneEntityPerTile(Best.ents)
  BY DEF Commit, Solved, GrowthInv
<1>2. t \in DOMAIN released /\ released[t] = claims[t]
  BY DEF ReleaseForTemplate, Releasable, Claimed
<1>3. CASE t \notin Upgrades(Best)
  <2>1. \A e \in stamped : e.tile # t
    BY <1>2, <1>3, ListedIsStamped DEF Stamped, Claimed
  <2>. QED  BY <1>1, <1>2, <1>3, <2>1 DEF Place, ReleaseTiles, FlowStays, Claimed
<1>4. CASE t \in Upgrades(Best)
  <2>1. PICK f \in Best.ents : f.tile = t /\ FlowCompatible(f, Best)
    BY <1>4 DEF Upgrades
  <2>2. f.dir = claims[t].e.dir /\ f.item = claims[t].e.item
    BY <2>1 DEF FlowCompatible
  <2>3. f \in Stamped(Best, released)
    BY <1>2, <1>4, <2>1 DEF Stamped, Claimed
  <2>4. \E e \in stamped : e.tile = t
    BY <2>1, <2>3, StampedIsListed
  <2>5. \A e \in stamped : e.tile = t => e.dir = f.dir /\ e.item = f.item
    <3> SUFFICES ASSUME NEW g \in Stamped(Best, released), g.tile = t
                 PROVE  g = f
      BY ListedIsStamped
    <3>. QED  BY <1>1, <2>1 DEF OneEntityPerTile, Stamped
  <2> DEFINE new == CHOOSE e \in stamped : e.tile = t
  <2>6. new \in stamped /\ new.tile = t
    BY <2>4
  <2>7. t \in DOMAIN claims' /\ claims'[t] = [kind |-> "template", e |-> new]
    BY <1>1, <2>6 DEF Place
  <2>8. new.dir = f.dir /\ new.item = f.item
    BY <2>5, <2>6
  <2> HIDE DEF new
  <2>9. Claimed(claims', t, {"template"}) /\ claims'[t].e = new
    BY <2>7 DEF Claimed
  <2>. QED  BY <2>2, <2>8, <2>9 DEF FlowStays
<1>. QED  BY <1>3, <1>4

-----------------------------------------------------------------------------
(* The invariant.                                                          *)

LEMMA InitEstablishes == Init => IInv
<1> SUFFICES ASSUME Init PROVE IInv
  OBVIOUS
<1>1. PICK p \in Plans : plan = p.plan /\ placed = p.placed /\ claims = p.claims
  BY DEF Init
<1>2. WellFormed(p)
  BY JunctionsAssumption
<1>3. PipesInv
  BY <1>1, <1>2 DEF WellFormed, PipesInv
<1>. QED  BY <1>3 DEF Init, IInv, Safe, SyncInv, GrowthInv

(* An attempt looks at the region or at one a side larger; what it keeps   *)
(* spares the forbidden tiles of that region.                              *)
LEMMA AttemptPreserves ==
  ASSUME IInv, Attempt
  PROVE  GrowthInv'
<1>1. growth # Idle /\ ~synced /\ PipesInv /\ KeepsOut(growth.region)
  BY DEF IInv, Safe, GrowthInv, Attempt
<1>2. UNCHANGED <<plan, placed, claims, synced>>
  BY DEF Attempt
<1> DEFINE Good(best) == best # <<>> => /\ KeepsOut(best[1].region)
                                       /\ Allowed(best[1].ents, best[1].region)
                                       /\ OneEntityPerTile(best[1].ents)
           Fine(h) == h.region = growth.region /\ Good(h.best)
<1>3. Good(growth.best)
  BY <1>1 DEF IInv, Safe, GrowthInv, Best
<1>4. ASSUME NEW veto, NEW deferred, NEW asked, NEW refused, NEW best, Good(best)
      PROVE  Fine(After(growth, best, veto, deferred, asked, refused))
  BY <1>4 DEF After
<1>5. ASSUME NEW v \in Tried(growth)
      PROVE  KeepsOut(v)
  <2>1. v = growth.region \/ v = ExpandBbox(plan, placed, growth.region, SingleSideVariants[growth.side])
    BY DEF Tried
  <2>. QED  BY <1>1, <2>1, ExpandedKeepsOut
<1>6. ASSUME NEW v, KeepsOut(v), NEW h \in Outcomes(growth, v)
      PROVE  Fine(h)
  <2> DEFINE ports == Boundaries(placed, v, ToJunction(plan, v))
  <2>1. ASSUME NEW sol \in Solutions(plan, v, ports)
        PROVE  Good(<<[ents |-> sol, region |-> v, ports |-> ports]>>)
    <3>1. OneEntityPerTile(sol) /\ Allowed(sol, v)
      BY DEF Solutions
    <3>. QED  BY <1>6, <3>1
  <2>2. CASE \E veto, deferred, asked, refused :
               h = After(growth, growth.best, veto, deferred, asked, refused)
    <3>1. PICK veto, deferred, asked, refused :
            h = After(growth, growth.best, veto, deferred, asked, refused)
      BY <2>2
    <3>. QED  BY <1>3, <1>4, <3>1
  <2>3. CASE \E sol \in Solutions(plan, v, ports) :
               h = After(growth, <<[ents |-> sol, region |-> v, ports |-> ports]>>, {}, FALSE, 1, 0)
    <3>1. PICK sol \in Solutions(plan, v, ports) :
            h = After(growth, <<[ents |-> sol, region |-> v, ports |-> ports]>>, {}, FALSE, 1, 0)
      BY <2>3
    <3>. QED  BY <1>4, <2>1, <3>1
  <2>4. \/ \E veto, deferred, asked, refused : h = After(growth, growth.best, veto, deferred, asked, refused)
        \/ \E sol \in Solutions(plan, v, ports) :
             h = After(growth, <<[ents |-> sol, region |-> v, ports |-> ports]>>, {}, FALSE, 1, 0)
    BY DEF Outcomes
  <2>. QED  BY <2>2, <2>3, <2>4
<1>7. Fine(growth')
  <2>1. CASE growth' = After(growth, growth.best, {}, FALSE, 0, 0)
    BY <1>3, <1>4, <2>1
  <2>2. CASE \E v \in Tried(growth) : growth' \in Outcomes(growth, v)
    BY <1>5, <1>6, <2>2
  <2>. QED  BY <2>1, <2>2 DEF Attempt
<1>8. ASSUME NEW region, KeepsOut(region)
      PROVE  KeepsOut(region)'
  BY <1>2, <1>8 DEF KeepsOut
<1>. QED  BY <1>1, <1>2, <1>7, <1>8 DEF GrowthInv, Best

(* Growing, starting and retrying begin with a region that keeps out.      *)
LEMMA RoundPreserves ==
  ASSUME IInv, NEW cluster, NEW region, NEW iter, KeepsOut(region), ~synced,
         growth' = Round(cluster, region, iter), UNCHANGED <<plan, placed, claims, synced>>
  PROVE  Safe'
<1>1. growth'.region = region /\ growth'.best = <<>>
  BY DEF Round
<1>2. KeepsOut(region)'
  BY DEF KeepsOut
<1>. QED  BY <1>1, <1>2 DEF IInv, Safe, PipesInv, GrowthInv

(* A commit leaves every pipe where it is, in the list as well.            *)
LEMMA CommitPreserves == IInv /\ Commit => Safe'
<1> SUFFICES ASSUME IInv, Commit PROVE Safe'
  OBVIOUS
<1>1. plan' = plan /\ synced' = synced /\ growth' = Idle
  BY DEF Commit
<1>2. PipesInv'
  <2> SUFFICES ASSUME ~synced', NEW t \in DOMAIN claims', HeldByPipe(claims', t)
               PROVE  /\ t \in plan.obstacles /\ t \in PipeTiles(placed')
                      /\ \A e \in Here(placed', t) : e.kind # "belt"
    BY <1>1 DEF PipesInv
  <2>1. claims'[t].kind # "template"
    BY DEF HeldByPipe, Claimed
  <2>2. t \in DOMAIN claims /\ claims'[t] = claims[t]
    BY <2>1, CommitClaims
  <2>3. HeldByPipe(claims, t)
    BY <2>2 DEF HeldByPipe, Claimed
  <2>. QED  BY <1>1, <2>2, <2>3, CommitSparesPipes DEF IInv, Safe, PipesInv
<1>. QED  BY <1>1, <1>2 DEF IInv, Safe, GrowthInv

(* Nor does any other step disturb it.                                     *)
LEMMA NextKeepsSafe == IInv /\ [Next]_vars => Safe'
<1> SUFFICES ASSUME IInv, [Next]_vars PROVE Safe'
  OBVIOUS
<1>1. ASSUME UNCHANGED <<plan, placed, claims, synced>>, growth' = growth \/ growth' = Idle
      PROVE  Safe'
  <2>1. CASE growth' = growth
    BY <1>1, <2>1 DEF IInv, Safe, PipesInv, GrowthInv, KeepsOut, Best
  <2>2. CASE growth' = Idle
    BY <1>1, <2>2 DEF IInv, Safe, PipesInv, GrowthInv
  <2>. QED  BY <1>1, <2>1, <2>2
<1>2. CASE SkipHandled
  BY <1>1, <1>2 DEF SkipHandled
<1>3. CASE SetAside
  BY <1>1, <1>3 DEF SetAside
<1>4. CASE SolveCluster
  <2>1. ~synced
    BY <1>4 DEF SolveCluster, Visiting, IInv, Safe, SyncInv
  <2>. QED  BY <1>4, <2>1, FirstKeepsOut, RoundPreserves DEF SolveCluster, StartSolve, IInv, Safe
<1>5. CASE Attempt
  <2>1. PipesInv'
    BY <1>5 DEF Attempt, IInv, Safe, PipesInv
  <2>. QED  BY <1>5, <2>1, AttemptPreserves DEF IInv, Safe
<1>6. CASE Grow
  <2>1. KeepsOut(Grown(growth)) /\ ~synced
    BY <1>6, ExpandedKeepsOut DEF Grow, Grown, IInv, Safe, GrowthInv
  <2>. QED  BY <1>6, <2>1, RoundPreserves DEF Grow
<1>7. CASE Cap
  BY <1>1, <1>7 DEF Cap, GiveUp
<1>8. CASE Retry
  <2>1. ~synced
    BY <1>8 DEF Retry, Solved, IInv, Safe, GrowthInv
  <2>. QED  BY <1>8, <2>1, FirstKeepsOut, RoundPreserves DEF Retry, StartSolve, IInv, Safe
<1>9. CASE CapAfterRetry
  BY <1>1, <1>9 DEF CapAfterRetry, GiveUp
<1>10. CASE Commit
  BY <1>10, CommitPreserves
<1>11. CASE Sync
  BY <1>11 DEF Sync, IInv, Safe, PipesInv, GrowthInv
<1>12. CASE Stop
  BY <1>1, <1>12 DEF Stop, vars
<1>13. CASE UNCHANGED vars
  BY <1>1, <1>13 DEF vars
<1>. QED
  BY <1>2, <1>3, <1>4, <1>5, <1>6, <1>7, <1>8, <1>9, <1>10, <1>11, <1>12, <1>13 DEF Next

(* With the clusters that are left: none, once the list is synced.         *)
LEMMA NextPreserves == IInv /\ [Next]_vars => IInv'
<1>1. IInv /\ [Next]_vars => SyncInv'
  <2> SUFFICES ASSUME SyncInv, [Next]_vars PROVE SyncInv'
    BY DEF IInv
  <2>1. CASE clusters # <<>> /\ synced' = synced
    BY <2>1 DEF SyncInv
  <2>2. CASE clusters' = clusters /\ synced' = synced
    BY <2>2 DEF SyncInv
  <2>3. CASE Sync
    BY <2>3 DEF Sync, SyncInv
  <2>. QED
    BY <2>1, <2>2, <2>3 DEF Next, SkipHandled, SetAside, SolveCluster, Visiting, Attempt, Grow, Cap,
         GiveUp, Retry, CapAfterRetry, Commit, Stop, vars
<1>. QED  BY <1>1, NextKeepsSafe DEF IInv

(* What every commit relies on, whenever its region was solved: pipes are  *)
(* known to the plan and the list, and the region and its best solution    *)
(* keep out of what is forbidden (solve_crossing, ghost_router.rs).        *)
THEOREM Inductive == Spec => []IInv
BY InitEstablishes, NextPreserves, PTL DEF Spec

-----------------------------------------------------------------------------
(* What the commits of a whole run leave in place.                         *)

(* A step leaves the claims as they were, or is a commit.                  *)
LEMMA OnlyCommitsClaim == [Next]_vars => Commit \/ claims' = claims
BY DEF Next, SkipHandled, SetAside, SolveCluster, Attempt, Grow, Cap, GiveUp, Retry, CapAfterRetry,
       Sync, Stop, vars

(* In every layout whose pipes are among the obstacles, no step of the     *)
(* solver or of a commit touches a machine, a row or a pipe, and a belt    *)
(* that a solution has laid keeps its item and its direction.              *)
THEOREM BuiltStays == Spec => [][RowsStay /\ PipesStay /\ FlowsStay]_vars
<1>1. IInv /\ [Next]_vars => [RowsStay /\ PipesStay /\ FlowsStay]_vars
  <2> SUFFICES ASSUME IInv, [Next]_vars PROVE RowsStay /\ PipesStay /\ FlowsStay
    OBVIOUS
  <2>1. CASE Commit
    <3>1. RowsStay
      BY <2>1, CommitSparesRows DEF RowsStay
    <3>2. PipesStay
      BY <2>1, CommitSparesPipes DEF PipesStay, IInv, Safe
    <3>3. FlowsStay
      BY <2>1, CommitKeepsFlows DEF FlowsStay, IInv, Safe
    <3>. QED  BY <3>1, <3>2, <3>3
  <2>2. CASE claims' = claims
    BY <2>2 DEF RowsStay, PipesStay, FlowsStay, Stays, FlowStays, Claimed
  <2>. QED  BY <2>1, <2>2, OnlyCommitsClaim
<1>. QED  BY <1>1, Inductive, PTL DEF Spec

-----------------------------------------------------------------------------
(* Panics.                                                                 *)

\* Belts that are not released are what a solution may run into: merge trees,
\* for one, are permanent and of none of these families.
AllReleased(c) ==
  \A t \in DOMAIN c : c[t].kind = "permanent" => c[t].e.seg \in {"trunk", "tapoff", "balancer"}

KindsInv == \A t \in DOMAIN claims : claims[t].kind \in ClaimKinds

PanicInv == AllReleased(claims) /\ KindsInv /\ NoPanic

(* A commit that may release whatever permanent belt it does not preserve  *)
(* finds room for all it lays.                                             *)
LEMMA CommitHasRoom ==
  ASSUME IInv, PanicInv, Commit
  PROVE  ~panicked'
<1> DEFINE zone == TilesOf(Best.region.box)
           released == ReleaseForTemplate(claims, zone, Preserve(Best))
           freed == ReleaseTiles(released, Upgrades(Best))
           stamped == NewlyListed(Stamped(Best, released))
<1>1. /\ panicked' = \E e \in stamped : ~CanPlace(freed, e.tile)
      /\ KeepsOut(Best.region) /\ Allowed(Best.ents, Best.region)
  BY DEF Commit, Solved, IInv, Safe, GrowthInv
<1>2. ASSUME NEW f \in Stamped(Best, released)
      PROVE  CanPlace(freed, f.tile)
  <2> DEFINE t == f.tile
  <2>1. t \in zone /\ t \notin Best.region.forbidden
    BY <1>1, <1>2 DEF Allowed, Stamped
  <2>2. CASE t \notin DOMAIN released
    BY <2>2 DEF CanPlace, ReleaseTiles
  <2>3. CASE t \in DOMAIN released
    <3>1. t \in DOMAIN claims /\ released[t] = claims[t] /\ ~Releasable(claims, t, Preserve(Best))
      BY <2>1, <2>3 DEF ReleaseForTemplate
    <3>2. claims[t].kind # "permanent"
      <4> SUFFICES ASSUME claims[t].kind = "permanent" PROVE FALSE
        OBVIOUS
      <4>1. t \notin Preserve(Best)
        BY <2>1 DEF Preserve
      <4>2. claims[t].e.kind # "pipe"
        BY <1>1, <2>1, <3>1 DEF KeepsOut, HeldByPipe, Claimed
      <4>. QED  BY <3>1, <4>1, <4>2 DEF Releasable, PanicInv, AllReleased
    <3>3. claims[t].kind # "ghost"
      BY <3>1 DEF Releasable
    <3>4. claims[t].kind # "hard"
      BY <1>2, <2>3, <3>1 DEF Stamped, Claimed
    <3>5. claims[t].kind \in {"template", "row"}
      BY <3>1, <3>2, <3>3, <3>4 DEF PanicInv, KindsInv, ClaimKinds
    <3>6. t \in Upgrades(Best)
      BY <1>2, <2>3, <3>1, <3>5 DEF Stamped, Claimed
    <3>. QED  BY <3>6 DEF CanPlace, ReleaseTiles
  <2>. QED  BY <2>2, <2>3
<1>3. \A e \in stamped : CanPlace(freed, e.tile)
  BY <1>2, ListedIsStamped
<1>. QED  BY <1>1, <1>3

LEMMA PanicPreserved == IInv /\ PanicInv /\ [Next]_vars => PanicInv'
<1> SUFFICES ASSUME IInv, PanicInv, [Next]_vars PROVE PanicInv'
  OBVIOUS
<1>1. CASE Commit
  <2>1. NoPanic'
    BY <1>1, CommitHasRoom DEF NoPanic
  <2>2. AllReleased(claims)' /\ KindsInv'
    BY <1>1, CommitClaims DEF PanicInv, AllReleased, KindsInv, ClaimKinds
  <2>. QED  BY <2>1, <2>2 DEF PanicInv
<1>2. CASE claims' = claims /\ panicked' = panicked
  BY <1>2 DEF PanicInv, AllReleased, KindsInv, NoPanic
<1>. QED
  BY <1>1, <1>2 DEF Next, SkipHandled, SetAside, SolveCluster, Attempt, Grow, Cap, GiveUp, Retry,
       CapAfterRetry, Sync, Stop, vars

(* The router does not panic where every permanent belt is one that        *)
(* commits release: only merge trees and the like put it at risk.          *)
THEOREM NeverPanics ==
  ASSUME \A p \in Plans : AllReleased(p.claims)
  PROVE  Spec => []NoPanic
<1>1. Init => PanicInv
  <2> SUFFICES ASSUME Init PROVE PanicInv
    OBVIOUS
  <2>1. PICK p \in Plans : claims = p.claims
    BY DEF Init
  <2>2. WellFormed(p)
    BY JunctionsAssumption
  <2>. QED  BY <2>1, <2>2 DEF Init, PanicInv, KindsInv, NoPanic, WellFormed, AllReleased
<1>2. PanicInv => NoPanic
  BY DEF PanicInv
<1>. QED  BY <1>1, <1>2, Inductive, PanicPreserved, PTL DEF Spec

-----------------------------------------------------------------------------
(* Work.                                                                   *)

\* A solve that is under way.
Under(g) == g # Idle /\ g.iter \in 0 .. MaxGrowthIters - 1 /\ g.side \in 0 .. 5

LEMMA RoundUnder ==
  ASSUME NEW cluster, NEW region, NEW iter \in 0 .. MaxGrowthIters - 1
  PROVE  LET g == Round(cluster, region, iter)
         IN  Under(g) /\ g.iter = iter /\ g.side = 0 /\ g.region = region /\ g.cluster = cluster
<1>1. DOMAIN Round(cluster, region, iter) # DOMAIN Idle
  BY DEF Round, Idle
<1>. QED  BY <1>1, JunctionsAssumption DEF Round, Under

LEMMA AfterUnder ==
  ASSUME NEW g, Under(g), ~RoundOver(g), NEW h,
         \E best, veto, deferred, asked, refused : h = After(g, best, veto, deferred, asked, refused)
  PROVE  /\ Under(h) /\ h.iter = g.iter /\ h.side = g.side + 1
         /\ h.region = g.region /\ h.cluster = g.cluster
<1>1. PICK best, veto, deferred, asked, refused : h = After(g, best, veto, deferred, asked, refused)
  OBVIOUS
<1>2. DOMAIN h # DOMAIN Idle
  BY <1>1 DEF After, Idle
<1>. QED  BY <1>1, <1>2 DEF After, Under, RoundOver

LEMMA AttemptsLeftRange ==
  ASSUME NEW g, Under(g)
  PROVE  AttemptsLeft(g) \in 1 .. 12 * MaxGrowthIters + 1
BY JunctionsAssumption DEF Under, AttemptsLeft

(* What is decided about the solve that is under way uses up an attempt.   *)
LEMMA AttemptUses ==
  ASSUME Under(growth), Attempt
  PROVE  /\ Under(growth') /\ AttemptsLeft(growth') = AttemptsLeft(growth) - 1
         /\ growth'.cluster = growth.cluster
<1> DEFINE Follows(h) == \E best, veto, deferred, asked, refused :
                         h = After(growth, best, veto, deferred, asked, refused)
<1>1. ASSUME NEW v, NEW h \in Outcomes(growth, v)
      PROVE  Follows(h)
  BY DEF Outcomes
<1>2. Follows(growth')
  <2>1. CASE growth' = After(growth, growth.best, {}, FALSE, 0, 0)
    BY <2>1
  <2>2. CASE \E v \in Tried(growth) : growth' \in Outcomes(growth, v)
    BY <1>1, <2>2
  <2>. QED  BY <2>1, <2>2 DEF Attempt
<1>3. ~RoundOver(growth)
  BY DEF Attempt
<1>4. /\ Under(growth') /\ growth'.region = growth.region /\ growth'.cluster = growth.cluster
      /\ growth'.iter = growth.iter /\ growth'.side = growth.side + 1
  BY <1>2, <1>3, AfterUnder
<1>. QED  BY <1>4, JunctionsAssumption DEF Under, AttemptsLeft

LEMMA GrowUses ==
  ASSUME Under(growth), Grow
  PROVE  Under(growth') /\ AttemptsLeft(growth') < AttemptsLeft(growth)
<1>1. growth' = Round(growth.cluster, Grown(growth), growth.iter + 1)
  BY DEF Grow
<1>2. growth.iter + 1 \in 0 .. MaxGrowthIters - 1
  BY JunctionsAssumption DEF Grow, Under
<1>3. Grown(growth).override = growth.region.override
  BY DEF Grown, ExpandBbox, PromoteBlocked
<1>4. /\ Under(growth') /\ growth'.region = Grown(growth)
      /\ growth'.iter = growth.iter + 1 /\ growth'.side = 0
  BY <1>1, <1>2, RoundUnder
<1>. QED  BY <1>3, <1>4, JunctionsAssumption DEF Under, AttemptsLeft

(* The second solve of a cluster is the last one.                          *)
LEMMA RetryUses ==
  ASSUME Under(growth), Retry
  PROVE  Under(growth') /\ AttemptsLeft(growth') < AttemptsLeft(growth)
<1> DEFINE region == FromCrossings(plan, placed, growth.cluster, Conflicts(Best))
<1>1. growth' = Round(growth.cluster, region, 0)
  BY DEF Retry, StartSolve
<1>2. region.override = Conflicts(Best)
  BY DEF FromCrossings, PromoteBlocked
<1> HIDE DEF region
<1>3. Conflicts(Best) # {} /\ growth.region.override = {}
  BY DEF Retry
<1>4. Under(growth') /\ growth'.region = region /\ growth'.iter = 0 /\ growth'.side = 0
  BY <1>1, RoundUnder, JunctionsAssumption
<1>. QED  BY <1>2, <1>3, <1>4, JunctionsAssumption DEF Under, AttemptsLeft

WorkInv == clusters \in Seq(SUBSET Crossings(plan)) /\ (growth # Idle => Under(growth))

\* Sums with a product that no solver has to open.
Weight(n) == n * (12 * MaxGrowthIters + 2)
LEMMA WeightOfOne ==
  ASSUME NEW n \in Nat
  PROVE  Weight(n) \in Int /\ Weight(n + 1) = Weight(n) + 12 * MaxGrowthIters + 2
BY JunctionsAssumption DEF Weight

LEMMA VisitUses ==
  ASSUME WorkInv, clusters # <<>>, growth = Idle, clusters' = Tail(clusters), plan' = plan,
         synced' = synced, growth' = Idle \/ Under(growth')
  PROVE  WorkInv' /\ WorkLeft' < WorkLeft
<1>1. clusters' \in Seq(SUBSET Crossings(plan)) /\ Len(clusters') \in Nat /\ Len(clusters) = Len(clusters') + 1
  BY DEF WorkInv
<1>2. Weight(Len(clusters')) \in Int
      /\ Weight(Len(clusters)) = Weight(Len(clusters')) + 12 * MaxGrowthIters + 2
  BY <1>1, WeightOfOne
<1>3. growth' # Idle => AttemptsLeft(growth') \in 1 .. 12 * MaxGrowthIters + 1
  BY AttemptsLeftRange
<1>4. /\ WorkLeft = Weight(Len(clusters)) + (IF synced THEN 0 ELSE 1)
      /\ WorkLeft' = Weight(Len(clusters')) + (IF growth' = Idle THEN 0 ELSE AttemptsLeft(growth')) + (IF synced THEN 0 ELSE 1)
  BY <1>2, JunctionsAssumption DEF WorkLeft, Weight
<1>5. WorkLeft' < WorkLeft
  BY <1>2, <1>3, <1>4, JunctionsAssumption
<1>. QED  BY <1>1, <1>5 DEF WorkInv

LEMMA SolveUses ==
  ASSUME WorkInv, growth # Idle, clusters' = clusters, plan' = plan, synced' = synced,
         growth' = Idle \/ (Under(growth') /\ AttemptsLeft(growth') < AttemptsLeft(growth))
  PROVE  WorkInv' /\ WorkLeft' < WorkLeft
<1>1. Len(clusters) \in Nat /\ Weight(Len(clusters)) \in Int
  BY WeightOfOne DEF WorkInv
<1>2. /\ AttemptsLeft(growth) \in 1 .. 12 * MaxGrowthIters + 1
      /\ growth' # Idle => AttemptsLeft(growth') \in 1 .. 12 * MaxGrowthIters + 1
  BY AttemptsLeftRange DEF WorkInv
<1>3. /\ WorkLeft = Weight(Len(clusters)) + AttemptsLeft(growth) + (IF synced THEN 0 ELSE 1)
      /\ WorkLeft' = Weight(Len(clusters)) + (IF growth' = Idle THEN 0 ELSE AttemptsLeft(growth')) + (IF synced THEN 0 ELSE 1)
  BY <1>1, JunctionsAssumption DEF WorkLeft, Weight
<1>. QED  BY <1>1, <1>2, <1>3, JunctionsAssumption DEF WorkInv

LEMMA StepUses == WorkInv /\ Next => Stop \/ (WorkInv' /\ WorkLeft' < WorkLeft)
<1> SUFFICES ASSUME WorkInv, Next PROVE Stop \/ (WorkInv' /\ WorkLeft' < WorkLeft)
  OBVIOUS
<1>1. CASE SkipHandled \/ SetAside
  BY <1>1, VisitUses DEF SkipHandled, SetAside, Visiting
<1>2. CASE SolveCluster
  <2>1. Under(growth')
    BY <1>2, RoundUnder, JunctionsAssumption DEF SolveCluster, StartSolve
  <2>. QED  BY <1>2, <2>1, VisitUses DEF SolveCluster, Visiting
<1>3. CASE Attempt
  <2>1. growth # Idle /\ Under(growth)
    BY <1>3 DEF Attempt, WorkInv
  <2>2. Under(growth') /\ AttemptsLeft(growth') < AttemptsLeft(growth)
    BY <1>3, <2>1, AttemptUses, AttemptsLeftRange
  <2>. QED  BY <1>3, <2>1, <2>2, SolveUses DEF Attempt
<1>4. CASE Grow
  <2>1. growth # Idle /\ Under(growth)
    BY <1>4 DEF Grow, WorkInv
  <2>. QED  BY <1>4, <2>1, GrowUses, SolveUses DEF Grow
<1>5. CASE Retry
  <2>1. growth # Idle /\ Under(growth)
    BY <1>5 DEF Retry, Solved, WorkInv
  <2>. QED  BY <1>5, <2>1, RetryUses, SolveUses DEF Retry
<1>6. CASE Cap \/ CapAfterRetry
  BY <1>6, SolveUses DEF Cap, CapAfterRetry, GiveUp, Solved
<1>7. CASE Commit
  BY <1>7, SolveUses DEF Commit, Solved
<1>8. CASE Sync
  <2>1. Len(clusters) \in Nat /\ Weight(Len(clusters)) \in Int
    BY WeightOfOne DEF WorkInv
  <2>2. WorkLeft = Weight(Len(clusters)) + 1 /\ WorkLeft' = Weight(Len(clusters)) + 0
    BY <1>8, <2>1, JunctionsAssumption DEF Sync, WorkLeft, Weight
  <2>. QED  BY <1>8, <2>1, <2>2 DEF Sync, WorkInv
<1>. QED  BY <1>1, <1>2, <1>3, <1>4, <1>5, <1>6, <1>7, <1>8 DEF Next

LEMMA WorkIsNat ==
  ASSUME WorkInv
  PROVE  WorkLeft \in Nat
<1>1. Len(clusters) \in Nat
  BY DEF WorkInv
<1>2. Weight(Len(clusters)) \in Nat
  BY <1>1, JunctionsAssumption DEF Weight
<1>3. growth # Idle => AttemptsLeft(growth) \in Nat
  BY AttemptsLeftRange, JunctionsAssumption DEF WorkInv
<1>4. WorkLeft = Weight(Len(clusters)) + (IF growth = Idle THEN 0 ELSE AttemptsLeft(growth))
                 + (IF synced THEN 0 ELSE 1)
  BY DEF WorkLeft, Weight
<1>. QED  BY <1>2, <1>3, <1>4

LEMMA WorkHolds == Spec => []WorkInv
<1>1. Init => WorkInv
  <2> SUFFICES ASSUME Init PROVE WorkInv
    OBVIOUS
  <2>1. PICK p \in Plans : plan = p.plan
    BY DEF Init
  <2>2. WellFormed(p)
    BY JunctionsAssumption
  <2>. QED  BY <2>1, <2>2 DEF Init, WorkInv, WellFormed
<1>2. WorkInv /\ [Next]_vars => WorkInv'
  <2>1. WorkInv /\ UNCHANGED vars => WorkInv'
    BY DEF WorkInv, vars
  <2>. QED  BY <2>1, StepUses DEF Stop
<1>. QED  BY <1>1, <1>2, PTL DEF Spec

(* The work comes to an end on every layout, however many clusters there   *)
(* are and however often each grows: a step that changes anything takes    *)
(* from a count that is a whole number and never negative.                 *)
THEOREM WorkEnds == Spec => [](WorkLeft \in Nat) /\ WorkRunsOut
<1>1. WorkInv /\ [Next]_vars => [WorkLeft' < WorkLeft]_vars
  BY StepUses DEF Stop
<1>. QED  BY <1>1, WorkHolds, WorkIsNat, PTL DEF Spec, WorkRunsOut

-----------------------------------------------------------------------------
(* Crossings.                                                              *)

\* A cluster that is still to come, or being solved, or that an earlier
\* solution covers a tile of.
Followed(c) == \/ c \in ToSet(clusters)
               \/ growth # Idle /\ c = growth.cluster
               \/ c \intersect handled # {}

FollowInv ==
  \A t \in Crossings(plan) \ (handled \union remaining) :
    \E c \in ToSet(ClusterAdjacentCrossings(plan)) : t \in c /\ Followed(c)

LEMMA HeadAndTail ==
  ASSUME NEW S, NEW q \in Seq(S), q # <<>>
  PROVE  ToSet(q) = {Head(q)} \union ToSet(Tail(q))
<1>1. /\ Len(q) \in Nat \ {0} /\ DOMAIN q = 1 .. Len(q)
      /\ Tail(q) \in Seq(S) /\ Len(Tail(q)) = Len(q) - 1 /\ DOMAIN Tail(q) = 1 .. Len(q) - 1
      /\ \A i \in 1 .. Len(q) - 1 : Tail(q)[i] = q[i + 1]
  OBVIOUS
<1>2. Head(q) = q[1]
  OBVIOUS
<1>3. ASSUME NEW x \in ToSet(q) PROVE x \in {Head(q)} \union ToSet(Tail(q))
  <2>1. PICK i \in 1 .. Len(q) : x = q[i]
    BY <1>1, <1>3 DEF ToSet
  <2>2. CASE i = 1
    BY <1>2, <2>1, <2>2
  <2>3. CASE i # 1
    <3>1. i - 1 \in 1 .. Len(q) - 1 /\ Tail(q)[i - 1] = x
      BY <1>1, <2>1, <2>3
    <3>. QED  BY <1>1, <3>1 DEF ToSet
  <2>. QED  BY <2>2, <2>3
<1>4. ASSUME NEW x \in ToSet(Tail(q)) PROVE x \in ToSet(q)
  <2>1. PICK i \in 1 .. Len(q) - 1 : x = Tail(q)[i]
    BY <1>1, <1>4 DEF ToSet
  <2>2. i + 1 \in DOMAIN q /\ x = q[i + 1]
    BY <1>1, <2>1
  <2>. QED  BY <2>2 DEF ToSet
<1>5. Head(q) \in ToSet(q)
  BY <1>1, <1>2 DEF ToSet
<1>. QED  BY <1>3, <1>4, <1>5

(* A cluster is followed until its crossings are handled or left over.     *)
LEMMA StepFollows ==
  ASSUME FollowInv, WorkInv, Next
  PROVE  FollowInv'
<1> DEFINE All == ToSet(ClusterAdjacentCrossings(plan))
<1>0. plan' = plan
  BY DEF Next, SkipHandled, SetAside, SolveCluster, Attempt, Grow, Cap, GiveUp, Retry, CapAfterRetry,
         Commit, Sync, Stop, vars
<1>1. SUFFICES ASSUME NEW t \in Crossings(plan), t \notin handled', t \notin remaining'
               PROVE  \E c \in All : t \in c /\ Followed(c)'
  BY <1>0 DEF FollowInv
<1>2. handled \subseteq handled' /\ remaining \subseteq remaining'
  BY DEF Next, SkipHandled, SetAside, SolveCluster, Attempt, Grow, Cap, GiveUp, Retry, CapAfterRetry,
         Commit, Sync, Stop, vars
<1>3. PICK c \in All : t \in c /\ Followed(c)
  BY <1>1, <1>2 DEF FollowInv
<1>4. SUFFICES Followed(c)'
  BY <1>3
<1>5. CASE c \intersect handled # {}
  BY <1>2, <1>5 DEF Followed
<1>6. CASE c \in ToSet(clusters) /\ c \intersect handled = {}
  <2>1. CASE clusters' = clusters
    BY <1>6, <2>1 DEF Followed
  <2>2. CASE Visiting /\ clusters' = Tail(clusters)
    <3>1. c = Head(clusters) \/ c \in ToSet(clusters')
      BY <1>6, <2>2, HeadAndTail DEF Visiting, WorkInv
    <3>2. CASE c \in ToSet(clusters')
      BY <3>2 DEF Followed
    <3>3. CASE c = Head(clusters)
      <4>1. ~SkipHandled
        BY <1>6, <3>3 DEF SkipHandled
      <4>2. ~SetAside
        BY <1>1, <1>3, <3>3 DEF SetAside
      <4>3. CASE SolveCluster
        <5>1. growth' # Idle /\ growth'.cluster = Head(clusters)
          <6>1. growth' = Round(Head(clusters), FromCrossings(plan, placed, Head(clusters), {}), 0)
            BY <4>3 DEF SolveCluster, StartSolve
          <6>2. 0 \in 0 .. MaxGrowthIters - 1
            BY JunctionsAssumption
          <6>. QED  BY <6>1, <6>2, RoundUnder DEF Under
        <5>. QED  BY <3>3, <5>1 DEF Followed
      <4>4. CASE ~SolveCluster
        <5>1. clusters' = clusters
          BY <4>1, <4>2, <4>4 DEF Next, Attempt, Grow, Cap, GiveUp, Retry, CapAfterRetry, Commit, Sync, Stop, vars
        <5>. QED  BY <2>1, <5>1
      <4>. QED  BY <4>3, <4>4
    <3>. QED  BY <3>1, <3>2, <3>3
  <2>. QED
    BY <2>1, <2>2 DEF Next, SkipHandled, SetAside, SolveCluster, Attempt, Grow, Cap, GiveUp, Retry,
         CapAfterRetry, Commit, Sync, Stop, vars
<1>7. CASE growth # Idle /\ c = growth.cluster
  <2>1. CASE growth' = growth
    BY <1>7, <2>1 DEF Followed
  <2>2. CASE Attempt
    <3>1. growth' # Idle /\ growth'.cluster = growth.cluster
      BY <1>7, <2>2, AttemptUses DEF WorkInv, Under
    <3>. QED  BY <1>7, <3>1 DEF Followed
  <2>3. CASE Grow
    <3>1. growth.iter + 1 \in 0 .. MaxGrowthIters - 1
      BY <1>7, <2>3, JunctionsAssumption DEF Grow, WorkInv, Under
    <3>2. growth' # Idle /\ growth'.cluster = growth.cluster
      BY <2>3, <3>1, RoundUnder DEF Grow, Under
    <3>. QED  BY <1>7, <3>2 DEF Followed
  <2>4. CASE Retry
    <3>1. 0 \in 0 .. MaxGrowthIters - 1
      BY JunctionsAssumption
    <3>2. growth' # Idle /\ growth'.cluster = growth.cluster
      BY <2>4, <3>1, RoundUnder DEF Retry, StartSolve, Under
    <3>. QED  BY <1>7, <3>2 DEF Followed
  <2>5. CASE Cap \/ CapAfterRetry
    BY <1>1, <1>3, <1>7, <2>5 DEF Cap, CapAfterRetry, GiveUp
  <2>6. CASE Commit
    BY <1>1, <1>3, <1>7, <2>6 DEF Commit
  <2>7. CASE SkipHandled \/ SetAside \/ SolveCluster
    BY <1>7, <2>7 DEF SkipHandled, SetAside, SolveCluster, Visiting
  <2>8. CASE Sync \/ Stop
    BY <2>1, <2>8 DEF Sync, Stop, vars
  <2>. QED  BY <2>2, <2>3, <2>4, <2>5, <2>6, <2>7, <2>8 DEF Next
<1>. QED  BY <1>3, <1>5, <1>6, <1>7 DEF Followed

(* However many clusters there are and whatever becomes of each, a         *)
(* crossing that is neither solved nor left over shares its cluster with   *)
(* one that a solution covers.                                             *)
THEOREM NoneLostAlone == Spec => []LostOnlyBesideSolved
<1>1. Init => FollowInv
  <2> SUFFICES ASSUME Init PROVE FollowInv
    OBVIOUS
  <2>1. PICK p \in Plans : plan = p.plan
    BY DEF Init
  <2>2. Crossings(plan) \subseteq UNION ToSet(ClusterAdjacentCrossings(plan))
    BY <2>1, JunctionsAssumption DEF WellFormed
  <2>3. clusters = ClusterAdjacentCrossings(plan)
    BY DEF Init
  <2>. QED  BY <2>2, <2>3 DEF FollowInv, Followed
<1>2. FollowInv /\ WorkInv /\ [Next]_vars => FollowInv'
  <2>1. FollowInv /\ UNCHANGED vars => FollowInv'
    BY DEF FollowInv, Followed, vars
  <2>. QED  BY <2>1, StepFollows
<1>3. FollowInv /\ IInv => LostOnlyBesideSolved
  <2> SUFFICES ASSUME FollowInv, IInv, synced, NEW t \in Crossings(plan) \ (handled \union remaining)
               PROVE  \E c \in ToSet(ClusterAdjacentCrossings(plan)) : t \in c /\ c \intersect handled # {}
    BY DEF LostOnlyBesideSolved
  <2>1. growth = Idle /\ ToSet(clusters) = {}
    BY DEF IInv, Safe, GrowthInv, SyncInv, ToSet
  <2>. QED  BY <2>1 DEF FollowInv, Followed
<1>. QED  BY <1>1, <1>2, <1>3, Inductive, WorkHolds, PTL DEF Spec

-----------------------------------------------------------------------------
(* The list and the claims.                                                *)

AgreeInv ==
  /\ growth # Idle => ~panicked
  /\ ~panicked /\ ~synced => Agree(placed, claims)

(* What is listed of one solution differs in its tiles.                    *)
LEMMA ListedApart ==
  ASSUME NEW ents, OneEntityPerTile(ents), NEW a \in NewlyListed(ents), NEW b \in NewlyListed(ents),
         a.tile = b.tile
  PROVE  a = b
<1> DEFINE n == 1 + Max({g.at : g \in placed})
<1> HIDE DEF n
<1>1. PICK f \in ents : a = Listed(f, n)
  BY DEF NewlyListed, n
<1>2. PICK g \in ents : b = Listed(g, n)
  BY DEF NewlyListed, n
<1>3. f.tile = g.tile
  BY <1>1, <1>2 DEF Listed
<1>. QED  BY <1>1, <1>2, <1>3 DEF OneEntityPerTile

(* A commit that does not panic keeps the two in agreement: what it        *)
(* releases is kept by neither, and what it stamps is new in both.         *)
LEMMA CommitAgrees ==
  ASSUME Commit, GrowthInv, Agree(placed, claims), ~panicked'
  PROVE  Agree(placed', claims')
<1> DEFINE zone == TilesOf(Best.region.box)
           released == ReleaseForTemplate(claims, zone, Preserve(Best))
           freed == ReleaseTiles(released, Upgrades(Best))
           stamped == NewlyListed(Stamped(Best, released))
           New(t) == \E e \in stamped : e.tile = t
           Old(t) == /\ ~New(t) /\ t \in DOMAIN claims /\ t \in DOMAIN claims' /\ claims'[t] = claims[t]
                     /\ t \notin Upgrades(Best)
<1>1. /\ claims' = Place(freed, stamped, "template")
      /\ placed' = {e \in placed : e.tile \notin Upgrades(Best)} \union stamped
      /\ \A e \in stamped : CanPlace(freed, e.tile)
      /\ OneEntityPerTile(Stamped(Best, released))
  BY DEF Commit, Solved, GrowthInv, Stamped, OneEntityPerTile
<1>2. /\ \A t \in DOMAIN freed : t \in DOMAIN claims /\ freed[t] = claims[t] /\ t \notin Upgrades(Best)
      /\ \A t \in DOMAIN claims : t \notin Upgrades(Best) /\ ~Releasable(claims, t, Preserve(Best)) => t \in DOMAIN freed
  BY DEF ReleaseTiles, ReleaseForTemplate
<1>3. \A e \in stamped : e.seg = "crossing"
  BY ListedIsStamped
<1> HIDE DEF zone, released, freed, stamped
<1>4. ASSUME NEW t, New(t)
      PROVE  /\ t \in DOMAIN claims' /\ claims'[t].kind = "template"
             /\ claims'[t].e \in stamped /\ claims'[t].e.tile = t
  <2> DEFINE new == CHOOSE e \in stamped : e.tile = t
  <2>1. new \in stamped /\ new.tile = t
    BY <1>4
  <2>2. t \in DOMAIN claims' /\ claims'[t] = [kind |-> "template", e |-> new]
    BY <1>1, <2>1 DEF Place
  <2> HIDE DEF new
  <2>. QED  BY <2>1, <2>2
<1>5. ASSUME NEW t \in DOMAIN claims', ~New(t)
      PROVE  Old(t)
  <2>1. t \in DOMAIN freed /\ claims'[t] = freed[t]
    BY <1>1, <1>5 DEF Place
  <2>. QED  BY <1>2, <1>5, <2>1
<1>6. ASSUME NEW t \in DOMAIN freed, ~New(t)
      PROVE  Old(t)
  <2>1. t \in DOMAIN claims'
    BY <1>1 DEF Place
  <2>. QED  BY <1>5, <1>6, <2>1
<1> HIDE DEF New
<1>7. ASSUME NEW t \in DOMAIN claims', claims'[t].kind \notin {"hard", "row"}
      PROVE  /\ claims'[t].e \in placed' /\ claims'[t].e.tile = t
             /\ claims'[t].e.seg = "ghost" <=> claims'[t].kind = "ghost"
             /\ claims'[t].e.seg \in {"trunk", "tapoff", "balancer"} => claims'[t].kind = "permanent"
  <2>1. CASE New(t)
    BY <1>1, <1>3, <1>4, <2>1
  <2>2. CASE ~New(t)
    BY <1>1, <1>5, <1>7, <2>2 DEF Agree
  <2>. QED  BY <2>1, <2>2
<1>8. ASSUME NEW e \in placed', Kept(claims', e)
      PROVE  e.tile \in DOMAIN claims' /\ claims'[e.tile].kind \notin {"hard", "row"} /\ claims'[e.tile].e = e
  <2>1. CASE e \in stamped
    <3>1. New(e.tile)
      BY <2>1 DEF New
    <3>2. claims'[e.tile].e = e
      BY <1>1, <1>4, <2>1, <3>1, ListedApart DEF stamped
    <3>. QED  BY <1>4, <3>1, <3>2
  <2>2. CASE e \notin stamped
    <3>1. e \in placed /\ e.tile \notin Upgrades(Best)
      BY <1>1, <2>2
    <3>2. CASE e.seg \in {"ghost", "trunk", "tapoff", "balancer"}
      <4>1. e.tile \in DOMAIN claims' /\ claims'[e.tile].kind # "template"
        BY <1>8, <3>2 DEF Kept, Claimed
      <4>2. Old(e.tile)
        BY <1>4, <1>5, <4>1
      <4>3. Kept(claims, e)
        BY <1>8, <4>2 DEF Kept, Claimed
      <4>. QED  BY <3>1, <4>2, <4>3 DEF Agree
    <3>3. CASE e.seg \notin {"ghost", "trunk", "tapoff", "balancer"}
      <4>1. Kept(claims, e)
        BY <3>3 DEF Kept
      <4>2. e.tile \in DOMAIN claims /\ claims[e.tile].kind \notin {"hard", "row"} /\ claims[e.tile].e = e
        BY <3>1, <4>1 DEF Agree
      <4>3. claims[e.tile].kind # "ghost" /\ ~Releasable(claims, e.tile, Preserve(Best))
        BY <3>3, <4>2 DEF Agree, Releasable
      <4>4. e.tile \in DOMAIN freed /\ freed[e.tile].kind # "ghost"
        BY <1>2, <3>1, <4>2, <4>3
      <4>5. ~New(e.tile)
        BY <1>1, <4>4 DEF New, CanPlace, Claimed
      <4>. QED  BY <1>6, <4>2, <4>4, <4>5
    <3>. QED  BY <3>2, <3>3
  <2>. QED  BY <2>1, <2>2
<1>. QED  BY <1>7, <1>8 DEF Agree

(* What is kept of a list that agrees with the claims is what is claimed.  *)
LEMMA KeptIsClaimed ==
  ASSUME Agree(placed, claims)
  PROVE  {e \in placed : Kept(claims, e)}
           = {claims[t].e : t \in {u \in DOMAIN claims : claims[u].kind \notin {"hard", "row"}}}
<1>1. ASSUME NEW e \in placed, Kept(claims, e)
      PROVE  \E t \in DOMAIN claims : claims[t].kind \notin {"hard", "row"} /\ e = claims[t].e
  BY <1>1 DEF Agree
<1>2. ASSUME NEW t \in DOMAIN claims, claims[t].kind \notin {"hard", "row"}
      PROVE  claims[t].e \in placed /\ Kept(claims, claims[t].e)
  BY <1>2 DEF Agree, Kept, Claimed
<1>. QED  BY <1>1, <1>2

(* After any number of solutions, retries and upgrades the list that the   *)
(* router returns and the occupancy tell of the same layout, if they did   *)
(* when the clusters were formed.                                          *)
THEOREM ListIsTrue == Spec => []ListMatchesClaims
<1>1. Init => AgreeInv /\ ListMatchesClaims
  <2> SUFFICES ASSUME Init PROVE AgreeInv /\ ListMatchesClaims
    OBVIOUS
  <2>1. PICK p \in Plans : placed = p.placed /\ claims = p.claims
    BY DEF Init
  <2>. QED  BY <2>1, JunctionsAssumption DEF Init, WellFormed, AgreeInv, ListMatchesClaims
<1>2. ASSUME IInv, AgreeInv, ListMatchesClaims, [Next]_vars
      PROVE  AgreeInv' /\ ListMatchesClaims'
  <2>1. CASE UNCHANGED <<placed, claims, panicked, synced>> /\ (growth # Idle \/ growth' = growth \/ ~panicked)
    BY <1>2, <2>1 DEF AgreeInv, ListMatchesClaims
  <2>2. CASE Commit
    <3>1. ~synced /\ ~synced' /\ ~panicked /\ growth' = Idle /\ GrowthInv
      BY <1>2, <2>2 DEF Commit, Solved, IInv, Safe, GrowthInv, AgreeInv
    <3>. QED  BY <1>2, <2>2, <3>1, CommitAgrees DEF AgreeInv, ListMatchesClaims
  <2>3. CASE Sync
    BY <1>2, <2>3, KeptIsClaimed DEF Sync, AgreeInv, ListMatchesClaims
  <2>. QED
    BY <1>2, <2>1, <2>2, <2>3 DEF Next, SkipHandled, SetAside, SolveCluster, Visiting, Attempt, Grow, Cap,
         GiveUp, Retry, CapAfterRetry, Solved, Stop, vars
<1>. QED  BY <1>1, <1>2, Inductive, PTL DEF Spec

-----------------------------------------------------------------------------
(* Splitters. What excuses a tile from being an obstacle is that a flow    *)
(* enters or leaves the region there, and that is a tile of a path: where  *)
(* no path runs over the splitters of balancers, every region keeps off    *)
(* them, and a commit that finds one forbidden preserves it.               *)

(* A finite set of numbers has a least and a greatest one.                 *)
LEMMA Bounds ==
  ASSUME NEW S, S \subseteq Int, S # {}, IsFiniteSet(S)
  PROVE  /\ Min(S) \in S /\ \A y \in S : Min(S) <= y
         /\ Max(S) \in S /\ \A y \in S : y <= Max(S)
<1> DEFINE Bounded(R) == /\ \E x \in R : \A y \in R : x <= y
                         /\ \E x \in R : \A y \in R : y <= x
           Sizes == {n \in Nat : \E R \in SUBSET S : R # {} /\ ~Bounded(R) /\ Cardinality(R) = n}
           Smaller == OpToRel(<, Nat)
<1>1. Bounded(S)
  <2> SUFFICES ASSUME ~Bounded(S) PROVE FALSE
    OBVIOUS
  <2>1. Cardinality(S) \in Nat
    BY FS_CardinalityType
  <2>2. Sizes # {} /\ Sizes \subseteq Nat
    BY <2>1
  <2>3. Smaller = {ss \in Nat \X Nat : ss[1] < ss[2]} /\ IsWellFoundedOn(Smaller, Nat)
    BY NatLessThanWellFounded DEF OpToRel
  <2>4. PICK n \in Sizes : \A m \in Sizes : <<m, n>> \notin Smaller
    <3> HIDE DEF Sizes, Smaller
    <3>. QED  BY <2>2, <2>3, WFMin
  <2>5. \A m \in Sizes : ~(m < n)
    <3> HIDE DEF Smaller
    <3>1. \A m \in Sizes : m \in Nat /\ n \in Nat
      OBVIOUS
    <3>. HIDE DEF Sizes
    <3>. QED  BY <2>3, <2>4, <3>1
  <2>6. PICK R \in SUBSET S : R # {} /\ ~Bounded(R) /\ Cardinality(R) = n
    OBVIOUS
  <2>7. IsFiniteSet(R)
    BY FS_Subset
  <2>8. PICK x \in R : TRUE
    BY <2>6
  <2> DEFINE Rest == R \ {x}
  <2>9. Cardinality(Rest) = n - 1 /\ Cardinality(Rest) \in Nat
    <3>1. IsFiniteSet(Rest) /\ Cardinality(Rest) = Cardinality(R) - 1
      BY <2>7, <2>8, FS_RemoveElement
    <3>. QED  BY <2>6, <3>1, FS_CardinalityType
  <2>10. Rest = {} \/ Bounded(Rest)
    <3> SUFFICES ASSUME Rest # {}, ~Bounded(Rest) PROVE FALSE
      OBVIOUS
    <3>1. n - 1 \in Sizes
      BY <2>9
    <3>2. n \in Nat
      OBVIOUS
    <3> HIDE DEF Sizes, Rest, Bounded
    <3>. QED  BY <2>5, <3>1, <3>2
  <2>11. CASE Rest = {}
    <3>1. R = {x} /\ x \in Int
      BY <2>8, <2>11
    <3>2. Bounded({x})
      BY <3>1
    <3>. QED  BY <2>6, <3>1, <3>2
  <2>12. CASE Bounded(Rest)
    <3>1. R \subseteq Int
      OBVIOUS
    <3>2. PICK low \in Rest : \A y \in Rest : low <= y
      BY <2>12
    <3>3. PICK high \in Rest : \A y \in Rest : y <= high
      BY <2>12
    <3>4. \E z \in R : \A y \in R : z <= y
      <4>1. CASE x <= low
        BY <2>8, <3>1, <3>2, <4>1
      <4>2. CASE ~(x <= low)
        BY <2>8, <3>1, <3>2, <4>2
      <4>. QED  BY <4>1, <4>2
    <3>5. \E z \in R : \A y \in R : y <= z
      <4>1. CASE high <= x
        BY <2>8, <3>1, <3>3, <4>1
      <4>2. CASE ~(high <= x)
        BY <2>8, <3>1, <3>3, <4>2
      <4>. QED  BY <4>1, <4>2
    <3>. QED  BY <2>6, <3>4, <3>5
  <2>. QED  BY <2>10, <2>11, <2>12
<1>2. Min(S) \in S /\ \A y \in S : Min(S) <= y
  BY <1>1 DEF Min
<1>3. PICK x \in S : \A y \in S : y <= x
  BY <1>1
<1>4. \A y \in S : x >= y
  BY <1>3
<1>5. Max(S) \in S /\ \A y \in S : Max(S) >= y
  BY <1>4 DEF Max
<1>. QED  BY <1>2, <1>5


\* Splitters are obstacles off all paths, and listed as no belts.
SplittersInv ==
  ~synced => \A t \in DOMAIN claims :
               BalancerSplitter(claims, t) => /\ t \in plan.obstacles /\ SpecsAt(plan, t) = {}
                                              /\ \A e \in Here(placed, t) : e.kind # "belt"

\* A region that may not build on the splitters it holds, and knows its specs.
KeepsOff(region) ==
  /\ DOMAIN region.span \subseteq DOMAIN plan.path
  /\ \A t \in DOMAIN claims : BalancerSplitter(claims, t) /\ t \in TilesOf(region.box) => t \in region.forbidden

RegionsInv ==
  growth # Idle => /\ KeepsOff(growth.region)
                   /\ growth.best # <<>> => KeepsOff(Best.region)

(* A function takes finitely many values on a finite set.                  *)
LEMMA ImageIsFinite ==
  ASSUME NEW f, IsFiniteSet(DOMAIN f)
  PROVE  IsFiniteSet({f[x] : x \in DOMAIN f})
<1> DEFINE T == {f[x] : x \in DOMAIN f}
           g == [x \in DOMAIN f |-> f[x]]
<1>1. g \in Surjection(DOMAIN f, T)
  BY DEF Surjection
<1> HIDE DEF T, g
<1>2. IsFiniteSet(T)
  BY <1>1, FS_Surjection
<1>. QED  BY <1>2 DEF T

(* Where a path enters a box and leaves it are tiles of the path.          *)
LEMMA EndsOnPath ==
  ASSUME NEW path \in Seq(Int \X Int), NEW box, InBox(path, box) # {}
  PROVE  First(path, box) \in DOMAIN path /\ Final(path, box) \in DOMAIN path
<1>1. Len(path) \in Nat /\ DOMAIN path = 1 .. Len(path)
  OBVIOUS
<1>2. IsFiniteSet(1 .. Len(path))
  BY <1>1, FS_Interval
<1>3. InBox(path, box) \subseteq 1 .. Len(path)
  BY <1>1 DEF InBox
<1>4. IsFiniteSet(InBox(path, box))
  BY <1>2, <1>3, FS_Subset
<1>5. InBox(path, box) \subseteq Int
  BY <1>1, <1>3
<1>. QED  BY <1>1, <1>3, <1>4, <1>5, Bounds DEF First, Final

(* The ports of a region lie on paths, so they excuse no splitter.         *)
LEMMA PortsOnPaths ==
  ASSUME IsPlan(plan), NEW box, NEW span, DOMAIN span \subseteq DOMAIN plan.path,
         \A s \in DOMAIN span : {span[s][1], span[s][2]} \subseteq DOMAIN plan.path[s],
         NEW t \in PortTiles(plan, placed, box, span)
  PROVE  SpecsAt(plan, t) # {}
<1>1. ASSUME NEW s \in DOMAIN plan.path, NEW i \in DOMAIN plan.path[s], t = plan.path[s][i]
      PROVE  SpecsAt(plan, t) # {}
  BY <1>1 DEF SpecsAt, ToSet
<1>2. CASE \E s \in DOMAIN span : t \in {plan.path[s][span[s][1]], plan.path[s][span[s][2]]}
  BY <1>1, <1>2
<1>3. CASE \E s \in Encountered(plan, box, DOMAIN span) : t \in Ends(plan.path[s], box)
  <2>1. PICK s \in DOMAIN plan.path : InBox(plan.path[s], box) # {} /\ t \in Ends(plan.path[s], box)
    BY <1>3 DEF Encountered
  <2>2. /\ First(plan.path[s], box) \in DOMAIN plan.path[s]
        /\ Final(plan.path[s], box) \in DOMAIN plan.path[s]
    BY <2>1, EndsOnPath DEF IsPlan
  <2>. QED  BY <1>1, <2>1, <2>2 DEF Ends
<1>. QED  BY <1>2, <1>3 DEF PortTiles

(* Whatever is promoted, the splitters of balancers are forbidden.         *)
LEMMA PromotedKeepsOff ==
  ASSUME IsPlan(plan), SplittersInv, ~synced, NEW box, NEW span, NEW override, DOMAIN span \subseteq DOMAIN plan.path,
         \A s \in DOMAIN span : {span[s][1], span[s][2]} \subseteq DOMAIN plan.path[s]
  PROVE  KeepsOff(PromoteBlocked(plan, placed, box, span, override))
<1> DEFINE r == PromoteBlocked(plan, placed, box, span, override)
<1>1. r.box = box /\ r.forbidden = RefreshForbidden(plan, placed, box, span, override)
  BY DEF PromoteBlocked
<1>2. DOMAIN r.span \subseteq DOMAIN plan.path
  <2>1. PICK blocked \in SUBSET Encountered(plan, box, DOMAIN span) :
               DOMAIN r.span = DOMAIN span \union blocked
    BY DEF PromoteBlocked
  <2>. QED  BY <2>1 DEF Encountered
<1>3. ASSUME NEW t \in DOMAIN claims, BalancerSplitter(claims, t), t \in TilesOf(box)
      PROVE  t \in r.forbidden
  <2>1. t \in plan.obstacles /\ SpecsAt(plan, t) = {} /\ \A e \in Here(placed, t) : e.kind # "belt"
    BY <1>3 DEF SplittersInv
  <2>2. t \notin PortTiles(plan, placed, box, span)
    BY <2>1, PortsOnPaths
  <2>3. ~Rebuildable(placed, t)
    BY <2>1 DEF Rebuildable
  <2>. QED  BY <1>1, <1>3, <2>1, <2>2, <2>3 DEF RefreshForbidden
<1>. QED  BY <1>1, <1>2, <1>3 DEF KeepsOff

(* The tiles of a cluster lie in the box round them.                       *)
LEMMA InsideAround ==
  ASSUME NEW tiles, tiles \subseteq Int \X Int, IsFiniteSet(tiles), NEW t \in tiles
  PROVE  In(t, Around(tiles))
<1> DEFINE xs == {u[1] : u \in tiles}
           ys == {u[2] : u \in tiles}
<1>1. IsFiniteSet(xs)
  <2> DEFINE x == [u \in tiles |-> u[1]]
  <2>1. IsFiniteSet({x[u] : u \in DOMAIN x})
    <3>1. DOMAIN x = tiles
      OBVIOUS
    <3> HIDE DEF x
    <3>. QED  BY <3>1, ImageIsFinite
  <2>. QED  BY <2>1
<1>2. IsFiniteSet(ys)
  <2> DEFINE y == [u \in tiles |-> u[2]]
  <2>1. IsFiniteSet({y[u] : u \in DOMAIN y})
    <3>1. DOMAIN y = tiles
      OBVIOUS
    <3> HIDE DEF y
    <3>. QED  BY <3>1, ImageIsFinite
  <2>. QED  BY <2>1
<1>3. xs \subseteq Int /\ ys \subseteq Int /\ t[1] \in xs /\ t[2] \in ys
  OBVIOUS
<1>4. /\ Around(tiles).l = Min(xs) /\ Around(tiles).r = Max(xs)
      /\ Around(tiles).t = Min(ys) /\ Around(tiles).b = Max(ys)
  BY DEF Around
<1> HIDE DEF xs, ys
<1>5. Min(xs) \in Int /\ Max(xs) \in Int /\ Min(xs) <= t[1] /\ t[1] <= Max(xs)
  BY <1>1, <1>3, Bounds
<1>6. Min(ys) \in Int /\ Max(ys) \in Int /\ Min(ys) <= t[2] /\ t[2] <= Max(ys)
  BY <1>2, <1>3, Bounds
<1>. QED  BY <1>3, <1>4, <1>5, <1>6 DEF In

(* There are finitely many crossings, and each is a tile.                  *)
LEMMA CrossingsFinite ==
  ASSUME IsPlan(plan)
  PROVE  Crossings(plan) \subseteq Int \X Int /\ IsFiniteSet(Crossings(plan))
<1> DEFINE sets == {ToSet(plan.path[s]) : s \in DOMAIN plan.path}
<1>1. ASSUME NEW s \in DOMAIN plan.path
      PROVE  IsFiniteSet(ToSet(plan.path[s])) /\ ToSet(plan.path[s]) \subseteq Int \X Int
  <2> DEFINE path == plan.path[s]
             on == {path[i] : i \in DOMAIN path}
  <2>1. path \in Seq(Int \X Int) /\ Len(path) \in Nat /\ DOMAIN path = 1 .. Len(path)
    BY DEF IsPlan
  <2>2. IsFiniteSet(1 .. Len(path))
    BY <2>1, FS_Interval
  <2>3. IsFiniteSet(DOMAIN path)
    BY <2>1, <2>2
  <2>4. IsFiniteSet(on)
    <3> HIDE DEF path
    <3>. QED  BY <2>3, ImageIsFinite
  <2>5. on \subseteq Int \X Int
    BY <2>1
  <2>6. ToSet(path) = on
    BY DEF ToSet
  <2>. QED  BY <2>4, <2>5, <2>6
<1>2. IsFiniteSet(sets)
  <2> DEFINE on == [s \in DOMAIN plan.path |-> ToSet(plan.path[s])]
  <2>1. DOMAIN on = DOMAIN plan.path /\ sets = {on[s] : s \in DOMAIN on}
    OBVIOUS
  <2> HIDE DEF on, sets
  <2>. QED  BY <2>1, ImageIsFinite DEF IsPlan
<1>3. \A S \in sets : IsFiniteSet(S) /\ S \subseteq Int \X Int
  BY <1>1
<1>4. IsFiniteSet(UNION sets)
  <2> HIDE DEF sets
  <2>. QED  BY <1>2, <1>3, FS_UNION
<1>5. Crossings(plan) \subseteq UNION sets
  BY DEF Crossings
<1>. QED  BY <1>3, <1>4, <1>5, FS_Subset

(* So the first region of a cluster keeps off.                             *)
LEMMA FirstKeepsOff ==
  ASSUME IsPlan(plan), SplittersInv, ~synced, NEW cluster, cluster \subseteq Crossings(plan), NEW override
  PROVE  KeepsOff(FromCrossings(plan, placed, cluster, override))
<1> DEFINE box == Around(cluster)
           specs == {s \in BeltSpecs(plan) : \E i \in DOMAIN plan.path[s] : plan.path[s][i] \in cluster}
           entered == [s \in specs |-> <<First(plan.path[s], box), First(plan.path[s], box)>>]
<1>1. cluster \subseteq Int \X Int /\ IsFiniteSet(cluster)
  BY CrossingsFinite, FS_Subset
<1>2. specs \subseteq DOMAIN plan.path
  BY DEF BeltSpecs
<1>3. ASSUME NEW s \in specs
      PROVE  First(plan.path[s], box) \in DOMAIN plan.path[s]
  <2>1. PICK i \in DOMAIN plan.path[s] : plan.path[s][i] \in cluster
    OBVIOUS
  <2>2. i \in InBox(plan.path[s], box)
    BY <1>1, <2>1, InsideAround DEF InBox
  <2>. QED  BY <1>2, <2>2, EndsOnPath DEF IsPlan
<1>4. DOMAIN entered \subseteq DOMAIN plan.path
  BY <1>2
<1>5. \A s \in DOMAIN entered : {entered[s][1], entered[s][2]} \subseteq DOMAIN plan.path[s]
  BY <1>3
<1>6. FromCrossings(plan, placed, cluster, override) = PromoteBlocked(plan, placed, box, entered, override)
  BY DEF FromCrossings
<1> HIDE DEF entered
<1>. QED  BY <1>4, <1>5, <1>6, PromotedKeepsOff

(* A region that has kept off keeps off as it grows.                       *)
LEMMA ExpandedKeepsOff ==
  ASSUME IsPlan(plan), SplittersInv, ~synced, NEW region, NEW by, KeepsOff(region)
  PROVE  KeepsOff(ExpandBbox(plan, placed, region, by))
<1> DEFINE more == Clamped(region.box, by, plan.protected)
           box == [l |-> region.box.l - more.l, t |-> region.box.t - more.t,
                   r |-> region.box.r + more.r, b |-> region.box.b + more.b]
<1>1. CASE more = Nothing
  BY <1>1 DEF ExpandBbox
<1>2. CASE more # Nothing
  <2>1. PICK S : /\ S \subseteq {s \in DOMAIN region.span \union BeltSpecs(plan) : Crosses(plan.path[s], box)}
                 /\ ExpandBbox(plan, placed, region, by)
                      = PromoteBlocked(plan, placed, box, [s \in S |-> Span(plan.path[s], box)], region.override)
    BY <1>2 DEF ExpandBbox
  <2> DEFINE span == [s \in S |-> Span(plan.path[s], box)]
  <2>2. S \subseteq DOMAIN plan.path
    BY <2>1 DEF BeltSpecs, KeepsOff
  <2>3. ASSUME NEW s \in S PROVE {span[s][1], span[s][2]} \subseteq DOMAIN plan.path[s]
    <3>1. InBox(plan.path[s], box) # {}
      BY <2>1 DEF Crosses
    <3> HIDE DEF box
    <3>. QED  BY <2>2, <3>1, EndsOnPath DEF IsPlan, Span
  <2>4. DOMAIN span = S
    OBVIOUS
  <2>5. ExpandBbox(plan, placed, region, by) = PromoteBlocked(plan, placed, box, span, region.override)
    BY <2>1
  <2> HIDE DEF box, span
  <2>. QED  BY <2>2, <2>3, <2>4, <2>5, PromotedKeepsOff
<1>. QED  BY <1>1, <1>2


(* An attempt keeps the region, and the best solution or one that it found *)
(* in the region or in one a side larger.                                  *)
LEMMA AttemptKeeps ==
  ASSUME Attempt, WorkInv
  PROVE  /\ growth'.region = growth.region /\ growth'.cluster = growth.cluster
         /\ \/ growth'.best = growth.best
            \/ growth'.best[1].region \in Tried(growth)
<1> DEFINE Fine(h) == /\ h.region = growth.region /\ h.cluster = growth.cluster
                      /\ h.best = growth.best \/ h.best[1].region \in Tried(growth)
<1>1. ASSUME NEW veto, NEW deferred, NEW asked, NEW refused, NEW best,
             best = growth.best \/ best[1].region \in Tried(growth)
      PROVE  Fine(After(growth, best, veto, deferred, asked, refused))
  BY <1>1 DEF After
<1>2. ASSUME NEW v \in Tried(growth), NEW h \in Outcomes(growth, v)
      PROVE  Fine(h)
  <2> DEFINE ports == Boundaries(placed, v, ToJunction(plan, v))
  <2>1. \/ \E veto, deferred, asked, refused : h = After(growth, growth.best, veto, deferred, asked, refused)
        \/ \E sol \in Solutions(plan, v, ports) :
             h = After(growth, <<[ents |-> sol, region |-> v, ports |-> ports]>>, {}, FALSE, 1, 0)
    BY DEF Outcomes
  <2>2. CASE \E veto, deferred, asked, refused : h = After(growth, growth.best, veto, deferred, asked, refused)
    <3>1. PICK veto, deferred, asked, refused : h = After(growth, growth.best, veto, deferred, asked, refused)
      BY <2>2
    <3>. QED  BY <1>1, <3>1
  <2>3. CASE \E sol \in Solutions(plan, v, ports) :
               h = After(growth, <<[ents |-> sol, region |-> v, ports |-> ports]>>, {}, FALSE, 1, 0)
    <3>1. PICK sol \in Solutions(plan, v, ports) :
            h = After(growth, <<[ents |-> sol, region |-> v, ports |-> ports]>>, {}, FALSE, 1, 0)
      BY <2>3
    <3>2. <<[ents |-> sol, region |-> v, ports |-> ports]>>[1].region \in Tried(growth)
      OBVIOUS
    <3>. QED  BY <1>1, <3>1, <3>2
  <2>. QED  BY <2>1, <2>2, <2>3
<1>3. Fine(growth')
  <2>1. CASE growth' = After(growth, growth.best, {}, FALSE, 0, 0)
    <3>1. Fine(After(growth, growth.best, {}, FALSE, 0, 0))
      BY <1>1
    <3> HIDE DEF Fine
    <3>. QED  BY <2>1, <3>1
  <2>2. CASE \E v \in Tried(growth) : growth' \in Outcomes(growth, v)
    BY <1>2, <2>2
  <2>3. \/ growth' = After(growth, growth.best, {}, FALSE, 0, 0)
        \/ \E v \in Tried(growth) : growth' \in Outcomes(growth, v)
    BY DEF Attempt
  <2>. QED  BY <2>1, <2>2, <2>3
<1>. QED  BY <1>3

(* A commit neither releases a splitter nor lays anything on it.           *)
LEMMA CommitSparesSplitters ==
  ASSUME Commit, IInv, RegionsInv, NEW t \in DOMAIN claims, BalancerSplitter(claims, t)
  PROVE  Stays(t) /\ Here(placed', t) = Here(placed, t)
<1> DEFINE zone == TilesOf(Best.region.box)
           released == ReleaseForTemplate(claims, zone, Preserve(Best))
           freed == ReleaseTiles(released, Upgrades(Best))
           stamped == NewlyListed(Stamped(Best, released))
<1>1. /\ claims' = Place(freed, stamped, "template")
      /\ placed' = {e \in placed : e.tile \notin Upgrades(Best)} \union stamped
      /\ KeepsOff(Best.region) /\ Allowed(Best.ents, Best.region)
  BY DEF Commit, Solved, IInv, Safe, GrowthInv, RegionsInv
<1>2. t \in zone => t \in Best.region.forbidden
  BY <1>1 DEF KeepsOff
<1>3. \A e \in Best.ents : e.tile # t
  BY <1>1, <1>2 DEF Allowed
<1>4. \A e \in stamped : e.tile # t
  BY <1>3, ListedIsStamped DEF Stamped
<1>5. t \notin Upgrades(Best)
  BY <1>3 DEF Upgrades
<1>6. t \in zone => t \in Preserve(Best)
  BY <1>2 DEF Preserve, BalancerSplitter
<1>7. t \in DOMAIN released /\ released[t] = claims[t]
  <2>1. ~(t \in zone /\ Releasable(claims, t, Preserve(Best)))
    BY <1>6 DEF Releasable, BalancerSplitter, Claimed
  <2> HIDE DEF zone
  <2>. QED  BY <2>1 DEF ReleaseForTemplate
<1>8. t \in DOMAIN freed /\ freed[t] = claims[t]
  BY <1>5, <1>7 DEF ReleaseTiles
<1>9. Stays(t)
  BY <1>1, <1>4, <1>8 DEF Place, Stays
<1>10. Here(placed', t) = Here(placed, t)
  BY <1>1, <1>4, <1>5 DEF Here
<1>. QED  BY <1>9, <1>10

OffInv ==
  /\ IsPlan(plan)
  /\ SplittersInv /\ RegionsInv
  /\ growth # Idle => growth.cluster \subseteq Crossings(plan)

(* A round that begins with a region that keeps off.                       *)
LEMMA RoundKeepsOff ==
  ASSUME OffInv, NEW cluster, cluster \subseteq Crossings(plan), NEW region, NEW iter, KeepsOff(region),
         growth' = Round(cluster, region, iter), UNCHANGED <<plan, placed, claims, synced>>
  PROVE  OffInv'
<1>1. growth'.region = region /\ growth'.best = <<>> /\ growth'.cluster = cluster
  BY DEF Round
<1>2. KeepsOff(region)'
  BY DEF KeepsOff
<1>. QED  BY <1>1, <1>2 DEF OffInv, SplittersInv, RegionsInv

(* No step loses the splitters or a region that keeps off.                 *)
LEMMA StepKeepsOff ==
  ASSUME OffInv, IInv, WorkInv, [Next]_vars
  PROVE  OffInv'
<1>1. ASSUME UNCHANGED <<plan, placed, claims, synced>>, growth' = growth \/ growth' = Idle
      PROVE  OffInv'
  <2>1. CASE growth' = growth
    BY <1>1, <2>1 DEF OffInv, SplittersInv, RegionsInv, KeepsOff, Best
  <2>2. CASE growth' = Idle
    BY <1>1, <2>2 DEF OffInv, SplittersInv, RegionsInv
  <2>. QED  BY <1>1, <2>1, <2>2
<1>2. growth # Idle => ~synced
  BY DEF IInv, Safe, GrowthInv
<1>3. CASE SkipHandled
  BY <1>1, <1>3 DEF SkipHandled
<1>4. CASE SetAside
  BY <1>1, <1>4 DEF SetAside
<1>5. CASE SolveCluster
  <2>1. ~synced /\ Head(clusters) \subseteq Crossings(plan)
    BY <1>5 DEF SolveCluster, Visiting, IInv, SyncInv, WorkInv
  <2>2. KeepsOff(FromCrossings(plan, placed, Head(clusters), {}))
    BY <2>1, FirstKeepsOff DEF OffInv
  <2>. QED  BY <1>5, <2>1, <2>2, RoundKeepsOff DEF SolveCluster, StartSolve
<1>6. CASE Attempt
  <2>1. growth # Idle /\ KeepsOff(growth.region) /\ UNCHANGED <<plan, placed, claims, synced>>
    BY <1>6 DEF Attempt, OffInv, RegionsInv
  <2>2. \A v \in Tried(growth) : KeepsOff(v)
    <3> SUFFICES ASSUME NEW v \in Tried(growth) PROVE KeepsOff(v)
      OBVIOUS
    <3>1. v = growth.region \/ v = ExpandBbox(plan, placed, growth.region, SingleSideVariants[growth.side])
      BY DEF Tried
    <3>. QED  BY <1>2, <2>1, <3>1, ExpandedKeepsOff DEF OffInv
  <2>3. KeepsOff(growth'.region) /\ growth'.cluster \subseteq Crossings(plan)
    BY <1>6, <2>1, AttemptKeeps DEF OffInv
  <2>4. growth'.best # <<>> => KeepsOff(growth'.best[1].region)
    BY <1>6, <2>1, <2>2, AttemptKeeps DEF OffInv, RegionsInv, Best
  <2>5. ASSUME NEW region, KeepsOff(region) PROVE KeepsOff(region)'
    BY <2>1, <2>5 DEF KeepsOff
  <2>6. RegionsInv'
    BY <2>3, <2>4, <2>5 DEF RegionsInv, Best
  <2>. QED  BY <2>1, <2>3, <2>6 DEF OffInv, SplittersInv
<1>7. CASE Grow
  <2>1. KeepsOff(Grown(growth)) /\ growth.cluster \subseteq Crossings(plan)
    BY <1>2, <1>7, ExpandedKeepsOff DEF Grow, Grown, OffInv, RegionsInv
  <2>. QED  BY <1>7, <2>1, RoundKeepsOff DEF Grow
<1>8. CASE Cap
  BY <1>1, <1>8 DEF Cap, GiveUp
<1>9. CASE Retry
  <2>1. growth # Idle /\ growth.cluster \subseteq Crossings(plan)
    BY <1>9 DEF Retry, Solved, OffInv
  <2>2. KeepsOff(FromCrossings(plan, placed, growth.cluster, Conflicts(Best)))
    BY <1>2, <2>1, FirstKeepsOff DEF OffInv
  <2>. QED  BY <1>9, <2>1, <2>2, RoundKeepsOff DEF Retry, StartSolve
<1>10. CASE CapAfterRetry
  BY <1>1, <1>10 DEF CapAfterRetry, GiveUp
<1>11. CASE Commit
  <2>1. plan' = plan /\ synced' = synced /\ growth' = Idle
    BY <1>11 DEF Commit
  <2>2. ASSUME ~synced', NEW t \in DOMAIN claims', BalancerSplitter(claims', t)
        PROVE  /\ t \in plan.obstacles /\ SpecsAt(plan, t) = {}
               /\ \A e \in Here(placed', t) : e.kind # "belt"
    <3>1. claims'[t].kind # "template"
      BY <2>2 DEF BalancerSplitter, Claimed
    <3>2. t \in DOMAIN claims /\ claims'[t] = claims[t]
      BY <1>11, <3>1, CommitClaims
    <3>3. BalancerSplitter(claims, t)
      BY <2>2, <3>2 DEF BalancerSplitter, Claimed
    <3>4. Here(placed', t) = Here(placed, t)
      BY <1>11, <3>2, <3>3, CommitSparesSplitters DEF OffInv
    <3>. QED  BY <2>1, <2>2, <3>2, <3>3, <3>4 DEF OffInv, SplittersInv
  <2>3. SplittersInv'
    BY <2>1, <2>2 DEF SplittersInv
  <2>. QED  BY <2>1, <2>3 DEF OffInv, RegionsInv
<1>12. CASE Sync
  BY <1>12 DEF Sync, OffInv, SplittersInv, RegionsInv
<1>13. CASE Stop
  BY <1>1, <1>13 DEF Stop, vars
<1>14. CASE UNCHANGED vars
  BY <1>1, <1>14 DEF vars
<1>. QED
  BY <1>3, <1>4, <1>5, <1>6, <1>7, <1>8, <1>9, <1>10, <1>11, <1>12, <1>13, <1>14 DEF Next

(* In every layout in which no path runs over a splitter of a balancer,    *)
(* nothing that is fixed is ever touched: rows, machines, pipes, these     *)
(* splitters, and the belts that a solution has laid, which keep their     *)
(* item and direction (solve_crossing and its commits, ghost_router.rs).   *)
THEOREM FixturesAreKept ==
  (\A p \in Plans : SplittersAside(p)) => (Spec => FixturesStay)
<1> SUFFICES ASSUME \A p \in Plans : SplittersAside(p)
             PROVE  Spec => [][RowsStay /\ PipesStay /\ SplittersStay /\ FlowsStay]_vars
  BY DEF FixturesStay
<1>1. Init => OffInv
  <2> SUFFICES ASSUME Init PROVE OffInv
    OBVIOUS
  <2>1. PICK p \in Plans : plan = p.plan /\ placed = p.placed /\ claims = p.claims
    BY DEF Init
  <2>2. IsPlan(plan)
    BY <2>1, JunctionsAssumption DEF WellFormed
  <2>3. SplittersInv
    BY <2>1 DEF SplittersInv, SplittersAside
  <2>. QED  BY <2>2, <2>3 DEF Init, OffInv, RegionsInv
<1>2. OffInv /\ IInv /\ WorkInv /\ [Next]_vars => OffInv'
  BY StepKeepsOff
<1>3. OffInv /\ IInv /\ [Next]_vars => [SplittersStay]_vars
  <2> SUFFICES ASSUME OffInv, IInv, [Next]_vars PROVE SplittersStay
    OBVIOUS
  <2>1. CASE Commit
    BY <2>1, CommitSparesSplitters DEF SplittersStay, OffInv
  <2>2. CASE claims' = claims
    BY <2>2 DEF SplittersStay, Stays
  <2>. QED  BY <2>1, <2>2, OnlyCommitsClaim
<1>. QED  BY <1>1, <1>2, <1>3, Inductive, WorkHolds, BuiltStays, PTL DEF Spec
=============================================================================

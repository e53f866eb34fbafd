--------------------------- MODULE GhostOccupancy ---------------------------
(***************************************************************************)
(* Who holds which tile while the ghost router works                       *)
(* (crates/core/src/bus/ghost_occupancy.rs). A claim is [kind, e]: its     *)
(* kind and the entity behind it; a tile without a claim is not in the     *)
(* domain. An entity is a record with at least tile, kind and seg, the     *)
(* family its segment id belongs to.                                       *)
(***************************************************************************)
EXTENDS Integers

ClaimKinds == {"hard", "row", "permanent", "ghost", "template"}

Claimed(claims, t, kinds) == t \in DOMAIN claims /\ claims[t].kind \in kinds

\* Everything but ghost belts.
SnapshotJunctionObstacles(claims) == {t \in DOMAIN claims : claims[t].kind # "ghost"}

\* place fails on a tile that anything but a ghost belt holds.
CanPlace(claims, t) == Claimed(claims, t, {"ghost"}) \/ t \notin DOMAIN claims
Place(claims, ents, kind) ==
  LET new == {e.tile : e \in ents}
  IN  [t \in DOMAIN claims \union new |->
         IF t \in new THEN [kind |-> kind, e |-> CHOOSE e \in ents : e.tile = t] ELSE claims[t]]

\* Pipes are fixed, whatever they are part of.
HeldByPipe(claims, t) == Claimed(claims, t, {"permanent"}) /\ claims[t].e.kind = "pipe"

ReleaseTiles(claims, tiles) == [t \in DOMAIN claims \ tiles |-> claims[t]]

ReleasableWithPipes(claims, t, preserve) ==
  \/ claims[t].kind = "ghost"
  \/ /\ claims[t].kind = "permanent"
     /\ claims[t].e.seg \in {"trunk", "tapoff", "balancer"}
     /\ t \notin preserve

\* Ghost belts, and the belts of the main bus that are not to be preserved.
Releasable(claims, t, preserve) ==
  \/ claims[t].kind = "ghost"
  \/ /\ claims[t].kind = "permanent"
     /\ claims[t].e.kind # "pipe"
     /\ claims[t].e.seg \in {"trunk", "tapoff", "balancer"}
     /\ t \notin preserve

ReleaseForTemplate(claims, zone, preserve) ==
  [t \in {u \in DOMAIN claims : ~(u \in zone /\ Releasable(claims, u, preserve))} |-> claims[t]]

KeptGhosts(claims, e) ==
  e.seg \in {"trunk", "tapoff", "balancer"} => Claimed(claims, e.tile, {"permanent"})

\* What the entity list keeps in the end: an entity of a spec or of the bus
\* only where the claim is still of its kind.
Kept(claims, e) ==
  IF e.seg = "ghost" THEN Claimed(claims, e.tile, {"ghost"})
  ELSE e.seg \in {"trunk", "tapoff", "balancer"} => Claimed(claims, e.tile, {"permanent"})
=============================================================================

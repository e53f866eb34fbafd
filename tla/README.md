# Formal models of Spaghettio

Spaghettio turns "make so many of this item per minute" into a Factorio
blueprint: a solver finds machines and rates, a layout engine places and routes
them, and a set of judges decides whether the result works. The modules in this
directory specify, check and prove the parts whose state is hardest to keep right:

* the **meter** (`crates/meter`), a tick simulator of belts, splitters, inserters,
  machines and pipes that judges a layout;
* the **junction solver** of the layout engine (`crates/core/src/bus/ghost_router.rs`
  from step 5 on, `junction_*.rs`, `ghost_occupancy.rs`), which solves the crossings
  of routed paths one after the other, each in a region that may grow over what
  earlier ones built;
* the **zone cache** (`crates/core/src/zone_cache.rs`), which shares solved
  crossings between processes, builds and the eight symmetries of a rectangle;
* the **page** (`web/src/main.ts`, `ui/sidebar.ts`) over the **engine client**
  (`web/src/engine.ts`), which keeps promises to overlapping callers while it kills
  and respawns a worker.

Run `tlc -config X.cfg M` for a row of the table of runs below, and `tlapm M.tla`
for the modules whose name ends in `Proofs`.

## 1. Inventory

### Components and their state

| component | where | state | operations |
|---|---|---|---|
| inserter | `meter/src/inserter.rs` | phase, cycle timer, hand, counters | `tick` with grab and deposit callbacks |
| splitter | `meter/src/network.rs:536` | a toggle per splitter and lane; a memory (output, debt) per half and lane | `step_splitter_exit` |
| machine | `meter/src/machine.rs` | craft progress, input and output buffers, fractional carry, counters | `insert`, `insert_fluid`, `take_output`, `tick`, `reset_counters` |
| belt lane | `meter/src/belt.rs` | slots, a fractional offset per slot | entry, exit, shift, four kinds of insertion, grabs |
| belt network | `meter/src/network.rs` | tiles, links, lane maps, update order, a progress per tier | `build`, `tick`, `drop_onto_tile`, `take_from_tile` |
| fluid networks | `meter/src/fluid.rs`, `factory.rs:483` | joined pipes and ports; fluid in machine buffers | `build_networks`, `tick_fluids` |
| factory | `meter/src/factory.rs` | all of the above, feeds, sinks, checkpoints | `from_entities`, `tick`, `run_for`, `reset_counters`, `measure` |
| row world | `meter/src/world.rs` | one row with chests and sources | `tick` (a test fixture) |
| engine client | `web/src/engine.ts` | pending promises, `activeStreamingId`, activity counter, caches | the exported calls, `supersedeWorker`, `initEngine` |
| engine worker | `web/src/workers/engine.worker.ts` | a start-up promise | one message at a time |
| page session | `web/src/main.ts` | layout shown, solve timer, optimisation queue | solve, stream, optimise |
| renderer, panels, URL | `web/src/renderer`, `ui`, `state.ts` | drawing state | – |
| solver | `core/src/solver.rs`, `netflow.rs` | none | recipe expansion, linear programme |
| bus layout | `core/src/bus/layout.rs`, `placer.rs`, `lane_planner.rs`, … | the blueprint under construction | a pipeline of passes |
| ghost routing, junctions | `core/src/bus/ghost_*.rs`, `junction_*.rs`, `eviction.rs`, `region_walker.rs` | claims of tiles, regions, a worklist | route, grow, solve, evict |
| balancers | `core/src/balancer`, `bus/balancer_*.rs`, `crates/balancer-gen` | templates | generate, verify |
| candidates and selection | `core/src/bus/candidate_runner.rs`, `selection_policy.rs`, `verdict.rs` | candidates, scores | run, compare |
| SAT and zone cache | `core/src/sat.rs`, `zone_cache.rs` | records by signature | encode, look up, merge |
| validators | `core/src/validate` | none | one function per rule |
| blueprint, trace, snapshot | `core/src/blueprint*.rs`, `trace.rs`, `snapshot.rs` | none | serialise |
| simulation harness | `crates/sim-harness` | files of a game run | orchestrate, judge |
| tools, bindings | `crates/mining-cli`, `crates/wasm-bindings` | none | convert |

### How they interact

`Factory::tick` calls, in this order, the boundary feeds, every inserter, every
machine, the fluid networks, the belt network, and the sinks. Inserters reach
belts and machines by callbacks: a grab asks the machine for room and takes from
a tile what fits; a deposit puts items one by one at a machine or at a point of a
belt. The belt network steps its tiles in one fixed order and hands items from
tile to tile through splitters, curves, sideloads and undergrounds. The meter is
single-threaded and deterministic; what is not fixed, and is left open in the
modules, is everything a blueprint, a recipe and a manifest can arrange.

The page calls the engine client; the client posts numbered messages to the
worker and keeps a promise for each. A newer request that finds a streaming
layout in flight terminates the worker, rejects all the promises, and boots a new
worker by a sequence of awaited calls, between which other callers run.

### What is hard, and what makes each component correct

The hazards of PROJECT.json list the lines. In short:

* **inserter** – a cycle is no whole number of ticks; deposits may be partial; a
  blocked hand waits. Correct: no drift of the rate over any run, and every hand
  position is delivered, carried or counted as short.
* **splitter** – two halves with a memory each share one toggle; the memory is
  capped. Correct: it never remembers an output that is not there, never returns
  more than it diverted, and any lasting imbalance of the branches is explained.
* **machine** – fractional crafts and yields, blocks, shortages and a reset in
  mid-craft. Correct: no time and no fraction of a product is ever lost, each
  tick has one reason, the overshoot of the output is bounded.
* **lane and network** – items are shoved within and across tiles, in an order
  computed once. Correct: nothing lost or doubled, nobody overtakes, items are
  held back only by a blockage, a dead branch stops nobody.
* **plant** – the shortage of one ingredient backs up into the fluid and from there
  into other machines. Correct: no order of turns makes anybody wait for ever, and
  no fluid is lost.
* **topology** – adjacency, pairing and lanes from positions. Correct: pairs are
  the nearest and exclusive, halves match, opposite flanks use different lanes,
  and nothing depends on which way the layout faces.
* **fluids** – shares and withdrawals are computed apart. Correct: they agree,
  and scarcity is shared.
* **mixed belts** – inserters share the room of one machine. Correct: they never
  all wait for each other, and the machine goes on crafting.
* **junctions** – what is solved is overwritten by what is solved later, and the list
  the solver reads is not the occupancy it commits to. Correct: nothing fixed is
  touched, a solved flow runs whatever is rerouted round it later, no crossing gets
  lost, the commits find room, and the work ends.
* **zone cache** – a solution found in one zone is replayed in every image of it, and
  several builds write verdicts for one signature. Correct: what is replayed solves
  the zone that asked, what is refused has no solution, and a write that is cut off
  harms no signature but its own.
* **engine client and page** – respawn under overlapping callers, and results that
  come when they are no longer wanted. Correct: every promise has an answer coming,
  the busy overlay matches, the streaming call is known, the newest solve ends in a
  layout or an error, what is exported is its own, and every optimise pass ends.

## 2. Modules

| module | models | extends or instances |
|---|---|---|
| `InserterCycle` | the arithmetic of one inserter cycle, as operators on a record | – |
| `Inserter` | `Inserter::tick` with its callbacks and counters | `InserterCycle` |
| `InserterProofs` | theorems on `Inserter` | `Inserter`, TLAPS |
| `SplitterRouting` | which output an item tries first, memory and toggle afterwards | – |
| `Splitter` | one lane of one splitter in any geometry | `SplitterRouting` |
| `SplitterLedger` | the same with books over a window of items | `Splitter` |
| `Machine`, `MCMachine` | one crafting machine and every call on it | – |
| `MachineProofs` | theorems on `Machine` | `Machine`, TLAPS |
| `BeltLane` | a lane as a function of slots and offsets, operators only | – |
| `UpdateOrder` | **abstract**: any downstream-first order | – |
| `UpdateOrderStack` | `compute_order` with the stack of the code, as actions on the variables of `Topology` | instances `UpdateOrder` |
| `BeltTopology` | tiles, pairs, links, lane maps, operators only | – |
| `Topology`, `MCTopology` | `NetworkBuilder::build` as a state machine | `BeltTopology`, instances `UpdateOrderStack` |
| `TopologyProofs` | theorems on the builder, on the abstract sort, and that the stack implements it | `Topology`, TLAPS |
| `BeltNetwork` | a step of a whole network, drops across tiles | `BeltLane`, `BeltTopology`, `SplitterRouting` |
| `BeltTraffic`, `MCBeltTraffic` | a network with feeds, inserters and sinks | `BeltNetwork` |
| `BeltProofs` | theorems on the splitter and its books, and on the traffic | `SplitterLedger`, `BeltTraffic`, TLAPS |
| `FluidPool` | `tick_fluids` on one connected fluid | – |
| `MixedBelt`, `MCMixedBelt` | inserters that share the buffers of one machine | – |
| `Plant`, `MCPlant` | both together: inserters, a machine that also takes fluid, other consumers and producers | `MixedBelt`, `FluidPool` |
| `PlantProofs` | theorems on `MixedBelt`, that the composition implements it, and theorems on the fluid | `Plant`, TLAPS |
| `ZoneCanonical` | canonical form, storing and replaying a solution, operators only | – |
| `ZoneCache`, `MCZoneCache` | processes with tables, buffers and one shared file | `ZoneCanonical` |
| `ZoneCacheProofs` | theorems on `ZoneCache` | `ZoneCache`, TLAPS |
| `JunctionRegion` | first region, clamping, promotion, growth, operators only | – |
| `JunctionZone` | ports of a region, what a solver may answer, what an answer breaks | `JunctionRegion` |
| `GhostOccupancy` | claims of tiles: place, release | – |
| `Junctions`, `MCJunctions` | clusters, attempts, retries, commits, the last sync | `JunctionZone`, `GhostOccupancy` |
| `JunctionProofs` | theorems on `Junctions` | `Junctions`, TLAPS |
| `Engine` | the engine client and its worker | – |
| `Session`, `MCSession` | the page that calls it | `Engine` |
| `SessionProofs` | theorems on `Session` | `Session`, TLAPS |

Names follow the source wherever TLA+ allows it (`splitter_toggle` is `toggle`,
`Machine.output_blocked_ticks` keeps its name, `pair_undergrounds` is
`PairUndergrounds`). PROJECT.json maps each definition to its lines. Operators
named after a defect (`ReceptionsAnywhere`, `GiveUpSilently`, `StampedOver`, …) are
mutants of the definition that follows them; no specification uses them.

### Correspondence of state and actions

**Inserter.** The record `ins` is `Phase`, `cycle_timer` and the dropped flag;
units are fractions of a tick (a cycle is `Cycle` units, a tick `TickUnit`), so
the real ratio is arbitrary but exact. One action is one call of `tick`: `Starve`
(empty grab), `Grab` of any number up to the hand, `Carry` and `Travel` (nothing
reached yet, before and after the drop), and `Deposit`, in which the destination
takes any part, nothing included. Counters `begun`, `held`, `swings` are history.

**Splitter.** An action is one exit attempt of one half: `RouteFirst`,
`RouteFallback` or `Blocked`; between attempts the branches fill and drain
freely. `linked`, `sinks` and `paired` give every geometry the builder can make,
the orphan half included. `SplitterLedger` adds what an observer would write
down: items sent, owed, forgotten by the cap, episodes.

**Machine.** Actions are the calls of the factory: `Insert`, `InsertFluid`,
`TakeOutput`, `TakeFluid`, `ResetCounters` and the tick, whose branches are
`BlockedTick`, `StarvedTick`, `BeginCraft`, `ContinueCraft`. Time and yields are
scaled integers. A craft takes at least one tick (`CraftTime >= TickUnit`): the
shortest recipes of the game take many ticks.

**Network, traffic.** Positions are in `Unit`ths of a slot. A lane is the
two arrays of the code; `MakeRoom` is the shoving of neighbours on either side,
`Nearest` and `Residual` the rounding. The network of `BeltNetwork` (`Tiles`,
`Downstream`, `Onto`, `UpdateOrder`) is given by constants, and the assumption
`NetworkIsBuilt`, which TLC evaluates, says that it is what `Build` makes of the
list of entities `Layout` with the operators of `BeltTopology`; so the traffic runs
on what `build` makes. What the proofs need of a network is `NetworkIsWired`, which the
builder gives every blueprint (`LinksLeadOn`, `OrderLeadsOn`). The network is stepped tile by tile in the order of
`UpdateOrder`. A tick is one action; feeds and inserters act between ticks in any order, a superset of
the factory's fixed order.

**Topology.** `AddTiles` takes any entity of the family next; `PairUndergrounds`
and `LinkDownstream` are the builder's next steps, and then the stack of
`compute_order` runs on the links that came out. The abstract `UpdateOrder` knows
nothing of blueprints: its first action, `Link`, makes any links at all, and the
rest sorts them. `SortsDownstreamFirst` says that `Topology` implements it.

**Fluids.** A tick lets any machines emit and craft that may, then routes
(`Route`): shares rounded down, leftovers by largest remainder, producers debited
in their order, a boundary input filling what is left, and a network without
consumers drained as delivered.

**Mixed belt.** A grab may find any items its belt carries; the filter asks the
machine for each of them as it is at that moment. A deposit moves the longest
prefix that fits. The inserter's cycle is left open: deposits and crafts happen at
any time.

**Plant.** `Take` and `Drop` are the turns of an inserter, `MachineTurn` one of the
machines and the fluid: the machine that the inserters feed is one of the consumers
of the fluid and crafts when it has both. Inserters act between two machine turns in
any number and order, the factory's fixed order among them.

**Zone cache.** `canon` is what `canonicalise` and the replay compute of each zone,
worked out once in the initial state. `disk` is the file as a reader takes it. A
record is a length and so many bytes without a checksum, and an entity that does not
decode is left out (`decode_record`, `parse_records`). So a record that was cut off is
dropped while it is the last (`disk.cut`), but what is written behind it makes it up:
the bytes that are missing are taken from the next record, and the reader may come
out of step (`disk.astray`). `Misread` is what a cut record may decode as: itself up to the
cut, with any outcome, with fewer belts (`Remnant`), or, when the cut is before the
encoder version, under any signature but with a version that no build has (the
version would be read from lengths, times and strings of the next record).
`disk.spoilt` collects the signatures of the cut records that something was written
behind; it is no state of the program, and the properties except these signatures.
`AnswerFromCache` and `SolveAfresh` are `try_solve` from the lookup on; `Flush` takes the
buffer, `WriteRecord` appends one record at a time, whole, in part or not at all, so
other processes write in between, and `Restart` goes on with a process of any build.
Two processes do not write into each other's partial writes.

**Junctions.** The initial states are routed layouts (`Plans`). `SolveCluster` starts
a solve for the next cluster, `Attempt` is one strategy on one variant of the region,
`Grow` the next round, `Cap`, `GiveUp` and `CapAfterRetry` its three failures, `Retry` the second
solve that keeps off the tiles in conflict, and `Commit` releases the footprint and
stamps the solution. `SkipHandled` and `SetAside` are the clusters that are not
solved. `placed` is the list that the solver reads, `claims` the occupancy; `Sync`
rebuilds the one from the other. The SAT solver may give any of the cheapest
answers that satisfy what the encoding asks (its descent in cost is taken to end at
the optimum).

**Engine and session.** A turn of the event loop is a request of the page, `Receive` (a message of the worker),
a frame or a timer; it begins when `todo` and `continuations` are empty. `Continue` is a
microtask and runs before the next turn, as in the code, where the continuation of an
await runs when its promise has settled; calls that the page makes on the way (`todo`)
come before the next turn too. `Supersede` is `supersedeWorker` up to its first await;
answers of the terminated worker may still arrive or not. The boot is reduced to
three calls, of which the second is caught: the boot with a stored zone cache; the
cached lists after it differ only in what they ask. A layout is known by the
generation of its solve, and by whether a pass has replaced it (`final`) or mixed
improvements of another one into it (`mixed`). `RunSolve`, `IconsLoaded` and
`SolveGoesOn` are the stages of `runSolve`, with `Render` what it does to the canvas;
`CheckGoesOn` and `Frame` are the two places that may begin a pass; `PassGoesOn`,
`Improved`, `Drain` and `Drained` are the pass and its queue.

## 3. Runs, bounds and what they show

Twelve runs: nine that hold and three that exhibit a disagreement. Distinct states
are those of a complete search.

| run | states | question | bounds, and why they are enough |
|---|---|---|---|
| `inserter` | 242,390 | does the measured rate stay exact over any sequence of shortages, refusals and partial deposits? | a cycle of 3.5 ticks, so half a tick is carried over in every second swing; a hand of two, so deposits can be partial; 44 ticks, a dozen swings |
| `splitter` | 72,780 | do the memories of the two halves account for what each branch got? | cap 2 and nine items: diversions beyond the cap, write-offs and several episodes of both halves, in every geometry |
| `machine` | 593,739 | are time, yield, fluid and the reasons for standing still accounted for under every order of calls? | fractional craft time and yield (1.5), a cap that is overshot, nine ticks with a block, a shortage and a reset |
| `topology` | 868,207 | what does the builder make of a blueprint, and does its sort implement the abstract one? | three families: every blueprint of three entities of all kinds on a block; four undergrounds of two tiers on a row, in every order; four belts, which close rings and run into them |
| `belt_traffic` | 103,011 | does a whole network conserve, order and drain its items? | one layout with a curve, a sideload, two speeds, a splitter with a dead branch and an underground pair; five items fill the dead branch of a lane and divert one; one item may be picked. Tiles have two slots instead of four, with sideload points and turn lengths halved to match |
| `plant` | 44,460 | can the parts that feed a machine block one another, and is the fluid they share accounted for? | two hands of one item over a belt with both ingredients and a foreign item, caps of a single craft; two producers, three consumers of appetites 3, 2, 1: remainders of every kind; with and without a boundary input and for every choice of attached machines |
| `junctions` | 8,859 | what do solutions committed one after the other make of a layout? | 249 layouts: every choice of trunk, pipe or nothing on four columns with one belt or two across, and six layouts made for one case each (three flows on a tile, a turn behind the crossing, regions that overlap, a balancer, a splitter, a machine and a tap beside, an exit that takes the place of a laid belt, a flow broken beside a pipe). Growth rounds (5), region size (64), underground reach (4) and hull budget (48) are those of the code; the solver's size ceiling (49 tiles) and two undergrounds per flow in a region bound the answers |
| `zone_cache` | 305,131 | is what the cache answers true of the zone that asked? | six zones: two shapes that can be solved and one that cannot, in several turned, mirrored, moved and renumbered positions; one over the size limit; two processes, two builds, two budgets; two calls that reach the solver, as many as it takes to disagree and to write one record behind another that was cut off |
| `session` | 182,370 | does everything the user starts end, and in the right layout? | three requests, up to three of them solves, so that one supersedes another that supersedes a third; a boot of three calls of which one is caught; passes that visit two regions |
| `full_hands` | violated | is a hand that took only what is accepted always emptied? | hands of two |
| `merge_tree_panic` | violated | do commits always find room? | one layout with a merge tree |
| `session_queue` | violated | is the queue of an old layout abandoned when a new one lands? | two solves |

In `belt_traffic`, `zone_cache` and `session` only the inputs (items, calls, requests)
are bounded; whatever follows from them is searched completely. Each passing run checks
deadlock unless its system stops by its bound (`CHECK_DEADLOCK FALSE`, with the reason
in the configuration); in `junctions` that check is half of a property: the router
stops at the end of its last step or at a panic, and nowhere else.

`belt_traffic` compares a step with the one before (`LineKeepsOrder`,
`FreeRunAdvances`) and looks for ever (`FlowNeverStops`): an item may be held up,
but the tiles from which a way leads to a boundary output run empty when nothing
more arrives, although the dead branch of the splitter is full and owed items.
`junctions` compares every step with the one before (`FixturesStay`) and the end with
the beginning (`SolvedFlowsRun`, `LostOnlyBesideSolved`).

### The three disagreements

* `full_hands`: the grab filter (`factory.rs:670`) asks the machine for room per
  item and does not count what the same grab has already taken. Its comment
  promises that the hand can always be emptied (`factory.rs:663`). With hands of
  two over a mixed belt two inserters fill their hands with one ingredient and
  wait for ever. With hands of one item, or with an inserter of its own for every
  ingredient, it cannot happen: that is `NoGridlock`, checked and proved.
* `merge_tree_panic`: `clamp_side_against_protected` (`junction_solver.rs:694`) looks
  at each side's new strip along the old box only. A region that grows on two sides at
  once takes in the tile at the corner between them; when a merge tree turns there, the
  solution re-lays its belt, the occupancy does not release it
  (`ghost_occupancy.rs:427` names trunks, taps and balancers), and the commit panics:
  the very panic that the comment at `junction_solver.rs:732` says the clamp prevents.
  Where every permanent belt is of a family that is released, the router never panics:
  that is the theorem `NeverPanics`.
* `session_queue`: "the worker is superseded and the queue is abandoned" when the user
  solves again during a pass (`main.ts:928`). It is superseded only while a streaming
  call is in flight. A pass that has its last answer and is still playing back its
  queue is not interrupted: the new layout is rendered, improvements of the old one are
  spliced into it, and at the end the old layout is put back on the canvas
  (`main.ts:1051`), while Copy exports the new one.

### Mutants

Every property of a passing run has a mutant in PROJECT.json: a plausible slip in
one mapped definition (a reset that should be an advance, an order turned round, a
forgotten cap, an item put before it is taken) under which TLC finds the property
violated. They are the evidence that the bounds reach the case.

## 4. Fairness

* `belt_traffic`: weak fairness of the tick only. The measurement loop ticks until
  it ends; feeds, drops and picks need not happen. The fairness is stated on the
  change of `progress`, which only the tick makes.
* `plant`: weak fairness of the pickup and of the drop of each hand, and of the
  machine's turn, idle and crafting: the factory offers every inserter and every machine a
  turn in every tick, and the belts carry everything they are said to carry again and
  again. Producers and the other consumers need not do anything: they may lack what is
  outside the model.
* `session`: weak fairness of an answer of the worker, of the delivery of a message,
  of what settled promises go on to do, of the loading of icons, and of the tick that
  plays back the queue. The worker is single-threaded and answers each call in turn;
  JavaScript runs what is queued. Requests of the page are not fair, and neither are
  animation frames, which stop in a hidden tab. A worker that crashes is outside the
  model: the code logs it and leaves its promises pending.
* `full_hands`: as `plant`, without the fluid.
* `junctions`, `zone_cache` need none. That the router's work ends is shown by a count
  that every step lowers (`WorkRunsOut`) and by the absence of deadlock.

## 5. Proofs

TLAPS checks the theorems below for every value of the constants; they rest on the
named assumptions of the modules (`CycleAssumption`, `MemoryCapAssumption`,
`TopologyAssumption`, `NetworkAssumption`, `NetworkIsWired`, `PoolAssumption`,
`JunctionsAssumption`, …), which TLC evaluates in every run.

* **Inserter.** `SteadyPeriod` (over any number of swings the time taken is the
  number of cycles to within a tick) is not inductive: it needs the exact ledger
  behind it. `IInv` adds that ticks spent swinging plus the time still to go equal
  the cycles begun (`TimerLedger`), that the timer lies in the range its phase
  allows, how many cycles have begun for the swings made, and that only a hand in
  flight carries. The step lemmas follow the actions; `LedgerGivesPeriod` derives
  the property.
* **Splitter.** `SInv` is the type and that a memory is about a linked output;
  `MemoryOfRealOutput` alone is not inductive without the range of the debt.
  `LInv` relates the books to the memories: what is owed is the debt plus what the
  cap wrote off, the episodes begun and paid off match the memories that run, and
  the difference of the branches is explained by all of these. `MoveKinds` splits an exit
  into the five things it can do to the books. `LedgerIsSplitter` shows that every
  behaviour with books is one of the plain splitter, so theorems on `Spec` hold of
  both.
* **Machine.** `MInv` has four parts that different actions disturb: `TimerInv`
  (crafts begun and time left account for the working ticks), `BufferInv` (input
  caps, fluid account), `CounterInv` (each tick of the window has one reason),
  `ProductInv` (emission and carry are exactly crafts times yield, the output is
  below its cap or overshoots by less than one craft). `WholeUnits` and `Remainder`
  are the arithmetic of the carry.
* **Builder.** `NetInv` says of every state of `Topology` that the tiles are those of the
  entities so far: no two at one place (`Apart`), the halves of a splitter numbered alike
  and partners of each other (`Halves`), side by side (`Beside`). `Placed` carries it over
  an entity, which may find one or both of its cells taken. From it `SplittersAreWhole`,
  `FlanksApart`, and `LinksLeadOn`: no item is ever handed to the tile it comes from.
  `UndergroundsMeet` needs that the pairing, which calls itself for the entrances before,
  has a solution at all: if it had none there would be a least tile without, and the pairs
  of the tiles before that one determine its own. `TurnsWithItsLayout`: the turned layout is
  built along, and `TurnInv` relates its tiles to the turned tiles of the original by an
  involution that swaps at most the two halves of a splitter, because which half is built
  first turns as well. Undergrounds and exits keep their numbers, so the pairing, which goes by number,
  comes out the same (`PairsTurn`); links and lanes turn, and cells stay free or taken.
* **Update order.** `IInv` of the abstract sort ties the remaining out-degree of
  every tile to what it still waits for, and says that nothing is forgotten and that
  nothing happens before the links are made. From it: a tile is ordered after what
  it feeds, none twice, and what is appended at the end never drains. The stack keeps a
  sequence where the abstract sort keeps a set; the stack's own invariant says that stack
  and order are sequences of tiles without repetition (`SInv` of `TopologyProofs`).
  `StackSortsTiles` is the refinement, step by step, for every blueprint: `Link` maps to
  `Link`, `Pop` to `Emit`, `Drained` to `Finish`, everything before to a stutter. Then
  `EveryTileIsStepped` (the order is a permutation of the tiles) and `SortedDrains`: a set
  of tiles whose items never leave it can not lose a first one to the sort, and what is
  left over is such a set.
* **Traffic.** `ItemsConserved`: in every network that is wired as the builder wires it,
  with lanes of any length, any speeds, feeds, drops and picks, no item is lost, doubled,
  or both delivered and there. `TrafficInv` says that lanes are sound (slots without gaps
  in their numbers, no item twice on a lane, none on two lanes) and that the items in the
  network, those delivered and those picked are disjoint and together all that arrived. The
  argument goes up from a lane (`PutsOn`, `TakesOff`, `MovesUp`, `MakesRoom`, `Inserted`:
  an insertion shoves its neighbours into free slots and overwrites nobody) to an item that
  changes tiles (`ItemMoves`, `HandsOver`, `Departs`), to the exit of a tile, a plain one or
  half a splitter (`Exits`), to the shift behind it (`Rises`), and to a step of all tiles
  (`StepKeeps`), in whatever order: conservation does not depend on the update order.
  `FreeRunsAdvance` does. A run is a set of tiles of one tier that leads to an output without
  merges. When one of its tiles has its turn, the tile ahead has had its own and its entries
  are free, so the item at the exit leaves (`ClearExit`), those behind it follow by one slot
  (`EmptiedMovesOn`, `ClearStep`) and leave the entry free for the tile behind. Other tiles touch
  a lane at its entry only (`StepSpares`), and those of a run are touched by the tile behind alone. `RunMovesOn` carries this along the update order: the first
  tile that broke it would not be the first. The tiles of the run are among the sorted ones
  (`RunIsSorted`): those left over lead only to one another and could not reach the output.
  A full loop without an output does not move on like this, so a run has an end.
  `NetworkIsWired` is an assumption of both, and what discharges it for the networks of the
  builder is `LinksLeadOn` for the links and `OrderLeadsOn` for the order.
* **Mixed belt and plant.** `IInv` is the type and that a hand holds only ingredients
  its belt carries. `NoGridlock` then holds with hands of one item, by counting: a blocked
  hand means a full buffer, a full buffer holds a craft's worth; or with an inserter of
  its own for every ingredient. `PlantFeeds` shows that every step of the plant is one of
  `MixedBelt` or a stutter, so `PlantNeverGridlocks` needs no second argument: lack of
  fluid delays crafts and does not make hands wait for each other.
* **Fluid.** `FluidIsConserved` and `ScarcityIsShared` are about two computations that do
  not see each other: shares by proportion and largest remainder on the consumers' side,
  withdrawals in order on the producers'. Both are sums over sets of machines, so first a
  sum is shown to have a value that does not depend on the order (`Total`). Then the shares
  rounded down leave less than one unit per consumer, the leftovers go one each to the
  largest remainders and never beyond the room, so the pool is given away to the last unit;
  and the producers give exactly what is used. `FInv` is the type, that tanks hold, and that
  nothing is held back between ticks. No number of machines, appetite or size is fixed; that
  there are finitely many is `PoolAssumption`.
* **Junctions.** What a commit overwrites depends on the region it was solved in, which
  was made many steps before. `IInv` therefore says that, until the last step, every
  pipe is an obstacle of the plan and listed as a pipe; that the region under growth, whatever was promoted
  into it, keeps out of the pipes; that the best solution so far lies in its region and spares what is
  forbidden there; and that no cluster is left once the list is synced. From it:
  `BuiltStays` (no row, machine or pipe is ever touched, and a belt laid by a solution
  keeps its item and direction), `NeverPanics` (whenever all permanent belts are of the
  families that commits release, so merge trees and the like are the only risk), and
  `WorkEnds`, by a count of the attempts left in the solve under way and in the clusters
  to come, which a retry lowers too because it is granted once. `ListIsTrue`: the list and
  the claims agree while the clusters are solved, through every release and every upgrade
  of a tile, and the last sync drops no more than what the claims have given up.
  `NoneLostAlone` follows each crossing from cluster to growth to footprint. `FixturesAreKept` adds the splitters
  of balancers to `BuiltStays`: what excuses a tile from being an obstacle is that a flow
  enters or leaves the region there, and `PortsOnPaths` shows that this is a tile of a path, so where no path
  runs over these splitters (`SplittersAside`, a hypothesis that TLC evaluates for the layouts
  of the runs) every region forbids them and every commit preserves them. The answers of the
  SAT solver enter these proofs only by what the encoding demands of them. Of a layout they
  take that paths are finite sequences of tiles, that pipes are obstacles and are listed, that
  list and claims agree at the start, and that each crossing is in a cluster (`WellFormed`).
* **Zone cache.** `CacheInv`: whatever sits in a buffer, on its way to the file, in the
  file or in a table was learnt by a solver call of that build about a zone of that
  signature, or is a misread record of a signature that is spoilt, or has a version that
  no build accepts. `RecordsAreReal` shows it inductive over everything a reader may make
  of a cut record, `TableIsLearnt` is what follows for the tables. The exception is needed: without
  it TLC finds `KnowsWhatWasLearnt`, `ReplaySolves` and `RefusalIsRight` each violated in
  six or seven steps (two solves, a flush, a write that ends early, one behind it, a read).

  What a record is worth to the zone that asks is shown from four hypotheses on the zones and
  the solver, none of them about the cache: every port lies on the rim and its flow crosses
  it there (`PortsCross`), no two channels of a zone carry one item (`ItemsHaveChannels`),
  what the solver answers solves the zone it was asked for (`SolverSolves`), and it does not
  refuse one of two zones that are images of one another (`ImagesSolveAlike`). TLC evaluates
  all four for the zones of the run. Two orientations one after the other are an orientation again
  (`Followed`, and `TileTwice`, `PortTwice`, `DirectionTwice` for what they do), a port's edge
  turns with its tile (`OneEdge`), and tokens do not depend on how channels are numbered
  (`TokensMove`). So images of a zone have the same eight renderings and one signature
  (`ImagesShareSignature`). `SignatureShowsTheZone` is the converse, and the reason why the
  signature may stand for the zone: a port is where it is seen and enters the way it is seen to
  (`CrossingApart`, which fails for ports inside the zone and for those whose flow does not cross the
  rim), and channels with one key are matched by their tokens (`RenderedAlike`).
  `RefusalsAreRight` follows with the solver's symmetry.

  For `ServedIsSolved` the solution has to be followed: stored from one zone and
  replayed in the other, an entity is carried by the symmetry that leads from the one to
  the other (`EntityCarried`; the inverse undoes the transformation, `TileBack`, `DirectionBack`),
  and its item becomes that of the matching channel (`ItemCarried`). Belts lead on after the symmetry
  where they led on before (`TilesCarried`, `WaysMove`), so the pruning takes away the images of what it takes
  away before (`PruneMoves`); what it leaves of a solution is a solution (`PruneSolves`), over free tiles
  and fed by the same ports (`SolvesMoves`). Ways are least closed sets, so that no induction
  along them is needed. `ImagesAreKnown` uses the same: a stored solution prunes to
  nothing in all zones of a signature or in none.

  Outside these theorems, and of the run: zones with ports inside (`interior`), which the
  signature does not tell apart (section 8); inputs that get the direction of a belt where no
  feeder is found (`junction_sat_strategy.rs:638-662`, `985-1000`) when that belt does not come in over the rim;
  and an item on two channels (`assign_channels`, 837-873, numbers them by item and
  belt tier), which is stored under one token.
* **Session.** `OverlayIsRight`: the counter behind the overlay is the number of
  pending promises, because promises are numbered upwards and no number is given twice.
  `NothingWaitsInVain`: behind every pending promise there is a message, or its answer,
  on the way to or from the worker of now. `EveryCallIsAnswered`: each caller that is not
  idle has exactly one promise, pending or just settled; `PromiseInv` says that the holders
  of pending promises and those of settled ones are disjoint and together the busy callers.
  That the page never calls twice is part of it, and needs the page: which stage of a solve
  or of a pass may be engaged is `PageInv`. `StreamsAreKnown`: the streaming call that a
  cancel would find is the last one that streams, which holds because messages and answers
  keep the order of their numbers (`MailOrder`). `CopiesTheNewest`: a solve whose generation
  has passed never becomes the blueprint. All for any boot sequence, any number of solves and any
  overlap of the calls.

### Recursion and data

The installed provers cannot use the library's induction theorems that take a predicate as a
parameter, nor an operator declared RECURSIVE. What is recursive in a module with proofs is a
function defined by the values before it (`Pairs`, `StepInOrder`, `Total`), and what the
library offers instead of induction is a well-founded order: a claim about all values follows
because the least value that breaks it would not. That a recursive function exists is shown
in the same way. `Ascending` states which sequence it is instead of building
it, and `Trap` quantifies over sets of tiles instead of
walking along links.

### What is only model-checked

* Liveness and fairness: `FlowNeverStops`, `CraftsGoOn`, `NewestEnds`, `PassEnds`.
* `LineKeepsOrder`. It is a statement about lines with two ends: on a line that leads
  back to itself, over a loop or by way of a balancer's feedback, items on two of its
  tiles are ahead of each other, so for every network it would have to speak of cyclic order.
  The layout of the run has no such line. It also needs the order within a lane through every insertion beside an item.
* `SolvedFlowsRun`: it needs that the parts of a flow inside and outside a region meet, which
  is an argument about paths.

## 6. Not modelled

* Floating-point rounding. Times, positions and yields are integers in a common
  unit; the code compares with an epsilon where the model compares exactly.
* Of the meter: how many stages of one factory tick an item can pass in their fixed
  order (the plant has inserters, machines and fluid in every order; feeds, belts and
  sinks run in `belt_traffic`), the wiring of a factory, `convergence` of a
  measurement, `world.rs` (a fixture of the tests) and the join of pipes into fluid
  networks.
* Of the junctions: the routing before step 5 (`astar.rs`, negotiation, stamps of
  balancers), which is the input; the rungs that evict flows or upgrade belts, which a
  pinned belt tier switches off; more than one belt tier; splitters other than as
  obstacles, so the splitter ports (`ghost_router.rs:726-810`) as well; two paths with one name, and
  answers of the SAT solver that leave out the path of a flow that its ports join.
* Of the zone cache: the encoding of a zone as clauses and the solver itself;
  underground belts in stored solutions, which are transformed as belts are.
* Of the page: layouts opened from a file, colour switches (which render the shown
  layout again), the debounce of the inputs, the solve of several targets at load time
  (the same steps as a solve), layouts without SAT zones, a crash of the worker and the
  worker's start-up promise.
* The recipe solver (linear programming over real rates), the rest of the layout engine (passes over
  geometry), balancers, the selection among candidates, validators, serialisation, the CLI, the
  renderer, the simulation harness. PROJECT.json gives the reason for each.

Most of the repository's lines are in these: tables of templates, geometric passes and
validators without state of their own, each a function from a layout to a layout or to
a list of issues. A model of such a function would repeat it.

## 7. Plan

Done, in this order: inserter, splitter, machine (the three that make the measured
numbers right), lane and topology, the sort and its refinement, the network in
motion that composes them, the fluids, the mixed belt, the engine client; then the zone
cache, the junctions of the layout engine, the plant that composes mixed belts and
fluid, and the page session that composes the engine client with its callers.

Next, in the order of their weight:

1. `FactoryTick`: the stages of `Factory::tick` in their order, with belts, feeds and
   sinks, and how many stages an item can pass in one tick.
2. `Convergence`: the checkpoints that end a measurement, with a factory that fills a
   buffer or alternates; when a converged verdict is wrong.
3. `FluidNetworks`: `build_networks`, the union of pipes, undergrounds and ports by
   position, against a reference definition of connectedness.
4. Junctions: the rungs that evict and upgrade, belts of two tiers, splitter ports.
5. Session: files opened and colour switches; the worker's start-up promise.
6. Proofs: order over a whole network (`LineKeepsOrder`, stated so that it also holds on
   loops), from the lane lemmas of `BeltProofs` and the places of the items;
   undergrounds in what the zone cache replays; `SolvedFlowsRun`, for which a region's
   answer has to be related to the paths outside it.

## 8. Observations

Seen while modelling; no run is about them.

* `docs/factorio-mechanics.md:87` (S11) says what is remembered of a blocked output;
  the code caps a counter (`network.rs:613-633`), and what exceeds the cap is
  written off (`over` in `SplitterLedger`).
* `network.rs:162` and `360-362` say that the order is downstream first; for a
  splitter half `compute_order` follows its own link only, not its partner's. An item
  handed to the partner's branch can move twice in a step.
* `network.rs:933-935` says that the tiles left over sit in a cycle. Tails that
  only drain into a cycle are left over too (`SortedIsWhatDrains`).
* `network.rs:862-863` says that an entrance only accepts from its back; the code
  links what faces an entrance from the side, and an unpaired entrance itself to
  the belt ahead.
* `network.rs:20-21`: two belts head on, each the only feeder of the other, are
  taken for curves.
* `factory.rs:510-516` and `534-554`: a consumer with a small buffer can get a share
  of nothing for many ticks in a row under scarcity.
* `fluid.rs:273-280`: `unconnected_feeds` is never filled.
* `fluid.rs:226-245`: a machine port on the tile of a pipe-to-ground is joined to the
  plain pipes on every side of that tile, its closed sides included, which
  `docs/factorio-mechanics.md:196` (F5a) keeps apart; the test of the mouth looks at the
  neighbour only.
* Nested pairs of pipe-to-grounds facing the same way both join the nearest opposite
  one (`fluid.rs`, the pass for rule F4).
* `engine.ts:349-351`: `supersedeWorker` rejects pending promises "so stale callers see
  the supersession", but a caller that waits in `seedZoneCache` has that rejection
  caught (`engine.ts:213`), goes on with the boot and posts its request to the new
  worker. `NewestEnds` and `PassEnds` hold all the same.
* `engine.ts:200-201`: the zone cache is seeded before the boot's other calls, not
  before those of another caller of the same worker.
* `main.ts:618-624`: a validation that is rejected because the worker was superseded is
  caught as "no issues", and an optimise pass may begin on a layout that nobody
  validated; `main.ts:1426-1431` says that a layout with errors skips the pass.
* A pass that begins while another caller boots the worker can, with its next
  `improveRegion`, supersede the newest request's own layout: the user reads an error
  for the solve just made. `NewestEnds` counts this as an end.
* `main.ts:932-933`: a layout that lands while a pass still plays back its queue is
  not optimised; and one that a pass replaces while it is being validated leaves the final
  layout unvalidated.
* `zone_cache.rs:42-83`: the signature of a port drops its `interior` flag, so two zones
  that differ in it alone share a signature, which the module's doc (lines 10-13)
  excludes. `entity_carries_to_token` takes the first channel with the item.
* `zone_cache.rs:1418` says that bad records are "silently skipped — robust against
  truncated" bytes; `parse_records` (830) stops at the first one that does not decode, and
  nothing tells a record that was cut off and made up with the bytes of the next one
  from a whole one. `flush` relies on writes being atomic (1294-1297, 1335-1339) and drops the error of
  one that is not. `flush` (1305-1343) empties the buffer even when the file does
  not open.
* `junction_solver.rs:1778-1811`: breaks of a flow that also touches a pipe tile are not
  looked at, in the solve that should mend it either. The layout `Unwalked` keeps such
  a flow broken; `SolvedFlowsRun` leaves these flows out, as the code does.
* `ghost_router.rs:2927-2936`: a cluster with one tile in an earlier footprint is
  skipped as a whole; its other tiles are neither solved nor reported (comments at
  2872-2880 and 3395-3400). The layout `Overlap` reaches it; `LostOnlyBesideSolved`
  says that nothing else gets lost.
* `ghost_router.rs:2782-2811`: `unreleasable_obstacles` is gathered and read by no
  strategy.
* A template of a balancer whose inputs are all splitters (eight to three) is the goal of
  the paths that feed it (`ghost_router.rs:1942`), so such a path ends on a splitter, and
  the end of a path is exempt from what a region forbids (`junction_solver.rs:443-482`).
  `FixturesStay` says that splitters stay in layouts in which no path ends on one.

------------------------------ MODULE Session ------------------------------
(***************************************************************************)
(* The page over the engine client: the solve of the sidebar               *)
(* (web/src/ui/sidebar.ts, runSolve), and in web/src/main.ts the layout on *)
(* the canvas, its validation and the pass that optimises its SAT zones    *)
(* while a queue of improvements is played back.                           *)
(*                                                                         *)
(* A layout is known by the generation of the solve it came from; a pass   *)
(* ends with a new object for it.  All layouts have SAT zones.  What the   *)
(* page does when a promise settles and calls it makes on the way (todo)   *)
(* come before the next turn.  Layouts opened from a file, and the colour  *)
(* switches, which render the shown layout once more, are left out.        *)
(***************************************************************************)
EXTENDS Engine

CONSTANTS
  MaxSolves,   \* bound: solves of the user
  MaxVisits    \* bound: regions that one pass visits, over all rounds

Gens == 1..MaxSolves
SolveOf(g) == <<"solve", g>>
CheckOf(g) == <<"check", g>>
ThePass == <<"pass", 0>>
Other == <<"other", 0>>

ASSUME SessionAssumption ==
  /\ {MaxSolves, MaxVisits} \subseteq Nat \ {0}
  /\ Callers = {SolveOf(g) : g \in Gens} \cup {CheckOf(g) : g \in Gens} \cup {ThePass, Other}

VARIABLES
  solveGeneration,
  stage,          \* where the runSolve of each generation is
  currentLayout,  \* of the sidebar, for the blueprint: a generation, or 0
  lastLayout,     \* on the canvas
  issues,         \* cachedValidationIssues
  validating,     \* validationInFlightFor: a generation, or 0
  frames,         \* layouts whose requestAnimationFrame is due
  pass,           \* the optimise pass and its queue
  todo            \* calls that the page makes before the next turn

pageVars == <<solveGeneration, stage, currentLayout, lastLayout, issues, validating,
              frames, pass, todo>>
sessionVars == <<vars, pageVars>>

NoLayout == [of |-> 0, final |-> FALSE, mixed |-> FALSE]
Layout(g) == [of |-> g, final |-> FALSE, mixed |-> FALSE]

NoPass == [on |-> FALSE, of |-> 0, visits |-> 0, saw |-> FALSE, queue |-> 0, solved |-> FALSE]
NewPass(g) == [on |-> TRUE, of |-> g, visits |-> 1, saw |-> FALSE, queue |-> 0, solved |-> FALSE]

SessionInit ==
  /\ Init
  /\ solveGeneration = 0 /\ stage = [g \in Gens |-> "none"] /\ currentLayout = 0
  /\ lastLayout = NoLayout /\ issues = "none" /\ validating = 0 /\ frames = {}
  /\ pass = NoPass /\ todo = <<>>

\* A turn of the event loop: nothing is left of the one before.
Turn == todo = <<>> /\ continuations = <<>>
-----------------------------------------------------------------------------
(* runSolve: a new generation, and the first of its two calls.             *)
RunSolve ==
  LET g == solveGeneration + 1
  IN  /\ Turn
      /\ solveGeneration < MaxSolves
      /\ solveGeneration' = g
      /\ stage' = [stage EXCEPT ![g] = "solve"]
      /\ currentLayout' = 0
      /\ Request(SolveOf(g), "solve")
      /\ UNCHANGED <<lastLayout, issues, validating, frames, pass, todo>>

\* Mutant: a layout is not asked whether it is still wanted.
LandsAnyway(g) == g = solveGeneration \/ stage[g] = "layout"

\* gen === solveGeneration after an await.
Wanted(g) == g = solveGeneration

(* The icons are there: the layout is asked for, if nobody solved again.   *)
IconsLoaded(g) ==
  /\ Turn
  /\ stage[g] = "icons"
  /\ \/ /\ ~Wanted(g)
        /\ stage' = [stage EXCEPT ![g] = "stale"]
        /\ UNCHANGED vars
     \/ /\ Wanted(g)
        /\ stage' = [stage EXCEPT ![g] = "layout"]
        /\ Ask(SolveOf(g), "stream")
        /\ UNCHANGED requests
  /\ UNCHANGED <<solveGeneration, currentLayout, lastLayout, issues, validating, frames, pass, todo>>

\* renderLayoutOnCanvas, with the validation that it asks for.
Render(g) ==
  /\ lastLayout' = Layout(g)
  /\ issues' = "none" /\ validating' = g
  /\ todo' = Append(todo, CheckOf(g))
  /\ frames' = frames \cup {g}

\* Mutant: a superseded solve is taken for an outdated one.
FailsSilently(g) == "stale"
Fails(g) == "error"

(* runSolve goes on after a call.                                          *)
SolveGoesOn(g, ok) ==
  LET next == CASE ~Wanted(g) -> "stale"
                [] Wanted(g) /\ ~ok -> Fails(g)
                [] OTHER -> IF stage[g] = "solve" THEN "icons" ELSE "shown"
  IN  /\ stage' = [stage EXCEPT ![g] = next]
      /\ IF next = "shown" THEN currentLayout' = g /\ Render(g)
         ELSE UNCHANGED <<currentLayout, lastLayout, issues, validating, frames, todo>>
      /\ UNCHANGED <<solveGeneration, pass>>
-----------------------------------------------------------------------------
\* tryRunAutoOptimize, when the validation found what it did.
TryPass(g, found) ==
  IF found = "clean" /\ ~pass.on
  THEN pass' = NewPass(g) /\ todo' = Append(todo, ThePass)
  ELSE UNCHANGED <<pass, todo>>

(* The validation of a layout that is still shown; a rejected promise is   *)
(* caught as a layout without issues.                                      *)
CheckGoesOn(g, ok) ==
  /\ \/ /\ lastLayout.of = g /\ ~lastLayout.final
        /\ \E found \in IF ok THEN {"clean", "bad"} ELSE {"clean"} :
             issues' = found /\ TryPass(g, found)
        /\ validating' = 0
     \/ /\ lastLayout.of # g \/ lastLayout.final
        /\ UNCHANGED <<issues, validating, pass, todo>>
  /\ UNCHANGED <<solveGeneration, stage, currentLayout, lastLayout, frames>>

(* The first frame after a layout was rendered.                            *)
Frame(g) ==
  /\ Turn
  /\ g \in frames
  /\ frames' = frames \ {g}
  /\ IF lastLayout.of = g /\ ~lastLayout.final /\ validating # g THEN TryPass(g, issues)
     ELSE UNCHANGED <<pass, todo>>
  /\ UNCHANGED <<vars, solveGeneration, stage, currentLayout, lastLayout, issues, validating>>

\* The pass ends with its own layout on the canvas.
Finish ==
  /\ lastLayout' = [of |-> pass.of, final |-> TRUE, mixed |-> FALSE]
  /\ pass' = NoPass

\* Mutant: no finally.
GivesUpBusy == UNCHANGED <<pass, lastLayout>>
GivesUp == pass' = NoPass /\ UNCHANGED lastLayout

(* optimizeAllRegions goes on after a visit: with the next region, as long *)
(* as one was improved or is left in the round; or with the playback.      *)
PassGoesOn(ok) ==
  /\ \/ ~ok /\ GivesUp /\ UNCHANGED todo
     \/ /\ ok /\ pass.visits < MaxVisits
        /\ pass' = [pass EXCEPT !.visits = @ + 1, !.saw = FALSE]
        /\ todo' = Append(todo, ThePass)
        /\ UNCHANGED lastLayout
     \/ /\ ok /\ ~pass.saw /\ pass.queue > 0
        /\ pass' = [pass EXCEPT !.solved = TRUE]
        /\ UNCHANGED <<lastLayout, todo>>
     \/ ok /\ ~pass.saw /\ pass.queue = 0 /\ Finish /\ UNCHANGED todo
  /\ UNCHANGED <<solveGeneration, stage, currentLayout, issues, validating, frames>>

(* A SatImprovement event of the call in flight, which comes before its    *)
(* answer, and at most once in a visit.  (The last visit of the bound      *)
(* improves nothing: every pass ends.)                                     *)
Improved ==
  /\ Turn
  /\ ~pass.saw /\ pass.visits < MaxVisits
  /\ \E id \in DOMAIN pending :
       /\ pending[id] = ThePass /\ caller[ThePass] = Calling("stream")
       /\ IF inbox = <<>> THEN Head(posted).id = id ELSE Head(inbox).id = id
  /\ pass' = [pass EXCEPT !.saw = TRUE, !.queue = @ + 1]
  /\ UNCHANGED <<vars, solveGeneration, stage, currentLayout, lastLayout, issues, validating, frames, todo>>

(* drainTick: one improvement is spliced into the layout shown.            *)
Drain ==
  /\ Turn
  /\ pass.on /\ pass.queue > 0
  /\ pass' = [pass EXCEPT !.queue = @ - 1]
  /\ lastLayout' = [lastLayout EXCEPT !.mixed = @ \/ lastLayout.of # pass.of]
  /\ UNCHANGED <<vars, solveGeneration, stage, currentLayout, issues, validating, frames, todo>>

(* waitForDrain finds the queue empty.                                     *)
Drained ==
  /\ Turn
  /\ pass.on /\ pass.solved /\ pass.queue = 0
  /\ Finish
  /\ UNCHANGED <<vars, solveGeneration, stage, currentLayout, issues, validating, frames, todo>>
-----------------------------------------------------------------------------
\* A call that the page makes before the next turn.
PageCall ==
  /\ todo # <<>>
  /\ todo' = Tail(todo)
  /\ Ask(Head(todo), IF Head(todo) = ThePass THEN "stream" ELSE "plain")
  /\ UNCHANGED <<requests, solveGeneration, stage, currentLayout, lastLayout, issues, validating, frames, pass>>

\* An await goes on: of the boot, or of the page when its call is through.
PageContinue ==
  /\ todo = <<>>
  /\ Continue
  /\ LET c == Head(continuations).caller
         ok == Head(continuations).ok
     IN  \/ caller'[c] # Idle /\ UNCHANGED pageVars
         \/ caller'[c] = Idle /\ c[1] = "solve" /\ SolveGoesOn(c[2], ok)
         \/ caller'[c] = Idle /\ c[1] = "check" /\ CheckGoesOn(c[2], ok)
         \/ caller'[c] = Idle /\ c = ThePass /\ PassGoesOn(ok)
         \/ caller'[c] = Idle /\ c = Other /\ UNCHANGED pageVars

\* Exports, fixtures and cancelInFlight, at any time.
OtherRequest ==
  /\ todo = <<>>
  /\ \E op \in {"plain", "cancel"} : Request(Other, op)
  /\ UNCHANGED pageVars

SessionNext ==
  \/ RunSolve
  \/ \E g \in Gens : IconsLoaded(g) \/ Frame(g)
  \/ Improved \/ Drain \/ Drained
  \/ OtherRequest \/ PageCall \/ PageContinue
  \/ (Receive \/ \E ok \in BOOLEAN : Answer(ok)) /\ todo = <<>> /\ UNCHANGED pageVars

SessionSpec == SessionInit /\ [][SessionNext]_sessionVars

\* The worker works on what it has been sent, the icons load, and the event
\* loop runs, with its frames.
FairSession ==
  /\ SessionSpec
  /\ WF_sessionVars(\E ok \in BOOLEAN : Answer(ok) /\ todo = <<>> /\ UNCHANGED pageVars)
  /\ WF_sessionVars(Receive /\ todo = <<>> /\ UNCHANGED pageVars)
  /\ WF_sessionVars(PageContinue \/ PageCall)
  /\ WF_sessionVars(\E g \in Gens : IconsLoaded(g))
  /\ WF_sessionVars(Drain \/ Drained)
-----------------------------------------------------------------------------
(* What Copy exports is of the newest solve: the layout of an older one,   *)
(* which can still come in when its request was made during a boot and so  *)
(* superseded by nobody, is not put in its place.                          *)
BlueprintIsNewest == currentLayout # 0 => currentLayout = solveGeneration

(* The newest solve ends with its layout or with an error that the user is *)
(* told, whoever supersedes it: it is never dropped as an outdated one.    *)
NewestEnds ==
  \A g \in Gens : solveGeneration = g ~> solveGeneration # g \/ stage[g] \in {"shown", "error"}

(* An optimise pass ends, and the next layout can have its own, whatever   *)
(* supersedes its calls and however many improvements are queued.          *)
PassEnds == pass.on ~> ~pass.on

(* "if the user triggers a new solve, the worker is superseded and the     *)
(* queue is abandoned" (runAutoOptimize): what the canvas shows is the     *)
(* layout that the sidebar exports, with improvements of its own only.     *)
QueueAbandoned ==
  currentLayout # 0 => lastLayout.of = currentLayout /\ ~lastLayout.mixed
=============================================================================

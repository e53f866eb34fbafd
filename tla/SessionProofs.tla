--------------------------- MODULE SessionProofs ---------------------------
(***************************************************************************)
(* The busy overlay and the blueprint of the page, for any boot sequence,  *)
(* any number of solves and any overlap of the calls.                      *)
(***************************************************************************)
EXTENDS Session, FiniteSetTheorems, TLAPS

\* A promise has a number that was given out, and no number is given twice.
PendingIsCounted ==
  /\ nextId \in Nat
  /\ IsFiniteSet(DOMAIN pending)
  /\ \A id \in DOMAIN pending : id \in Nat /\ id <= nextId

IInv == PendingIsCounted /\ ActivityIsPending

(* One more promise, under a new number.                                   *)
LEMMA CallCounts ==
  ASSUME IInv, NEW c, NEW op, Call(c, op)
  PROVE  IInv'
<1>1. DOMAIN pending' = DOMAIN pending \cup {nextId + 1}
  BY DEF Call
<1>2. nextId + 1 \notin DOMAIN pending
  BY DEF IInv, PendingIsCounted
<1>3. /\ IsFiniteSet(DOMAIN pending')
      /\ Cardinality(DOMAIN pending') = Cardinality(DOMAIN pending) + 1
  BY <1>1, <1>2, FS_AddElement DEF IInv, PendingIsCounted
<1>. QED
  BY <1>1, <1>3 DEF IInv, PendingIsCounted, ActivityIsPending, Call

(* A respawn leaves one promise: that of the first call of the boot.       *)
LEMMA SupersedeCounts ==
  ASSUME IInv, NEW c, NEW op, Supersede(c, op)
  PROVE  IInv'
<1>1. DOMAIN pending' = {nextId + 1}
  BY DEF Supersede
<1>2. IsFiniteSet(DOMAIN pending') /\ Cardinality(DOMAIN pending') = 1
  BY <1>1, FS_Singleton
<1>3. Cardinality(DOMAIN pending) \in Nat
  BY FS_CardinalityType DEF IInv, PendingIsCounted
<1>4. activeCount' = 1
  BY <1>3 DEF Supersede, Rejected, IInv, ActivityIsPending
<1>. QED
  BY <1>1, <1>2, <1>4 DEF IInv, PendingIsCounted, ActivityIsPending, Supersede

LEMMA AskCounts ==
  ASSUME IInv, NEW c, NEW op, Ask(c, op)
  PROVE  IInv'
BY CallCounts, SupersedeCounts DEF Ask, Post

(* A settled promise is taken off the map and off the count.               *)
LEMMA ReceiveCounts ==
  ASSUME IInv, Receive
  PROVE  IInv'
<1> DEFINE id == Head(inbox).id
<1>1. CASE id \in DOMAIN pending
  <2>1. DOMAIN pending' = DOMAIN pending \ {id}
    BY <1>1 DEF Receive
  <2>2. /\ IsFiniteSet(DOMAIN pending')
        /\ Cardinality(DOMAIN pending') = Cardinality(DOMAIN pending) - 1
    BY <1>1, <2>1, FS_RemoveElement DEF IInv, PendingIsCounted
  <2>3. activeCount' = activeCount - 1 /\ nextId' = nextId
    BY <1>1 DEF Receive
  <2>. QED
    BY <2>1, <2>2, <2>3 DEF IInv, PendingIsCounted, ActivityIsPending
<1>2. CASE id \notin DOMAIN pending
  BY <1>2 DEF Receive, IInv, PendingIsCounted, ActivityIsPending
<1>. QED  BY <1>1, <1>2

LEMMA ContinueCounts ==
  ASSUME IInv, Continue
  PROVE  IInv'
<1> DEFINE c == Head(continuations).caller
           at == caller[c]
<1>1. CASE BootOn(c, at.op, at.step)
  BY <1>1, CallCounts DEF BootOn, Post, Settle, IInv, PendingIsCounted, ActivityIsPending
<1>2. CASE Settle(c)
  BY <1>2 DEF Settle, IInv, PendingIsCounted, ActivityIsPending
<1>. QED  BY <1>1, <1>2 DEF Continue

LEMMA UnchangedCounts ==
  ASSUME IInv, UNCHANGED <<pending, nextId, activeCount>>
  PROVE  IInv'
BY DEF IInv, PendingIsCounted, ActivityIsPending

LEMMA NextCounts == IInv /\ [SessionNext]_sessionVars => IInv'
<1> SUFFICES ASSUME IInv, [SessionNext]_sessionVars PROVE IInv'
  OBVIOUS
<1>1. CASE RunSolve
  BY <1>1, AskCounts DEF RunSolve, Request
<1>2. ASSUME NEW g \in Gens, IconsLoaded(g) PROVE IInv'
  BY <1>2, AskCounts, UnchangedCounts DEF IconsLoaded, vars
<1>3. ASSUME NEW g \in Gens, Frame(g) PROVE IInv'
  BY <1>3, UnchangedCounts DEF Frame, vars
<1>4. CASE Improved \/ Drain \/ Drained
  BY <1>4, UnchangedCounts DEF Improved, Drain, Drained, vars
<1>5. CASE OtherRequest
  BY <1>5, AskCounts DEF OtherRequest, Request
<1>6. CASE PageCall
  BY <1>6, AskCounts DEF PageCall
<1>7. CASE PageContinue
  BY <1>7, ContinueCounts DEF PageContinue
<1>8. CASE Receive
  BY <1>8, ReceiveCounts
<1>9. CASE \E ok \in BOOLEAN : Answer(ok)
  BY <1>9, UnchangedCounts DEF Answer
<1>10. CASE UNCHANGED sessionVars
  BY <1>10, UnchangedCounts DEF sessionVars, vars
<1>. QED
  BY <1>1, <1>2, <1>3, <1>4, <1>5, <1>6, <1>7, <1>8, <1>9, <1>10 DEF SessionNext

(* Whatever is called, superseded, answered late or never, the counter     *)
(* behind the busy overlay is the number of pending promises: the overlay  *)
(* neither stays for ever nor goes too early (postActivity, engine.ts).    *)
THEOREM OverlayIsRight == SessionSpec => []ActivityIsPending
<1>1. SessionInit => IInv
  <2>1. SessionInit => DOMAIN pending = {} /\ nextId = 0 /\ activeCount = 0
    BY DEF SessionInit, Init
  <2>. QED
    BY <2>1, FS_EmptySet DEF IInv, PendingIsCounted, ActivityIsPending
<1>2. IInv => ActivityIsPending
  BY DEF IInv
<1>. QED  BY <1>1, <1>2, NextCounts, PTL DEF SessionSpec

-----------------------------------------------------------------------------
(* Messages.                                                               *)

IsSequence(s) == s \in Seq({s[i] : i \in DOMAIN s})
Ids(s) == {s[i].id : i \in DOMAIN s}

LEMMA Appended ==
  ASSUME NEW s, IsSequence(s), NEW e
  PROVE  IsSequence(Append(s, e)) /\ Ids(Append(s, e)) = Ids(s) \cup {e.id}
<1> DEFINE S == {s[i] : i \in DOMAIN s} \cup {e}
           r == Append(s, e)
<1>1. s \in [1..Len(s) -> S] /\ Len(s) \in Nat
  BY DEF IsSequence
<1>2. s \in Seq(S) /\ DOMAIN s = 1..Len(s)
  BY <1>1
<1> HIDE DEF S
<1>3. e \in S
  BY DEF S
<1>4. /\ r \in Seq(S) /\ Len(r) = Len(s) + 1 /\ DOMAIN r = 1..Len(r)
      /\ r[Len(s) + 1] = e /\ \A i \in 1..Len(s) : r[i] = s[i]
  BY <1>2, <1>3
<1> HIDE DEF r
<1>5. r \in [1..Len(r) -> {r[i] : i \in DOMAIN r}] /\ Len(r) \in Nat
  BY <1>4
<1>6. IsSequence(r)
  BY <1>5 DEF IsSequence
<1>7. DOMAIN r = DOMAIN s \cup {Len(s) + 1}
  BY <1>1, <1>2, <1>4
<1>8. Ids(r) = Ids(s) \cup {e.id}
  BY <1>1, <1>2, <1>4, <1>7 DEF Ids
<1>. QED  BY <1>6, <1>8 DEF r

LEMMA Taken ==
  ASSUME NEW s, IsSequence(s), s # <<>>
  PROVE  IsSequence(Tail(s)) /\ Ids(s) = Ids(Tail(s)) \cup {Head(s).id}
<1> DEFINE S == {s[i] : i \in DOMAIN s}
           r == Tail(s)
<1>1. s \in Seq(S)
  BY DEF IsSequence
<1> HIDE DEF S
<1>2. /\ r \in Seq(S) /\ Len(s) \in Nat \ {0} /\ Len(r) = Len(s) - 1
      /\ DOMAIN s = 1..Len(s) /\ DOMAIN r = 1..Len(r)
      /\ Head(s) = s[1] /\ \A i \in 1..Len(r) : r[i] = s[i + 1]
  BY <1>1
<1> HIDE DEF r
<1>3. r \in [1..Len(r) -> {r[i] : i \in DOMAIN r}] /\ Len(r) \in Nat
  BY <1>2
<1>4. IsSequence(r)
  BY <1>3 DEF IsSequence
<1>5. \A i \in DOMAIN s : i = 1 \/ (i - 1 \in DOMAIN r /\ r[i - 1] = s[i])
  BY <1>2
<1>6. \A i \in DOMAIN r : i + 1 \in DOMAIN s /\ s[i + 1] = r[i]
  BY <1>2
<1>7. 1 \in DOMAIN s
  BY <1>2
<1>8. Ids(s) = Ids(r) \cup {Head(s).id}
  <2>1. ASSUME NEW i \in DOMAIN s PROVE s[i].id \in Ids(r) \cup {Head(s).id}
    <3>1. CASE i = 1
      BY <1>2, <3>1
    <3>2. CASE i - 1 \in DOMAIN r /\ r[i - 1] = s[i]
      BY <3>2 DEF Ids
    <3>. QED  BY <1>5, <3>1, <3>2
  <2>2. ASSUME NEW i \in DOMAIN r PROVE r[i].id \in Ids(s)
    BY <1>6 DEF Ids
  <2>3. Head(s).id \in Ids(s)
    BY <1>2, <1>7 DEF Ids
  <2>. QED  BY <2>1, <2>2, <2>3 DEF Ids
<1>. QED  BY <1>4, <1>8 DEF r

MailInv ==
  /\ IsSequence(posted) /\ IsSequence(inbox)
  /\ DOMAIN pending \subseteq Ids(posted) \cup Ids(inbox)

LEMMA CallFlies ==
  ASSUME MailInv, NEW c, NEW op, Call(c, op), inbox' = inbox
  PROVE  MailInv'
BY Appended DEF Call, Message, MailInv

LEMMA SupersedeFlies ==
  ASSUME MailInv, NEW c, NEW op, Supersede(c, op)
  PROVE  MailInv'
<1>1. DOMAIN pending' = {nextId + 1}
  BY DEF Supersede
<1>2. IsSequence(<<>>) /\ posted' = Append(<<>>, Message(nextId + 1, Boot[1]))
  BY DEF IsSequence, Supersede
<1>3. IsSequence(posted') /\ nextId + 1 \in Ids(posted')
  BY <1>2, Appended DEF Message
<1>4. IsSequence(inbox')
  BY <1>2 DEF Supersede, MailInv
<1>. QED  BY <1>1, <1>3, <1>4 DEF MailInv

LEMMA AskFlies ==
  ASSUME MailInv, NEW c, NEW op, Ask(c, op)
  PROVE  MailInv'
BY CallFlies, SupersedeFlies DEF Ask, Post

LEMMA UnchangedFlies ==
  ASSUME MailInv, UNCHANGED <<posted, inbox, pending>>
  PROVE  MailInv'
BY DEF MailInv

LEMMA NextFlies == MailInv /\ [SessionNext]_sessionVars => MailInv'
<1> SUFFICES ASSUME MailInv, [SessionNext]_sessionVars PROVE MailInv'
  OBVIOUS
<1>1. CASE RunSolve
  BY <1>1, AskFlies DEF RunSolve, Request
<1>2. ASSUME NEW g \in Gens, IconsLoaded(g) PROVE MailInv'
  BY <1>2, AskFlies, UnchangedFlies DEF IconsLoaded, vars
<1>3. ASSUME NEW g \in Gens, Frame(g) PROVE MailInv'
  BY <1>3, UnchangedFlies DEF Frame, vars
<1>4. CASE Improved \/ Drain \/ Drained
  BY <1>4, UnchangedFlies DEF Improved, Drain, Drained, vars
<1>5. CASE OtherRequest
  BY <1>5, AskFlies DEF OtherRequest, Request
<1>6. CASE PageCall
  BY <1>6, AskFlies DEF PageCall
<1>7. CASE PageContinue
  BY <1>7, CallFlies, UnchangedFlies DEF PageContinue, Continue, BootOn, Post, Settle
<1>8. CASE Receive
  <2>1. IsSequence(inbox') /\ Ids(inbox) = Ids(inbox') \cup {Head(inbox).id}
    BY <1>8, Taken DEF Receive, MailInv
  <2>2. posted' = posted /\ DOMAIN pending' = DOMAIN pending \ {Head(inbox).id}
    BY <1>8 DEF Receive
  <2>. QED  BY <2>1, <2>2 DEF MailInv
<1>9. ASSUME NEW ok \in BOOLEAN, Answer(ok) PROVE MailInv'
  <2>1. IsSequence(posted') /\ Ids(posted) = Ids(posted') \cup {Head(posted).id}
    BY <1>9, Taken DEF Answer, MailInv
  <2>2. IsSequence(inbox') /\ Ids(inbox') = Ids(inbox) \cup {Head(posted).id}
    BY <1>9, Appended DEF Answer, MailInv
  <2>. QED  BY <1>9, <2>1, <2>2 DEF MailInv, Answer
<1>10. CASE UNCHANGED sessionVars
  BY <1>10, UnchangedFlies DEF sessionVars, vars
<1>. QED
  BY <1>1, <1>2, <1>3, <1>4, <1>5, <1>6, <1>7, <1>8, <1>9, <1>10 DEF SessionNext

LEMMA InitFlies == SessionInit => MailInv
<1> SUFFICES ASSUME SessionInit PROVE MailInv
  OBVIOUS
<1>1. posted = <<>> /\ inbox = <<>> /\ DOMAIN pending = {}
  BY DEF SessionInit, Init
<1>2. IsSequence(<<>>)
  BY DEF IsSequence
<1>. QED  BY <1>1, <1>2 DEF MailInv

(* No promise waits for a worker that is gone: the message behind it, or   *)
(* its answer, is always on the way to or from the worker of now           *)
(* (supersedeWorker rejects every promise of the worker it ends).          *)
THEOREM NothingWaitsInVain == SessionSpec => []PromisesInFlight
<1>1. MailInv => PromisesInFlight
  <2> SUFFICES ASSUME MailInv, NEW id \in DOMAIN pending PROVE InFlight(id)
    BY DEF PromisesInFlight
  <2>1. DOMAIN posted = 1..Len(posted) /\ DOMAIN inbox = 1..Len(inbox)
    BY DEF MailInv, IsSequence
  <2>. QED  BY <2>1 DEF MailInv, Ids, InFlight
<1>. QED  BY <1>1, InitFlies, NextFlies, PTL DEF SessionSpec

-----------------------------------------------------------------------------
(* Whatever overtakes what, Copy exports a layout of the newest solve: a   *)
(* runSolve whose generation has passed stops at each of its awaits.       *)
THEOREM CopiesTheNewest == SessionSpec => []BlueprintIsNewest
<1>1. SessionInit => BlueprintIsNewest
  BY DEF SessionInit, BlueprintIsNewest
<1>2. BlueprintIsNewest /\ [SessionNext]_sessionVars => BlueprintIsNewest'
  <2> SUFFICES ASSUME BlueprintIsNewest, [SessionNext]_sessionVars PROVE BlueprintIsNewest'
    OBVIOUS
  <2>1. CASE RunSolve
    BY <2>1 DEF RunSolve, BlueprintIsNewest
  <2>2. CASE PageContinue
    BY <2>2 DEF PageContinue, SolveGoesOn, Wanted, CheckGoesOn, PassGoesOn, pageVars, BlueprintIsNewest
  <2>3. CASE UNCHANGED <<solveGeneration, currentLayout>>
    BY <2>3 DEF BlueprintIsNewest
  <2>. QED
    BY <2>1, <2>2, <2>3 DEF SessionNext, IconsLoaded, Frame, Improved, Drain, Drained, OtherRequest,
       PageCall, pageVars, sessionVars
<1>. QED  BY <1>1, <1>2, PTL DEF SessionSpec

-----------------------------------------------------------------------------
(* Promises.                                                               *)

Asked(s) == {s[n].caller : n \in DOMAIN s}
Once(s) == \A m, n \in DOMAIN s : s[m].caller = s[n].caller => m = n
Holders == {pending[id] : id \in DOMAIN pending}

LEMMA TakenOnce ==
  ASSUME NEW s, IsSequence(s), s # <<>>, Once(s)
  PROVE  /\ IsSequence(Tail(s)) /\ Once(Tail(s))
         /\ Asked(s) = Asked(Tail(s)) \cup {Head(s).caller}
         /\ Head(s).caller \notin Asked(Tail(s))
<1> DEFINE S == {s[i] : i \in DOMAIN s}
           r == Tail(s)
<1>1. s \in Seq(S)
  BY DEF IsSequence
<1> HIDE DEF S
<1>2. /\ Len(s) \in Nat \ {0} /\ Len(r) = Len(s) - 1
      /\ DOMAIN s = 1..Len(s) /\ DOMAIN r = 1..Len(r)
      /\ Head(s) = s[1] /\ \A i \in 1..Len(r) : r[i] = s[i + 1]
  BY <1>1
<1>3. IsSequence(r)
  BY Taken
<1> HIDE DEF r
<1>4. 1 \in DOMAIN s /\ \A i \in DOMAIN r : i + 1 \in DOMAIN s /\ s[i + 1] = r[i]
  BY <1>2
<1>5. \A i \in DOMAIN s : i = 1 \/ (i - 1 \in DOMAIN r /\ r[i - 1] = s[i])
  BY <1>2
<1>6. Once(r)
  <2> SUFFICES ASSUME NEW m \in DOMAIN r, NEW n \in DOMAIN r, r[m].caller = r[n].caller
               PROVE  m = n
    BY DEF Once
  <2>1. m + 1 = n + 1
    BY <1>4 DEF Once
  <2>. QED  BY <1>2, <2>1
<1>7. Head(s).caller \notin Asked(r)
  <2> SUFFICES ASSUME NEW n \in DOMAIN r, r[n].caller = Head(s).caller PROVE FALSE
    BY DEF Asked
  <2>1. n + 1 = 1
    BY <1>2, <1>4 DEF Once
  <2>. QED  BY <1>2, <2>1
<1>8. Asked(s) = Asked(r) \cup {Head(s).caller}
  <2>1. ASSUME NEW i \in DOMAIN s PROVE s[i].caller \in Asked(r) \cup {Head(s).caller}
    <3>1. CASE i = 1
      BY <1>2, <3>1
    <3>2. CASE i - 1 \in DOMAIN r /\ r[i - 1] = s[i]
      BY <3>2 DEF Asked
    <3>. QED  BY <1>5, <3>1, <3>2
  <2>2. ASSUME NEW i \in DOMAIN r PROVE r[i].caller \in Asked(s)
    BY <1>4 DEF Asked
  <2>3. Head(s).caller \in Asked(s)
    BY <1>2, <1>4 DEF Asked
  <2>. QED  BY <2>1, <2>2, <2>3 DEF Asked
<1>. QED  BY <1>3, <1>6, <1>7, <1>8 DEF r

(* A caller that is not idle has one promise, pending or just settled.     *)
OnePromise ==
  /\ IsSequence(continuations) /\ Once(continuations)
  /\ \A i, j \in DOMAIN pending : pending[i] = pending[j] => i = j
  /\ Holders \cap Asked(continuations) = {}
  /\ Holders \cup Asked(continuations) = {c \in Callers : caller[c] # Idle}

CallerState == [at : {"idle", "boot", "call"}, op : Ops, step : Int]
CallerType == caller \in [Callers -> CallerState]

PromiseInv == PendingIsCounted /\ CallerType /\ OnePromise

(* A call by somebody who has no promise, or whose settled promise it      *)
(* follows.                                                                *)
LEMMA CallPromises ==
  ASSUME PromiseInv, NEW c \in Callers, NEW op, Call(c, op),
         NEW state \in CallerState, state # Idle,
         caller' = [caller EXCEPT ![c] = state],
         IsSequence(continuations'), Once(continuations'),
         Asked(continuations') = Asked(continuations) \ {c},
         c \notin Holders
  PROVE  PromiseInv'
<1> USE DEF PromiseInv
<1>1. /\ DOMAIN pending' = DOMAIN pending \cup {nextId + 1} /\ nextId + 1 \notin DOMAIN pending
      /\ pending'[nextId + 1] = c /\ \A id \in DOMAIN pending : pending'[id] = pending[id]
  BY DEF Call, PendingIsCounted
<1>2. PendingIsCounted'
  BY <1>1, FS_AddElement DEF Call, PendingIsCounted
<1>3. CallerType'
  BY DEF CallerType
<1>4. Holders' = Holders \cup {c}
  BY <1>1 DEF Holders
<1>5. \A i, j \in DOMAIN pending' : pending'[i] = pending'[j] => i = j
  BY <1>1 DEF OnePromise, Holders
<1>6. {x \in Callers : caller'[x] # Idle} = {x \in Callers : caller[x] # Idle} \cup {c}
  BY DEF CallerType
<1>7. (Holders \cap Asked(continuations) = {})' /\ (Holders \cup Asked(continuations) = {x \in Callers : caller[x] # Idle})'
  BY <1>4, <1>6 DEF OnePromise
<1>. QED  BY <1>2, <1>3, <1>5, <1>7 DEF OnePromise

(* The refusals of a respawn: each pending promise once.                   *)
LEMMA Refused ==
  ASSUME PromiseInv, NEW ids \in [1..Cardinality(DOMAIN pending) -> DOMAIN pending], InMapOrder(ids),
         continuations' = continuations \o Refusals(ids)
  PROVE  /\ IsSequence(continuations') /\ Once(continuations')
         /\ Asked(continuations') = Asked(continuations) \cup Holders
<1> USE DEF PromiseInv
<1> DEFINE k == Cardinality(DOMAIN pending)
           r == Refusals(ids)
<1>1. k \in Nat /\ IsFiniteSet(DOMAIN pending)
  BY FS_CardinalityType DEF PendingIsCounted
<1>2. \A m, n \in 1..k : ids[m] = ids[n] => m = n
  <2> SUFFICES ASSUME NEW m \in 1..k, NEW n \in 1..k, m # n PROVE ids[m] # ids[n]
    OBVIOUS
  <2>1. ids[m] \in Nat /\ ids[n] \in Nat
    BY DEF PendingIsCounted
  <2>2. m < n \/ n < m
    BY <1>1
  <2>. QED  BY <2>1, <2>2 DEF InMapOrder
<1>3. \A id \in DOMAIN pending : \E n \in 1..k : ids[n] = id
  <2>1. ids \in Injection(1..k, DOMAIN pending)
    BY <1>2 DEF Injection, IsInjective
  <2>2. Cardinality(1..k) = k
    BY <1>1, FS_Interval
  <2>3. ids \in Surjection(1..k, DOMAIN pending)
    BY <1>1, <2>1, <2>2, FS_Injection
  <2>. QED  BY <2>3 DEF Surjection
<1>4. /\ DOMAIN r = 1..k /\ \A n \in 1..k : r[n].caller = pending[ids[n]]
      /\ r \in [1..k -> {r[n] : n \in DOMAIN r}]
  BY DEF Refusals
<1> HIDE DEF r
<1>5. Asked(r) = Holders
  <2>1. ASSUME NEW n \in 1..k PROVE r[n].caller \in Holders
    BY <1>4 DEF Holders
  <2>2. ASSUME NEW id \in DOMAIN pending PROVE \E n \in 1..k : r[n].caller = pending[id]
    BY <1>3, <1>4
  <2>. QED  BY <1>4, <2>1, <2>2 DEF Asked, Holders
<1>6. Once(r)
  BY <1>2, <1>4 DEF Once, OnePromise
<1> DEFINE A == {continuations[n] : n \in DOMAIN continuations}
           B == {r[n] : n \in DOMAIN r}
           S == A \cup B
           l == Len(continuations)
           t == continuations \o r
<1>7. continuations \in Seq(A) /\ r \in Seq(B)
  <2>1. r \in [1..k -> B] /\ k \in Nat
    BY <1>1, <1>4
  <2>. QED  BY <2>1 DEF OnePromise, IsSequence
<1>8. continuations \in Seq(S) /\ r \in Seq(S)
  BY <1>7
<1> HIDE DEF A, B, S
<1>9. /\ t \in Seq(S) /\ l \in Nat /\ DOMAIN continuations = 1..l /\ DOMAIN t = 1..(l + k) /\ Len(t) = l + k
      /\ \A n \in 1..l : t[n] = continuations[n]
      /\ \A n \in 1..k : t[l + n] = r[n]
  BY <1>1, <1>4, <1>8
<1> HIDE DEF t, l, k
<1>10. IsSequence(t)
  <2>1. t \in [1..Len(t) -> {t[n] : n \in DOMAIN t}] /\ Len(t) \in Nat
    BY <1>9
  <2>. QED  BY <2>1 DEF IsSequence
<1>11. \A n \in DOMAIN t : n \in DOMAIN continuations \/ (n - l \in 1..k /\ t[n] = r[n - l])
  <2> SUFFICES ASSUME NEW n \in DOMAIN t, n \notin 1..l PROVE n - l \in 1..k /\ t[n] = r[n - l]
    BY <1>9
  <2>1. n - l \in 1..k /\ l + (n - l) = n
    BY <1>1, <1>9
  <2>. QED  BY <1>9, <2>1
<1>12. Asked(t) = Asked(continuations) \cup Asked(r)
  <2>1. ASSUME NEW n \in DOMAIN t PROVE t[n].caller \in Asked(continuations) \cup Asked(r)
    BY <1>4, <1>9, <1>11 DEF Asked
  <2>2. ASSUME NEW n \in DOMAIN continuations PROVE continuations[n].caller \in Asked(t)
    BY <1>1, <1>9 DEF Asked
  <2>3. ASSUME NEW n \in 1..k PROVE r[n].caller \in Asked(t)
    <3>1. l + n \in DOMAIN t
      BY <1>1, <1>9
    <3>. QED  BY <1>9, <3>1 DEF Asked
  <2>. QED  BY <1>4, <2>1, <2>2, <2>3 DEF Asked
<1>13. Once(t)
  <2> SUFFICES ASSUME NEW m \in DOMAIN t, NEW n \in DOMAIN t, t[m].caller = t[n].caller PROVE m = n
    BY DEF Once
  <2>1. CASE m \in 1..l /\ n \in 1..l
    BY <1>9, <2>1 DEF Once, OnePromise
  <2>2. CASE m \in 1..l /\ n \notin 1..l
    <3>1. t[m].caller \in Asked(continuations) /\ t[n].caller \in Asked(r)
      BY <1>4, <1>9, <1>11, <2>2 DEF Asked
    <3>. QED  BY <1>5, <3>1 DEF OnePromise
  <2>3. CASE m \notin 1..l /\ n \in 1..l
    <3>1. t[n].caller \in Asked(continuations) /\ t[m].caller \in Asked(r)
      BY <1>4, <1>9, <1>11, <2>3 DEF Asked
    <3>. QED  BY <1>5, <3>1 DEF OnePromise
  <2>4. CASE m \notin 1..l /\ n \notin 1..l
    <3>1. m - l \in 1..k /\ n - l \in 1..k /\ r[m - l].caller = r[n - l].caller
      BY <1>9, <1>11, <2>4
    <3>2. m - l = n - l
      BY <1>4, <1>6, <3>1 DEF Once
    <3>. QED  BY <1>9, <3>2
  <2>. QED  BY <2>1, <2>2, <2>3, <2>4
<1>. QED  BY <1>5, <1>10, <1>12, <1>13 DEF t, r

(* A respawn: every promise is settled, and its caller has the only one.   *)
LEMMA SupersedePromises ==
  ASSUME PromiseInv, NEW c \in Callers, caller[c] = Idle, NEW op \in Ops, Supersede(c, op)
  PROVE  PromiseInv'
<1> USE DEF PromiseInv
<1>1. /\ DOMAIN pending' = {nextId + 1} /\ pending'[nextId + 1] = c
      /\ nextId' = nextId + 1 /\ caller' = [caller EXCEPT ![c] = Booting(op, 1)]
  BY DEF Supersede
<1>2. PendingIsCounted'
  <2>1. IsFiniteSet(DOMAIN pending')
    BY <1>1, FS_Singleton
  <2>. QED  BY <1>1, <2>1 DEF PendingIsCounted
<1>3. CallerType' /\ caller'[c] # Idle
  BY <1>1 DEF CallerType, CallerState, Booting, Idle
<1>4. /\ IsSequence(continuations') /\ Once(continuations')
      /\ Asked(continuations') = Asked(continuations) \cup Holders
  BY Refused DEF Supersede, Rejected
<1>5. Holders' = {c}
  BY <1>1 DEF Holders
<1>6. c \notin Holders \cup Asked(continuations)
  BY DEF OnePromise
<1>7. {x \in Callers : caller'[x] # Idle} = {x \in Callers : caller[x] # Idle} \cup {c}
  BY <1>1, <1>3 DEF CallerType
<1>8. (Holders \cap Asked(continuations) = {})' /\ (Holders \cup Asked(continuations) = {x \in Callers : caller[x] # Idle})'
  BY <1>4, <1>5, <1>6, <1>7 DEF OnePromise
<1>9. \A i, j \in DOMAIN pending' : pending'[i] = pending'[j] => i = j
  BY <1>1
<1>. QED  BY <1>2, <1>3, <1>4, <1>8, <1>9 DEF OnePromise

(* Whoever asks has no promise yet.                                        *)
LEMMA AskPromises ==
  ASSUME PromiseInv, NEW c \in Callers, caller[c] = Idle, NEW op \in Ops, Ask(c, op)
  PROVE  /\ PromiseInv'
         /\ caller'[c] # Idle /\ \A x \in Callers \ {c} : caller'[x] = caller[x]
<1> USE DEF PromiseInv
<1>1. CASE Supersede(c, op)
  BY <1>1, SupersedePromises DEF Supersede, CallerType, Booting, Idle
<1>2. CASE Post(c, op) /\ continuations' = continuations
  <2>1. Calling(op) \in CallerState /\ Calling(op) # Idle
    BY DEF Calling, Idle, CallerState
  <2>2. Call(c, op) /\ caller' = [caller EXCEPT ![c] = Calling(op)]
    BY <1>2 DEF Post
  <2>3. c \notin Holders \cup Asked(continuations)
    BY DEF OnePromise
  <2>4. PromiseInv'
    BY <1>2, <2>1, <2>2, <2>3, CallPromises DEF OnePromise
  <2>. QED  BY <2>1, <2>2, <2>4 DEF CallerType
<1>. QED  BY <1>1, <1>2 DEF Ask

(* An answer settles the promise of its number, and no other.              *)
LEMMA ReceivePromises ==
  ASSUME PromiseInv, Receive
  PROVE  PromiseInv'
<1> USE DEF PromiseInv
<1> DEFINE id == Head(inbox).id
<1>1. CASE id \in DOMAIN pending
  <2>1. /\ pending' = [i \in DOMAIN pending \ {id} |-> pending[i]]
        /\ continuations' = <<[caller |-> pending[id], ok |-> Head(inbox).ok]>>
        /\ nextId' = nextId /\ caller' = caller /\ continuations = <<>>
    BY <1>1 DEF Receive
  <2> HIDE DEF id
  <2>2. PendingIsCounted'
    BY <2>1, <1>1, FS_RemoveElement DEF PendingIsCounted
  <2>3. IsSequence(continuations') /\ Once(continuations') /\ Asked(continuations') = {pending[id]}
    <3>1. DOMAIN continuations' = {1} /\ continuations'[1].caller = pending[id]
      BY <2>1
    <3>2. continuations' \in Seq({continuations'[i] : i \in DOMAIN continuations'})
      BY <2>1, <3>1
    <3>. QED  BY <3>1, <3>2 DEF IsSequence, Once, Asked
  <2>4. Holders' = Holders \ {pending[id]}
    BY <1>1, <2>1 DEF Holders, OnePromise
  <2>5. Asked(continuations) = {} /\ pending[id] \in Holders
    BY <1>1, <2>1 DEF Asked, Holders
  <2>6. CallerType'
    BY <2>1 DEF CallerType
  <2>7. (Holders \cap Asked(continuations) = {})' /\ (Holders \cup Asked(continuations) = {x \in Callers : caller[x] # Idle})'
    BY <2>1, <2>3, <2>4, <2>5 DEF OnePromise
  <2>8. \A i, j \in DOMAIN pending' : pending'[i] = pending'[j] => i = j
    BY <2>1 DEF OnePromise
  <2>. QED  BY <2>2, <2>3, <2>6, <2>7, <2>8 DEF OnePromise
<1>2. CASE id \notin DOMAIN pending
  BY <1>2 DEF Receive, PendingIsCounted, CallerType, OnePromise, Holders
<1>. QED  BY <1>1, <1>2

(* A settled promise goes on: its caller makes another call or is done.    *)
LEMMA ContinuePromises ==
  ASSUME PromiseInv, Continue
  PROVE  LET c == Head(continuations).caller
         IN  /\ PromiseInv'
             /\ c \in Callers /\ caller[c] # Idle
             /\ \A x \in Callers \ {c} : caller'[x] = caller[x]
             /\ caller'[c] = Idle \/ caller'[c].at # "idle"
<1> USE DEF PromiseInv
<1> DEFINE c == Head(continuations).caller
           at == caller[c]
<1>1. /\ continuations' = Tail(continuations)
      /\ IsSequence(continuations') /\ Once(continuations')
      /\ Asked(continuations) = Asked(continuations') \cup {c} /\ c \notin Asked(continuations')
  BY TakenOnce DEF Continue, OnePromise
<1>2. c \in Callers /\ caller[c] # Idle /\ c \notin Holders
  BY <1>1 DEF OnePromise
<1>3. ASSUME NEW op, NEW state \in CallerState, state.at # "idle",
             Call(c, op), caller' = [caller EXCEPT ![c] = state]
      PROVE  PromiseInv' /\ (\A x \in Callers \ {c} : caller'[x] = caller[x]) /\ caller'[c].at # "idle"
  <2>1. state # Idle
    BY <1>3 DEF Idle
  <2>2. Asked(continuations') = Asked(continuations) \ {c}
    BY <1>1
  <2> HIDE DEF c
  <2>3. PromiseInv'
    BY <1>1, <1>2, <1>3, <2>1, <2>2, CallPromises
  <2>. QED  BY <1>2, <1>3, <2>3 DEF CallerType
<1>4. CASE Settle(c)
  <2>1. caller' = [caller EXCEPT ![c] = Idle] /\ pending' = pending /\ nextId' = nextId
    BY <1>4 DEF Settle
  <2>2. Holders' = Holders /\ PendingIsCounted'
    BY <2>1 DEF Holders, PendingIsCounted
  <2>3. CallerType'
    <3>1. Idle \in CallerState
      BY DEF Idle, CallerState, Ops
    <3>. QED  BY <2>1, <3>1 DEF CallerType
  <2>4. {x \in Callers : caller'[x] # Idle} = {x \in Callers : caller[x] # Idle} \ {c}
    BY <2>1, <1>2 DEF CallerType
  <2>5. (Holders \cap Asked(continuations) = {})' /\ (Holders \cup Asked(continuations) = {x \in Callers : caller[x] # Idle})'
    BY <1>1, <1>2, <2>2, <2>4 DEF OnePromise
  <2>6. OnePromise'
    BY <1>1, <2>1, <2>5 DEF OnePromise
  <2>. QED  BY <1>2, <2>1, <2>2, <2>3, <2>6 DEF CallerType
<1>5. CASE BootOn(c, at.op, at.step)
  <2>1. at \in CallerState
    BY <1>2 DEF CallerType
  <2>2. Booting(at.op, at.step + 1) \in CallerState
    BY <2>1 DEF Booting, CallerState
  <2>3. Calling(at.op) \in CallerState
    BY <2>1 DEF Calling, CallerState
  <2>4. Booting(at.op, at.step + 1).at # "idle" /\ Calling(at.op).at # "idle"
    BY DEF Booting, Calling
  <2>5. CASE Call(c, Boot[at.step + 1]) /\ caller' = [caller EXCEPT ![c] = Booting(at.op, at.step + 1)]
    BY <1>2, <1>3, <2>2, <2>4, <2>5
  <2>6. CASE Post(c, at.op)
    BY <1>2, <1>3, <2>3, <2>4, <2>6 DEF Post
  <2>7. CASE Settle(c)
    BY <1>4, <2>7
  <2>. QED  BY <1>5, <2>5, <2>6, <2>7 DEF BootOn
<1>. QED  BY <1>4, <1>5, <1>2 DEF Continue

-----------------------------------------------------------------------------
(* The page: who asks, and when.                                           *)

Stages == {"none", "solve", "icons", "layout", "shown", "error", "stale"}
Passes == [on : BOOLEAN, of : Int, visits : Int, saw : BOOLEAN, queue : Int, solved : BOOLEAN]

\* A call of c is under way or about to be made.
Engaged(c) == caller[c] # Idle \/ todo = <<c>>

(* One call is about to be made at most, by somebody who is idle; each     *)
(* runSolve asks while it awaits its solve or its layout; a validation is  *)
(* asked for by a layout that was shown, and the pass asks while it is on. *)
PageInv ==
  /\ todo = <<>> \/ \E c \in Callers : todo = <<c>> /\ caller[c] = Idle
  /\ solveGeneration \in Nat
  /\ stage \in [Gens -> Stages]
  /\ pass \in Passes
  /\ \A g \in Gens : g > solveGeneration => stage[g] = "none"
  /\ \A g \in Gens : caller[SolveOf(g)] # Idle => stage[g] \in {"solve", "layout"}
  /\ \A g \in Gens : Engaged(CheckOf(g)) => stage[g] = "shown"
  /\ Engaged(ThePass) => pass.on /\ ~pass.solved
  /\ \A g \in Gens : todo # <<SolveOf(g)>>

LEMMA Names ==
  /\ \A g \in Gens : SolveOf(g) \in Callers /\ CheckOf(g) \in Callers
  /\ ThePass \in Callers /\ Other \in Callers /\ ThePass # Other
  /\ \A g, h \in Gens : SolveOf(g) # CheckOf(h)
  /\ \A g \in Gens : /\ SolveOf(g) # ThePass /\ SolveOf(g) # Other
                     /\ CheckOf(g) # ThePass /\ CheckOf(g) # Other
  /\ \A g, h \in Gens : (SolveOf(g) = SolveOf(h) => g = h) /\ (CheckOf(g) = CheckOf(h) => g = h)
<1>1. Callers = {SolveOf(g) : g \in Gens} \cup {CheckOf(g) : g \in Gens} \cup {ThePass, Other}
  BY SessionAssumption
<1>2. ThePass[1] = "pass" /\ Other[1] = "other"
  BY DEF ThePass, Other
<1>3. \A g : SolveOf(g)[1] = "solve" /\ SolveOf(g)[2] = g /\ CheckOf(g)[1] = "check" /\ CheckOf(g)[2] = g
  BY DEF SolveOf, CheckOf
<1>. QED  BY <1>1, <1>2, <1>3

LEMMA Kinds ==
  ASSUME NEW c \in Callers
  PROVE  /\ c[1] = "solve" => c[2] \in Gens /\ c = SolveOf(c[2])
         /\ c[1] = "check" => c[2] \in Gens /\ c = CheckOf(c[2])
<1>1. c \in {SolveOf(g) : g \in Gens} \cup {CheckOf(g) : g \in Gens} \cup {ThePass, Other}
  BY SessionAssumption
<1>2. ThePass[1] = "pass" /\ Other[1] = "other"
  BY DEF ThePass, Other
<1>3. \A g : SolveOf(g)[1] = "solve" /\ SolveOf(g)[2] = g /\ CheckOf(g)[1] = "check" /\ CheckOf(g)[2] = g
  BY DEF SolveOf, CheckOf
<1>. QED  BY <1>1, <1>2, <1>3

(* The page's own state only changes with the caller states it depends on. *)
LEMMA PageStays ==
  ASSUME PageInv, UNCHANGED <<solveGeneration, stage, pass>>, todo' = todo \/ todo' = <<>>,
         \A c \in Callers : caller'[c] # Idle => caller[c] # Idle
  PROVE  PageInv'
<1>1. \A c \in Callers : Engaged(c)' => Engaged(c)
  <2> SUFFICES ASSUME NEW c \in Callers, Engaged(c)' PROVE Engaged(c)
    OBVIOUS
  <2>1. <<c>> # <<>>
    OBVIOUS
  <2>. QED  BY <2>1 DEF Engaged
<1>2. \A g : <<SolveOf(g)>> # <<>>
  OBVIOUS
<1>. QED  BY <1>1, <1>2, Names DEF PageInv

LEMMA RunSolveAsks ==
  ASSUME PromiseInv, PageInv, RunSolve
  PROVE  PromiseInv' /\ PageInv'
<1> DEFINE g == solveGeneration + 1
<1>1. g \in Gens
  BY SessionAssumption DEF PageInv, RunSolve, Gens
<1>2. /\ caller[SolveOf(g)] = Idle /\ Ask(SolveOf(g), "solve") /\ todo = <<>> /\ todo' = <<>>
      /\ solveGeneration' = g /\ stage' = [stage EXCEPT ![g] = "solve"] /\ pass' = pass
  BY DEF RunSolve, Request, Turn
<1>3. /\ PromiseInv' /\ \A x \in Callers \ {SolveOf(g)} : caller'[x] = caller[x]
  BY <1>1, <1>2, Names, AskPromises DEF Ops
<1>4. stage[g] = "none"
  BY <1>1 DEF PageInv
<1>5. stage' \in [Gens -> Stages] /\ stage'[g] = "solve" /\ \A h \in Gens \ {g} : stage'[h] = stage[h]
  BY <1>1, <1>2 DEF PageInv, Stages
<1>6. \A c : <<c>> # <<>>
  OBVIOUS
<1>7. \A h \in Gens : h > solveGeneration' => stage'[h] = "none"
  <2> SUFFICES ASSUME NEW h \in Gens, h > g PROVE stage'[h] = "none"
    BY <1>2
  <2>1. h # g /\ h > solveGeneration
    BY DEF PageInv, Gens
  <2>. QED  BY <2>1, <1>5 DEF PageInv
<1>8. \A h \in Gens : caller'[SolveOf(h)] # Idle => stage'[h] \in {"solve", "layout"}
  <2> SUFFICES ASSUME NEW h \in Gens, caller'[SolveOf(h)] # Idle PROVE stage'[h] \in {"solve", "layout"}
    OBVIOUS
  <2>1. CASE h # g
    BY <1>1, <1>3, <1>5, <2>1, Names DEF PageInv
  <2>. QED  BY <1>5, <2>1
<1>9. \A h \in Gens : Engaged(CheckOf(h))' => stage'[h] = "shown"
  <2> SUFFICES ASSUME NEW h \in Gens, Engaged(CheckOf(h))' PROVE stage'[h] = "shown"
    OBVIOUS
  <2>1. caller[CheckOf(h)] # Idle
    BY <1>1, <1>2, <1>3, <1>6, Names DEF Engaged
  <2>2. stage[h] = "shown" /\ h # g
    BY <1>4, <2>1 DEF PageInv, Engaged
  <2>. QED  BY <1>5, <2>2
<1>10. Engaged(ThePass)' => (pass.on /\ ~pass.solved)'
  BY <1>1, <1>2, <1>3, <1>6, Names DEF PageInv, Engaged
<1>. QED  BY <1>1, <1>2, <1>3, <1>5, <1>6, <1>7, <1>8, <1>9, <1>10 DEF PageInv

LEMMA IconsAsk ==
  ASSUME PromiseInv, PageInv, NEW g \in Gens, IconsLoaded(g)
  PROVE  PromiseInv' /\ PageInv'
<1>1. /\ stage[g] = "icons" /\ todo = <<>> /\ todo' = <<>>
      /\ UNCHANGED <<solveGeneration, pass>>
  BY DEF IconsLoaded, Turn
<1>2. caller[SolveOf(g)] = Idle /\ g <= solveGeneration
  BY <1>1 DEF PageInv, Gens
<1>3. \A c : <<c>> # <<>>
  OBVIOUS
<1>4. caller[CheckOf(g)] = Idle
  BY <1>1 DEF PageInv, Engaged
<1>5. ASSUME NEW to \in {"stale", "layout"}, stage' = [stage EXCEPT ![g] = to],
             \A x \in Callers \ {SolveOf(g)} : caller'[x] = caller[x],
             to = "layout" \/ caller'[SolveOf(g)] = Idle
      PROVE  PageInv'
  <2>1. stage' \in [Gens -> Stages] /\ stage'[g] = to /\ \A h \in Gens \ {g} : stage'[h] = stage[h]
    BY <1>5 DEF PageInv, Stages
  <2>2. \A h \in Gens : h > solveGeneration => h # g
    BY <1>2 DEF PageInv, Gens
  <2>3. \A h \in Gens : caller'[SolveOf(h)] # Idle => stage'[h] \in {"solve", "layout"}
    BY <1>5, <2>1, Names DEF PageInv
  <2>4. \A h \in Gens : Engaged(CheckOf(h))' => stage'[h] = "shown"
    BY <1>1, <1>3, <1>4, <1>5, <2>1, Names DEF PageInv, Engaged
  <2>5. Engaged(ThePass)' => (pass.on /\ ~pass.solved)'
    BY <1>1, <1>3, <1>5, Names DEF PageInv, Engaged
  <2>. QED  BY <1>1, <1>3, <2>1, <2>2, <2>3, <2>4, <2>5 DEF PageInv
<1>6. CASE ~Wanted(g)
  <2>1. stage' = [stage EXCEPT ![g] = "stale"] /\ UNCHANGED vars
    BY <1>6 DEF IconsLoaded
  <2>2. PromiseInv'
    BY <2>1 DEF vars, PromiseInv, PendingIsCounted, CallerType, OnePromise, Holders
  <2>. QED  BY <1>2, <1>5, <2>1, <2>2 DEF vars
<1>7. CASE Wanted(g)
  <2>1. stage' = [stage EXCEPT ![g] = "layout"] /\ Ask(SolveOf(g), "stream")
    BY <1>7 DEF IconsLoaded
  <2>2. PromiseInv' /\ \A x \in Callers \ {SolveOf(g)} : caller'[x] = caller[x]
    BY <1>2, <2>1, Names, AskPromises DEF Ops
  <2>. QED  BY <1>5, <2>1, <2>2
<1>. QED  BY <1>6, <1>7

LEMMA PageCallAsks ==
  ASSUME PromiseInv, PageInv, PageCall
  PROVE  PromiseInv' /\ PageInv'
<1>1. PICK c \in Callers : todo = <<c>> /\ caller[c] = Idle
  BY DEF PageCall, PageInv
<1>2. Head(todo) = c /\ todo' = <<>>
  BY <1>1 DEF PageCall
<1>3. \E op \in Ops : Ask(c, op)
  BY <1>2 DEF PageCall, Ops
<1>4. PromiseInv' /\ \A x \in Callers \ {c} : caller'[x] = caller[x]
  BY <1>1, <1>3, AskPromises
<1>5. UNCHANGED <<solveGeneration, stage, pass>>
  BY DEF PageCall
<1>6. \A x : <<x>> # <<>>
  OBVIOUS
<1>7. \A x \in Callers : Engaged(x)' => Engaged(x)
  BY <1>1, <1>2, <1>4, <1>6 DEF Engaged
<1>8. \A g \in Gens : c # SolveOf(g)
  BY <1>1 DEF PageInv
<1>9. \A g \in Gens : caller'[SolveOf(g)] # Idle => stage'[g] \in {"solve", "layout"}
  BY <1>4, <1>5, <1>8, Names DEF PageInv
<1>. QED  BY <1>2, <1>4, <1>5, <1>6, <1>7, <1>9, Names DEF PageInv

(* A pass that is started, when none is on.                                *)
LEMMA TryStarts ==
  ASSUME PageInv, NEW g \in Gens, NEW found, TryPass(g, found), todo = <<>>,
         UNCHANGED <<solveGeneration, stage>>,
         \A c \in Callers : caller'[c] # Idle => caller[c] # Idle
  PROVE  PageInv'
<1>1. CASE UNCHANGED <<pass, todo>>
  BY <1>1, PageStays
<1>2. CASE ~pass.on /\ pass' = NewPass(g) /\ todo' = Append(todo, ThePass)
  <2>1. todo' = <<ThePass>>
    BY <1>2
  <2>2. caller[ThePass] = Idle
    BY <1>2 DEF PageInv, Engaged
  <2>3. pass' \in Passes /\ pass'.on /\ ~pass'.solved
    BY <1>2 DEF NewPass, Passes, Gens
  <2>4. \A c \in Callers \ {ThePass} : <<ThePass>> # <<c>>
    OBVIOUS
  <2>5. \A c \in Callers \ {ThePass} : Engaged(c)' => Engaged(c)
    BY <2>1, <2>4 DEF Engaged
  <2>6. caller'[ThePass] = Idle
    BY <2>2, Names
  <2>. QED  BY <2>1, <2>3, <2>4, <2>5, <2>6, Names DEF PageInv
<1>. QED  BY <1>1, <1>2 DEF TryPass

LEMMA SolveLands ==
  ASSUME PageInv, NEW g \in Gens, NEW ok, SolveGoesOn(g, ok), todo = <<>>,
         caller[SolveOf(g)] # Idle, caller'[SolveOf(g)] = Idle,
         \A c \in Callers : caller'[c] # Idle => caller[c] # Idle
  PROVE  PageInv'
<1>1. stage[g] \in {"solve", "layout"} /\ g <= solveGeneration
  BY DEF PageInv, Gens
<1>2. caller[CheckOf(g)] = Idle
  BY <1>1 DEF PageInv, Engaged
<1>3. PICK next \in {"stale", "error", "icons", "shown"} :
        /\ stage' = [stage EXCEPT ![g] = next]
        /\ IF next = "shown" THEN Render(g) ELSE todo' = todo
  BY DEF SolveGoesOn, Fails
<1>4. stage' \in [Gens -> Stages] /\ stage'[g] = next /\ \A h \in Gens \ {g} : stage'[h] = stage[h]
  BY <1>3 DEF PageInv, Stages
<1>5. todo' = IF next = "shown" THEN <<CheckOf(g)>> ELSE <<>>
  BY <1>3 DEF Render
<1>6. UNCHANGED <<solveGeneration, pass>>
  BY DEF SolveGoesOn
<1>7. \A x : <<x>> # <<>>
  OBVIOUS
<1>8. \A h \in Gens \ {g} : /\ Engaged(CheckOf(h))' => Engaged(CheckOf(h))
                            /\ todo' # <<SolveOf(h)>>
  BY <1>5, <1>7, Names DEF Engaged
<1>9. \A h \in Gens : h > solveGeneration => h # g
  BY <1>1 DEF PageInv, Gens
<1>10. \A h \in Gens : caller'[SolveOf(h)] # Idle => stage'[h] \in {"solve", "layout"}
  <2> SUFFICES ASSUME NEW h \in Gens, caller'[SolveOf(h)] # Idle PROVE stage'[h] \in {"solve", "layout"}
    OBVIOUS
  <2>1. h # g /\ caller[SolveOf(h)] # Idle
    BY Names
  <2>. QED  BY <1>4, <2>1 DEF PageInv
<1>11. \A h \in Gens : Engaged(CheckOf(h))' => stage'[h] = "shown"
  <2> SUFFICES ASSUME NEW h \in Gens, Engaged(CheckOf(h))' PROVE stage'[h] = "shown"
    OBVIOUS
  <2>1. CASE h = g
    <3>1. caller'[CheckOf(g)] = Idle
      BY <1>2, Names
    <3>2. todo' # <<>>
      BY <1>7, <2>1, <3>1 DEF Engaged
    <3>. QED  BY <1>4, <1>5, <2>1, <3>2
  <2>2. CASE h # g
    BY <1>4, <1>8, <2>2 DEF PageInv
  <2>. QED  BY <2>1, <2>2
<1>12. todo' # <<ThePass>> /\ \A h \in Gens : todo' # <<SolveOf(h)>>
  BY <1>5, <1>7, Names
<1>13. Engaged(ThePass)' => (pass.on /\ ~pass.solved)'
  BY <1>6, <1>12, Names DEF PageInv, Engaged
<1>14. todo' = <<>> \/ \E c \in Callers : todo' = <<c>> /\ caller'[c] = Idle
  BY <1>2, <1>5, Names
<1>. QED  BY <1>4, <1>6, <1>9, <1>10, <1>11, <1>12, <1>13, <1>14 DEF PageInv

LEMMA PassRounds ==
  ASSUME PageInv, NEW ok, PassGoesOn(ok), todo = <<>>,
         caller[ThePass] # Idle, caller'[ThePass] = Idle,
         \A c \in Callers : caller'[c] # Idle => caller[c] # Idle
  PROVE  PageInv'
<1>1. pass.on /\ ~pass.solved /\ pass \in Passes
  BY DEF PageInv, Engaged
<1>2. UNCHANGED <<solveGeneration, stage>>
  BY DEF PassGoesOn
<1>3. \/ todo' = <<ThePass>> /\ pass' = [pass EXCEPT !.visits = @ + 1, !.saw = FALSE]
      \/ todo' = <<>> /\ (pass' = NoPass \/ pass' = [pass EXCEPT !.solved = TRUE])
  BY DEF PassGoesOn, GivesUp, Finish
<1>4. pass' \in Passes /\ (todo' = <<ThePass>> => pass'.on /\ ~pass'.solved)
  <2>1. CASE pass' = [pass EXCEPT !.visits = @ + 1, !.saw = FALSE]
    <3> DEFINE p == [pass EXCEPT !.visits = @ + 1]
    <3>1. p \in Passes /\ p.on /\ ~p.solved
      BY <1>1 DEF Passes
    <3>2. pass' = [p EXCEPT !.saw = FALSE]
      BY <2>1
    <3> HIDE DEF p
    <3>. QED  BY <3>1, <3>2 DEF Passes
  <2>2. CASE todo' = <<>> /\ pass' = NoPass
    BY <2>2 DEF Passes, NoPass
  <2>3. CASE todo' = <<>> /\ pass' = [pass EXCEPT !.solved = TRUE]
    BY <1>1, <2>3 DEF Passes
  <2>. QED  BY <1>3, <2>1, <2>2, <2>3
<1>5. \A x : <<x>> # <<>>
  OBVIOUS
<1>6. \A c \in Callers \ {ThePass} : todo' # <<c>> /\ (Engaged(c)' => Engaged(c))
  BY <1>3, <1>5 DEF Engaged
<1>. QED  BY <1>2, <1>3, <1>4, <1>6, Names DEF PageInv, Engaged

LEMMA ContinueAsks ==
  ASSUME PromiseInv, PageInv, PageContinue
  PROVE  PromiseInv' /\ PageInv'
<1> DEFINE c == Head(continuations).caller
           ok == Head(continuations).ok
<1>1. todo = <<>>
  BY DEF PageContinue
<1>2. /\ PromiseInv' /\ c \in Callers /\ caller[c] # Idle
      /\ \A x \in Callers \ {c} : caller'[x] = caller[x]
  BY ContinuePromises DEF PageContinue
<1>3. \A x \in Callers : caller'[x] # Idle => caller[x] # Idle
  BY <1>2
<1>4. CASE UNCHANGED pageVars
  <2>1. UNCHANGED <<solveGeneration, stage, pass>> /\ todo' = todo
    BY <1>4 DEF pageVars
  <2>2. PageInv'
    BY <1>3, <2>1, PageStays
  <2>. QED  BY <1>2, <2>2
<1>5. CASE caller'[c] = Idle /\ c[1] = "solve" /\ SolveGoesOn(c[2], ok)
  <2>1. c[2] \in Gens /\ c = SolveOf(c[2])
    BY <1>2, <1>5, Kinds
  <2> HIDE DEF c, ok
  <2>. QED  BY <1>1, <1>2, <1>3, <1>5, <2>1, SolveLands
<1>6. CASE caller'[c] = Idle /\ c[1] = "check" /\ CheckGoesOn(c[2], ok)
  <2>1. c[2] \in Gens
    BY <1>2, <1>6, Kinds
  <2>2. UNCHANGED <<solveGeneration, stage>>
    BY <1>6 DEF CheckGoesOn
  <2>3. UNCHANGED <<pass, todo>> \/ \E found : TryPass(c[2], found)
    BY <1>6 DEF CheckGoesOn
  <2>4. CASE UNCHANGED <<pass, todo>>
    BY <1>2, <1>3, <2>2, <2>4, PageStays
  <2>5. ASSUME NEW found, TryPass(c[2], found) PROVE PageInv'
    BY <1>1, <1>3, <2>1, <2>2, <2>5, TryStarts
  <2>. QED  BY <1>2, <2>3, <2>4, <2>5
<1>7. CASE caller'[c] = Idle /\ c = ThePass /\ PassGoesOn(ok)
  BY <1>1, <1>2, <1>3, <1>7, PassRounds
<1>. QED
  BY <1>2, <1>4, <1>5, <1>6, <1>7 DEF PageContinue

LEMMA UnchangedPromises ==
  ASSUME PromiseInv, UNCHANGED <<pending, nextId, caller, continuations>>
  PROVE  PromiseInv'
BY DEF PromiseInv, PendingIsCounted, CallerType, OnePromise, Holders

(* The playback of improvements takes no call away and adds none.          *)
LEMMA PlaybackStays ==
  ASSUME PageInv, Improved \/ Drain \/ Drained
  PROVE  PageInv'
<1>1. /\ UNCHANGED <<solveGeneration, stage, todo, caller>> /\ todo = <<>> /\ pass \in Passes
  BY DEF Improved, Drain, Drained, Turn, PageInv, vars
<1>2. \A x : <<x>> # <<>>
  OBVIOUS
<1>3. pass' \in Passes /\ (caller[ThePass] # Idle => pass'.on /\ ~pass'.solved)
  <2>1. CASE Improved
    <3> DEFINE p == [pass EXCEPT !.saw = TRUE]
    <3>1. p \in Passes /\ p.on = pass.on /\ p.solved = pass.solved
      BY <1>1 DEF Passes
    <3>2. pass' = [p EXCEPT !.queue = @ + 1]
      BY <1>1, <2>1 DEF Improved, Passes
    <3> HIDE DEF p
    <3>3. pass' \in Passes /\ pass'.on = pass.on /\ pass'.solved = pass.solved
      BY <3>1, <3>2 DEF Passes
    <3>. QED  BY <3>3 DEF PageInv, Engaged
  <2>2. CASE Drain
    <3>1. pass' = [pass EXCEPT !.queue = @ - 1]
      BY <2>2 DEF Drain
    <3>2. pass' \in Passes /\ pass'.on = pass.on /\ pass'.solved = pass.solved
      BY <1>1, <3>1 DEF Passes
    <3>. QED  BY <3>2 DEF PageInv, Engaged
  <2>3. CASE Drained
    <3>1. pass.solved /\ pass' = NoPass
      BY <2>3 DEF Drained, Finish
    <3>. QED  BY <3>1 DEF PageInv, Engaged, NoPass, Passes
  <2>. QED  BY <2>1, <2>2, <2>3
<1>4. \A c \in Callers : Engaged(c)' <=> caller[c] # Idle
  BY <1>1, <1>2 DEF Engaged
<1>. QED  BY <1>1, <1>3, <1>4, Names DEF PageInv, Engaged

LEMMA NextAsks == PromiseInv /\ PageInv /\ [SessionNext]_sessionVars => PromiseInv' /\ PageInv'
<1> SUFFICES ASSUME PromiseInv, PageInv, [SessionNext]_sessionVars PROVE PromiseInv' /\ PageInv'
  OBVIOUS
<1>1. CASE RunSolve
  BY <1>1, RunSolveAsks
<1>2. ASSUME NEW g \in Gens, IconsLoaded(g) PROVE PromiseInv' /\ PageInv'
  BY <1>2, IconsAsk
<1>3. ASSUME NEW g \in Gens, Frame(g) PROVE PromiseInv' /\ PageInv'
  <2>1. PromiseInv' /\ UNCHANGED <<solveGeneration, stage, caller>> /\ todo = <<>>
    BY <1>3, UnchangedPromises DEF Frame, vars, Turn
  <2>2. UNCHANGED <<pass, todo>> \/ TryPass(g, issues)
    BY <1>3 DEF Frame
  <2>. QED  BY <2>1, <2>2, PageStays, TryStarts
<1>4. CASE Improved \/ Drain \/ Drained
  BY <1>4, UnchangedPromises, PlaybackStays DEF Improved, Drain, Drained, vars
<1>5. CASE OtherRequest
  <2>1. PICK op \in {"plain", "cancel"} : caller[Other] = Idle /\ Ask(Other, op)
    BY <1>5 DEF OtherRequest, Request
  <2>2. /\ PromiseInv' /\ \A x \in Callers \ {Other} : caller'[x] = caller[x]
        /\ UNCHANGED <<solveGeneration, stage, pass, todo>> /\ todo = <<>>
    BY <1>5, <2>1, Names, AskPromises DEF OtherRequest, pageVars, Ops
  <2>3. \A x : <<x>> # <<>>
    OBVIOUS
  <2>4. \A x \in Callers \ {Other} : Engaged(x)' => Engaged(x)
    BY <2>2 DEF Engaged
  <2>5. \A g \in Gens : caller'[SolveOf(g)] = caller[SolveOf(g)]
    BY <2>2, Names
  <2>. QED  BY <2>2, <2>3, <2>4, <2>5, Names DEF PageInv
<1>6. CASE PageCall
  BY <1>6, PageCallAsks
<1>7. CASE PageContinue
  BY <1>7, ContinueAsks
<1>8. CASE Receive /\ UNCHANGED pageVars
  BY <1>8, ReceivePromises, PageStays DEF Receive, pageVars
<1>9. CASE (\E ok \in BOOLEAN : Answer(ok)) /\ UNCHANGED pageVars
  BY <1>9, UnchangedPromises, PageStays DEF Answer, pageVars
<1>10. CASE UNCHANGED sessionVars
  BY <1>10, UnchangedPromises, PageStays DEF sessionVars, pageVars, vars
<1>. QED
  BY <1>1, <1>2, <1>3, <1>4, <1>5, <1>6, <1>7, <1>8, <1>9, <1>10 DEF SessionNext

LEMMA InitAsks == SessionInit => PromiseInv /\ PageInv
<1> SUFFICES ASSUME SessionInit PROVE PromiseInv /\ PageInv
  OBVIOUS
<1>1. /\ DOMAIN pending = {} /\ nextId = 0 /\ caller = [c \in Callers |-> Idle]
      /\ continuations = <<>> /\ DOMAIN continuations = {} /\ todo = <<>>
  BY DEF SessionInit, Init
<1>2. IsSequence(<<>>)
  BY DEF IsSequence
<1>3. PendingIsCounted
  BY <1>1, FS_EmptySet DEF PendingIsCounted
<1>4. CallerType
  <2>1. Idle \in CallerState
    BY DEF Idle, CallerState, Ops
  <2>. QED  BY <1>1, <2>1 DEF CallerType
<1>5. OnePromise
  BY <1>1, <1>2 DEF OnePromise, Once, Holders, Asked
<1>6. \A x : <<x>> # <<>>
  OBVIOUS
<1>7. PageInv
  BY <1>1, <1>6, Names DEF SessionInit, PageInv, Engaged, Stages, Passes, NoPass
<1>. QED  BY <1>3, <1>4, <1>5, <1>7 DEF PromiseInv

(* Every caller that is not idle has exactly one promise; it is pending,   *)
(* with its message or the answer on the way, or has just been settled: no *)
(* call of the page is left without an answer, and none gets two, however  *)
(* a boot, a respawn and late answers of the old worker overlap.           *)
THEOREM EveryCallIsAnswered == SessionSpec => []AnswerComing
<1>1. PromiseInv /\ PromisesInFlight => AnswerComing
  <2> SUFFICES ASSUME PromiseInv, NEW c \in Callers, caller[c] # Idle
               PROVE  Cardinality({id \in DOMAIN pending : pending[id] = c})
                      + Cardinality({n \in 1..Len(continuations) : continuations[n].caller = c}) = 1
    BY DEF AnswerComing
  <2> USE DEF PromiseInv
  <2>1. DOMAIN continuations = 1..Len(continuations)
    BY DEF OnePromise, IsSequence
  <2> DEFINE P == {id \in DOMAIN pending : pending[id] = c}
             N == {n \in 1..Len(continuations) : continuations[n].caller = c}
  <2>2. CASE c \in Holders
    <3>1. PICK id \in DOMAIN pending : pending[id] = c
      BY <2>2 DEF Holders
    <3>2. P = {id}
      BY <3>1 DEF OnePromise
    <3>3. N = {}
      BY <2>1, <2>2 DEF OnePromise, Asked
    <3>4. Cardinality(P) = 1 /\ Cardinality(N) = 0
      BY <3>2, <3>3, FS_Singleton, FS_EmptySet
    <3>. QED  BY <3>4
  <2>3. CASE c \in Asked(continuations)
    <3>1. PICK n \in 1..Len(continuations) : continuations[n].caller = c
      BY <2>1, <2>3 DEF Asked
    <3>2. N = {n}
      BY <2>1, <3>1 DEF OnePromise, Once
    <3>3. P = {}
      BY <2>3 DEF OnePromise, Holders
    <3>4. Cardinality(N) = 1 /\ Cardinality(P) = 0
      BY <3>2, <3>3, FS_Singleton, FS_EmptySet
    <3>. QED  BY <3>4
  <2>. QED  BY <2>2, <2>3 DEF OnePromise
<1>. QED  BY <1>1, InitAsks, NextAsks, NothingWaitsInVain, PTL DEF SessionSpec

-----------------------------------------------------------------------------
(* The streaming call that can be cancelled.                               *)

\* What a step of the page is to the client.
ClientStep ==
  \/ \E c \in Callers, op \in Ops : caller[c] = Idle /\ Ask(c, op)
  \/ Continue \/ Receive \/ \E ok \in BOOLEAN : Answer(ok)
  \/ UNCHANGED <<posted, inbox, pending, nextId, streaming, caller, continuations>>

LEMMA PageStepsAreClientSteps ==
  ASSUME PageInv, [SessionNext]_sessionVars
  PROVE  ClientStep
<1>1. CASE RunSolve
  <2>1. solveGeneration + 1 \in Gens /\ "solve" \in Ops
    BY <1>1, SessionAssumption DEF PageInv, RunSolve, Gens, Ops
  <2>. QED  BY <1>1, <2>1, Names DEF RunSolve, Request, ClientStep
<1>2. ASSUME NEW g \in Gens, IconsLoaded(g) PROVE ClientStep
  <2>1. caller[SolveOf(g)] = Idle /\ "stream" \in Ops
    BY <1>2 DEF IconsLoaded, PageInv, Ops
  <2>. QED  BY <1>2, <2>1, Names DEF IconsLoaded, ClientStep, vars
<1>3. CASE (\E g \in Gens : Frame(g)) \/ Improved \/ Drain \/ Drained \/ UNCHANGED sessionVars
  BY <1>3 DEF Frame, Improved, Drain, Drained, sessionVars, vars, ClientStep
<1>4. CASE OtherRequest
  <2>1. "plain" \in Ops /\ "cancel" \in Ops
    BY DEF Ops
  <2>. QED  BY <1>4, <2>1, Names DEF OtherRequest, Request, ClientStep
<1>5. CASE PageCall
  <2>1. PICK c \in Callers : todo = <<c>> /\ caller[c] = Idle
    BY <1>5 DEF PageCall, PageInv
  <2>2. Head(todo) = c /\ "stream" \in Ops /\ "plain" \in Ops
    BY <2>1 DEF Ops
  <2>. QED  BY <1>5, <2>1, <2>2 DEF PageCall, ClientStep
<1>6. CASE PageContinue
  BY <1>6 DEF PageContinue, ClientStep
<1>7. CASE Receive \/ \E ok \in BOOLEAN : Answer(ok)
  BY <1>7 DEF ClientStep
<1>. QED
  BY <1>1, <1>2, <1>3, <1>4, <1>5, <1>6, <1>7 DEF SessionNext

Ascending(s) == \A m, n \in DOMAIN s : m < n => s[m].id < s[n].id

LEMMA AppendAscends ==
  ASSUME NEW s, IsSequence(s), Ascending(s), NEW e, \A id \in Ids(s) : id < e.id
  PROVE  Ascending(Append(s, e))
<1> DEFINE S == {s[i] : i \in DOMAIN s} \cup {e}
           r == Append(s, e)
<1>1. s \in [1..Len(s) -> S] /\ Len(s) \in Nat
  BY DEF IsSequence
<1>2. s \in Seq(S) /\ DOMAIN s = 1..Len(s) /\ e \in S
  BY <1>1
<1> HIDE DEF S
<1>3. /\ DOMAIN r = 1..(Len(s) + 1)
      /\ r[Len(s) + 1] = e /\ \A i \in 1..Len(s) : r[i] = s[i]
  BY <1>2
<1> HIDE DEF r
<1> SUFFICES ASSUME NEW m \in DOMAIN r, NEW n \in DOMAIN r, m < n PROVE r[m].id < r[n].id
  BY DEF Ascending, r
<1>4. m \in 1..Len(s) /\ (n \in 1..Len(s) \/ n = Len(s) + 1)
  BY <1>1, <1>3
<1>5. CASE n \in 1..Len(s)
  BY <1>2, <1>3, <1>4, <1>5 DEF Ascending
<1>6. CASE n = Len(s) + 1
  <2>1. s[m].id \in Ids(s)
    BY <1>2, <1>4 DEF Ids
  <2>. QED  BY <1>3, <1>4, <1>6, <2>1
<1>. QED  BY <1>4, <1>5, <1>6

LEMMA TailAscends ==
  ASSUME NEW s, IsSequence(s), s # <<>>, Ascending(s)
  PROVE  Ascending(Tail(s)) /\ \A id \in Ids(Tail(s)) : Head(s).id < id
<1> DEFINE S == {s[i] : i \in DOMAIN s}
           r == Tail(s)
<1>1. s \in Seq(S)
  BY DEF IsSequence
<1> HIDE DEF S
<1>2. /\ Len(s) \in Nat \ {0} /\ Len(r) = Len(s) - 1
      /\ DOMAIN s = 1..Len(s) /\ DOMAIN r = 1..Len(r)
      /\ Head(s) = s[1] /\ \A i \in 1..Len(r) : r[i] = s[i + 1]
  BY <1>1
<1> HIDE DEF r
<1>3. 1 \in DOMAIN s /\ \A i \in DOMAIN r : i + 1 \in DOMAIN s /\ 1 < i + 1 /\ s[i + 1] = r[i]
  BY <1>2
<1>4. Ascending(r)
  <2> SUFFICES ASSUME NEW m \in DOMAIN r, NEW n \in DOMAIN r, m < n PROVE r[m].id < r[n].id
    BY DEF Ascending
  <2>1. m + 1 < n + 1
    BY <1>2
  <2>. QED  BY <1>3, <2>1 DEF Ascending
<1>5. \A i \in DOMAIN r : Head(s).id < r[i].id
  BY <1>2, <1>3 DEF Ascending
<1>. QED  BY <1>4, <1>5 DEF Ids, r

(* Messages and answers travel in the order of their numbers.              *)
MailOrder ==
  /\ Ascending(inbox) /\ Ascending(posted)
  /\ \A a \in Ids(inbox), b \in Ids(posted) : a < b
  /\ \A a \in Ids(inbox) \cup Ids(posted) : a \in Nat /\ a <= nextId

Streams(id) == caller[pending[id]] = Calling("stream")

(* The call that can be cancelled streams, and no streaming call comes     *)
(* after it.                                                               *)
StreamLast ==
  /\ streaming # NoCall => streaming \in DOMAIN pending /\ Streams(streaming)
  /\ \A id \in DOMAIN pending : Streams(id) => streaming # NoCall /\ id <= streaming

CallInv == PromiseInv /\ MailInv /\ MailOrder /\ StreamLast

LEMMA CallStreams ==
  ASSUME CallInv, NEW c \in Callers, c \notin Holders, NEW op, Call(c, op), inbox' = inbox,
         \/ /\ streaming' = streaming
            /\ caller'[c] # Calling("stream")
         \/ /\ streaming' = nextId + 1
            /\ caller'[c] = Calling("stream"),
         \A x \in Callers \ {c} : caller'[x] = caller[x]
  PROVE  MailOrder' /\ StreamLast'
<1> USE DEF CallInv, PromiseInv
<1>1. /\ DOMAIN pending' = DOMAIN pending \cup {nextId + 1} /\ nextId + 1 \notin DOMAIN pending
      /\ pending'[nextId + 1] = c /\ \A id \in DOMAIN pending : pending'[id] = pending[id]
      /\ nextId' = nextId + 1
      /\ \A id \in DOMAIN pending : id \in Nat /\ id <= nextId
      /\ nextId \in Nat
  BY DEF Call, PendingIsCounted
<1>2. posted' = Append(posted, Message(nextId + 1, op)) /\ Message(nextId + 1, op).id = nextId + 1
  BY DEF Call, Message
<1>3. Ids(posted)' = Ids(posted) \cup {nextId + 1}
  BY <1>2, Appended DEF MailInv
<1>4. Ascending(posted')
  <2>1. \A id \in Ids(posted) : id < nextId + 1
    BY <1>1 DEF MailOrder
  <2>. QED  BY <1>2, <2>1, AppendAscends DEF MailInv, MailOrder
<1>5. MailOrder'
  BY <1>1, <1>3, <1>4 DEF MailOrder
<1>6. \A id \in DOMAIN pending : pending[id] \in Callers \ {c} /\ (Streams(id)' <=> Streams(id))
  BY <1>1 DEF Holders, OnePromise, Streams
<1>7. PICK new \in Nat : new = nextId + 1
  BY <1>1
<1>8. Streams(new)' <=> caller'[c] = Calling("stream")
  BY <1>1, <1>7 DEF Streams
<1>9. StreamLast'
  <2>1. CASE streaming' = streaming /\ caller'[c] # Calling("stream")
    BY <1>1, <1>6, <1>7, <1>8, <2>1 DEF StreamLast
  <2>2. CASE streaming' = nextId + 1 /\ caller'[c] = Calling("stream")
    BY <1>1, <1>6, <1>7, <1>8, <2>2 DEF StreamLast, NoCall
  <2>. QED  BY <2>1, <2>2
<1>. QED  BY <1>5, <1>9

LEMMA AskStreams ==
  ASSUME CallInv, NEW c \in Callers, caller[c] = Idle, NEW op \in Ops, Ask(c, op)
  PROVE  MailOrder' /\ StreamLast'
<1> USE DEF CallInv
<1>1. c \notin Holders /\ \A x \in Callers \ {c} : caller'[x] = caller[x]
  BY AskPromises DEF PromiseInv, OnePromise
<1>2. CASE Supersede(c, op)
  <2>1. /\ DOMAIN pending' = {nextId + 1} /\ pending'[nextId + 1] = c /\ nextId' = nextId + 1
        /\ caller'[c] = Booting(op, 1) /\ streaming' = NoCall /\ nextId \in Nat
    BY <1>2 DEF Supersede, PromiseInv, CallerType, PendingIsCounted
  <2>2. StreamLast'
    <3>1. PICK new \in Nat : new = nextId + 1
      BY <2>1
    <3>2. ~Streams(new)'
      BY <2>1, <3>1 DEF Streams, Booting, Calling
    <3>. QED  BY <2>1, <3>1, <3>2 DEF StreamLast
  <2>3. posted' = Append(<<>>, Message(nextId + 1, Boot[1])) /\ Message(nextId + 1, Boot[1]).id = nextId + 1
    BY <1>2 DEF Supersede, Message
  <2>4. IsSequence(<<>>) /\ Ids(<<>>) = {} /\ Ascending(<<>>)
    BY DEF IsSequence, Ids, Ascending
  <2>5. Ids(posted)' = {nextId + 1} /\ Ascending(posted)'
    <3> DEFINE m == Message(nextId + 1, Boot[1])
    <3>1. m.id = nextId + 1 /\ posted' = Append(<<>>, m)
      BY <2>3
    <3> HIDE DEF m
    <3>2. Ids(Append(<<>>, m)) = {m.id}
      BY <2>4, Appended
    <3>3. Ascending(Append(<<>>, m))
      BY <2>4, AppendAscends
    <3>. QED  BY <3>1, <3>2, <3>3
  <2>6. inbox' = inbox \/ inbox' = <<>>
    BY <1>2 DEF Supersede
  <2>7. MailOrder'
    BY <2>1, <2>4, <2>5, <2>6 DEF MailOrder
  <2>. QED  BY <2>2, <2>7
<1>3. CASE Post(c, op) /\ inbox' = inbox
  <2>1. Call(c, op) /\ caller'[c] = Calling(op)
    BY <1>3 DEF Post, PromiseInv, CallerType
  <2>2. \/ streaming' = streaming /\ caller'[c] # Calling("stream")
        \/ streaming' = nextId + 1 /\ caller'[c] = Calling("stream")
    BY <1>3, <2>1 DEF Post, Calling
  <2>. QED  BY <1>1, <1>3, <2>1, <2>2, CallStreams
<1>. QED  BY <1>2, <1>3 DEF Ask

LEMMA ContinueStreams ==
  ASSUME CallInv, Continue
  PROVE  MailOrder' /\ StreamLast'
<1> USE DEF CallInv
<1> DEFINE c == Head(continuations).caller
           at == caller[c]
<1>1. c \in Callers /\ c \notin Holders /\ \A x \in Callers \ {c} : caller'[x] = caller[x]
  <2>1. Asked(continuations) = Asked(Tail(continuations)) \cup {c}
    BY TakenOnce DEF Continue, PromiseInv, OnePromise
  <2>. QED  BY <2>1, ContinuePromises DEF PromiseInv, OnePromise
<1>2. inbox' = inbox
  BY DEF Continue
<1>3. CASE Settle(c)
  <2>1. UNCHANGED <<posted, pending, nextId, streaming>>
    BY <1>3 DEF Settle
  <2>2. \A id \in DOMAIN pending : Streams(id)' <=> Streams(id)
    BY <1>1, <2>1 DEF Streams, PromiseInv, OnePromise, Holders
  <2>. QED  BY <1>2, <2>1, <2>2 DEF MailOrder, StreamLast
<1>4. CASE BootOn(c, at.op, at.step)
  <2> HIDE DEF c
  <2>1. CASE /\ Call(c, Boot[at.step + 1]) /\ streaming' = streaming
             /\ caller' = [caller EXCEPT ![c] = Booting(at.op, at.step + 1)]
    <3>1. caller'[c] # Calling("stream")
      BY <1>1, <2>1 DEF PromiseInv, CallerType, Booting, Calling
    <3>. QED  BY <1>1, <1>2, <2>1, <3>1, CallStreams
  <2>2. CASE Post(c, at.op)
    <3>1. Call(c, at.op) /\ caller'[c] = Calling(at.op)
      BY <1>1, <2>2 DEF Post, PromiseInv, CallerType
    <3>2. \/ streaming' = streaming /\ caller'[c] # Calling("stream")
          \/ streaming' = nextId + 1 /\ caller'[c] = Calling("stream")
      BY <2>2, <3>1 DEF Post, Calling
    <3>. QED  BY <1>1, <1>2, <3>1, <3>2, CallStreams
  <2>3. CASE Settle(c)
    BY <1>3, <2>3 DEF c
  <2>. QED  BY <1>4, <2>1, <2>2, <2>3 DEF BootOn
<1>. QED  BY <1>3, <1>4 DEF Continue

(* An answer to the call that can be cancelled is the last of the          *)
(* streaming ones, as the worker answers in order.                         *)
LEMMA ReceiveStreams ==
  ASSUME CallInv, Receive
  PROVE  MailOrder' /\ StreamLast'
<1> USE DEF CallInv
<1> DEFINE id == Head(inbox).id
<1>1. /\ Ascending(inbox') /\ Ids(inbox) = Ids(inbox') \cup {id}
      /\ \A a \in Ids(inbox') : id < a
  BY Taken, TailAscends DEF Receive, MailInv, MailOrder
<1>2. UNCHANGED <<posted, nextId, caller>>
  BY DEF Receive
<1>3. MailOrder'
  BY <1>1, <1>2 DEF MailOrder
<1>4. CASE id \in DOMAIN pending
  <2>1. /\ pending' = [i \in DOMAIN pending \ {id} |-> pending[i]]
        /\ streaming' = IF streaming = id THEN NoCall ELSE streaming
    BY <1>4 DEF Receive, EndStream
  <2>2. \A a \in DOMAIN pending : a # id => id < a
    BY <1>1 DEF MailInv, MailOrder
  <2> HIDE DEF id
  <2>3. \A a \in DOMAIN pending \ {id} : Streams(a)' <=> Streams(a)
    BY <1>2, <2>1 DEF Streams
  <2>4. CASE streaming = id
    <3>1. \A a \in DOMAIN pending \ {id} : ~Streams(a)
      <4> SUFFICES ASSUME NEW a \in DOMAIN pending \ {id}, Streams(a) PROVE FALSE
        OBVIOUS
      <4>1. a <= id /\ id < a
        BY <2>2, <2>4 DEF StreamLast
      <4>2. a \in Nat /\ id \in Nat
        BY <1>4 DEF PromiseInv, PendingIsCounted
      <4>. QED  BY <4>1, <4>2
    <3>. QED  BY <1>3, <2>1, <2>3, <2>4, <3>1 DEF StreamLast
  <2>5. CASE streaming # id
    BY <1>3, <2>1, <2>3, <2>5 DEF StreamLast
  <2>. QED  BY <2>4, <2>5
<1>5. CASE id \notin DOMAIN pending
  BY <1>2, <1>3, <1>5 DEF Receive, StreamLast, Streams
<1>. QED  BY <1>4, <1>5

LEMMA NextStreams ==
  ASSUME CallInv, ClientStep
  PROVE  MailOrder' /\ StreamLast'
<1> USE DEF CallInv
<1>1. ASSUME NEW ok \in BOOLEAN, Answer(ok) PROVE MailOrder' /\ StreamLast'
  <2> DEFINE id == Head(posted).id
  <2>1. /\ posted' = Tail(posted) /\ inbox' = Append(inbox, [id |-> id, ok |-> ok])
        /\ UNCHANGED <<pending, nextId, streaming, caller>>
    BY <1>1 DEF Answer
  <2>2. /\ Ascending(posted') /\ Ids(posted) = Ids(posted') \cup {id}
        /\ \A a \in Ids(posted') : id < a
    BY <1>1, <2>1, Taken, TailAscends DEF Answer, MailInv, MailOrder
  <2> HIDE DEF id
  <2>3. \A a \in Ids(inbox) : a < [id |-> id, ok |-> ok].id
    BY <2>2 DEF MailOrder
  <2>4. Ascending(inbox') /\ Ids(inbox') = Ids(inbox) \cup {id}
    BY <2>1, <2>3, Appended, AppendAscends DEF MailInv, MailOrder
  <2>5. MailOrder'
    BY <2>1, <2>2, <2>4 DEF MailOrder
  <2>. QED  BY <2>1, <2>5 DEF StreamLast, Streams
<1>2. CASE UNCHANGED <<posted, inbox, pending, nextId, streaming, caller, continuations>>
  BY <1>2 DEF MailOrder, StreamLast, Streams
<1>. QED
  BY <1>1, <1>2, AskStreams, ContinueStreams, ReceiveStreams DEF ClientStep

(* While anything streams, activeStreamingId holds a call that does, so    *)
(* that a cancel or a newer request always finds it, although a caller     *)
(* that waited for a boot may overwrite it and an answer may clear it.     *)
THEOREM StreamsAreKnown == SessionSpec => []StreamIsKnown
<1>1. SessionInit => MailOrder /\ StreamLast
  BY DEF SessionInit, Init, MailOrder, StreamLast, Ascending, Ids
<1>2. PromiseInv /\ PageInv /\ MailInv /\ MailOrder /\ StreamLast /\ [SessionNext]_sessionVars
      => MailOrder' /\ StreamLast'
  BY PageStepsAreClientSteps, NextStreams DEF CallInv
<1>3. StreamLast => StreamIsKnown
  BY DEF StreamLast, StreamIsKnown, Streams
<1>. QED
  BY <1>1, <1>2, <1>3, InitAsks, NextAsks, InitFlies, NextFlies, PTL DEF SessionSpec
=============================================================================

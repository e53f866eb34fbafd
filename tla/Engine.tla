------------------------------- MODULE Engine -------------------------------
(***************************************************************************)
(* The browser's engine client (web/src/engine.ts): promises for calls to  *)
(* one WASM worker, and the respawn of that worker when a newer request    *)
(* comes while a streaming call is running.                                *)
(*                                                                         *)
(* The main thread runs one turn at a time: a request of the page, or a    *)
(* message from the worker.  What a settled promise goes on to do runs     *)
(* before the next turn (continuations).  The worker answers in the order  *)
(* of its messages (workers/engine.worker.ts).  Streamed events change     *)
(* nothing in the client and are left out.                                 *)
(*                                                                         *)
(* The page that makes the requests is in Session.                         *)
(***************************************************************************)
EXTENDS Integers, Sequences, FiniteSets, SequencesExt

CONSTANTS
  Callers,      \* invocations of the exported functions that can overlap
  Boot,         \* the calls that initEngine makes, in order
  Caught,       \* those whose failure it catches
  MaxRequests   \* bound: requests of the page

ASSUME EngineAssumption ==
  /\ Boot # <<>>
  /\ Caught \subseteq Range(Boot)
  /\ MaxRequests \in Nat

\* solve and solveMulti; buildLayoutStreaming and improveRegion; the calls
\* that look at nothing first; cancelInFlight.
Ops == {"solve", "stream", "plain", "cancel"}
NoCall == 0   \* activeStreamingId = null

VARIABLES
  posted,        \* messages the current worker has not answered
  inbox,         \* answers on their way to the main thread
  pending,       \* the Map of pending calls: id -> caller
  nextId,
  streaming,     \* activeStreamingId
  activeCount,
  caller,        \* where each caller is
  continuations, \* settled promises whose await has not gone on yet
  requests       \* requests made

vars == <<posted, inbox, pending, nextId, streaming, activeCount, caller,
          continuations, requests>>

Idle == [at |-> "idle", op |-> "plain", step |-> 0]
Booting(op, step) == [at |-> "boot", op |-> op, step |-> step]
Calling(op) == [at |-> "call", op |-> op, step |-> 0]

Init ==
  /\ posted = <<>> /\ inbox = <<>>
  /\ pending = <<>>
  /\ nextId = 0 /\ streaming = NoCall /\ activeCount = 0
  /\ caller = [c \in Callers |-> Idle]
  /\ continuations = <<>>
  /\ requests = 0
-----------------------------------------------------------------------------
Message(id, op) == [id |-> id, op |-> op]

(* call: a new id, an entry for its promise, and the message.              *)
Call(c, op) ==
  /\ nextId' = nextId + 1
  /\ pending' = [id \in DOMAIN pending \cup {nextId + 1} |-> IF id = nextId + 1 THEN c ELSE pending[id]]
  /\ posted' = Append(posted, Message(nextId + 1, op))
  /\ activeCount' = activeCount + 1

(* The request itself, once the worker is there for it.  Nothing is looked *)
(* at again: another call may be streaming by now.                         *)
Post(c, op) ==
  /\ Call(c, op)
  /\ streaming' = IF op = "stream" THEN nextId + 1 ELSE streaming
  /\ caller' = [caller EXCEPT ![c] = Calling(op)]

\* The pending calls in the order of the Map: that of their ids.
InMapOrder(ids) ==
  \A m, n \in DOMAIN ids : m < n => ids[m] < ids[n]

Refusals(ids) == [n \in DOMAIN ids |-> [caller |-> pending[ids[n]], ok |-> FALSE]]

\* Mutants of Rejected: nobody is told; the counter is forgotten.
RejectedNobody == continuations' = continuations /\ activeCount' = 1
RejectedUncounted ==
  \E ids \in [1..Cardinality(DOMAIN pending) -> DOMAIN pending] :
    /\ InMapOrder(ids)
    /\ continuations' = continuations \o Refusals(ids)
    /\ activeCount' = activeCount + 1

\* All pending promises are rejected; the first call of the boot is counted.
Rejected ==
  \E ids \in [1..Cardinality(DOMAIN pending) -> DOMAIN pending] :
    /\ InMapOrder(ids)
    /\ continuations' = continuations \o Refusals(ids)
    /\ activeCount' = activeCount - Cardinality(DOMAIN pending) + 1

(* supersedeWorker up to its first await: the worker is terminated and a   *)
(* new one is sent the first call of initEngine.  Answers of the old one   *)
(* may still arrive.                                                       *)
Supersede(c, op) ==
  /\ Rejected
  /\ streaming' = NoCall
  /\ nextId' = nextId + 1
  /\ pending' = [id \in {nextId + 1} |-> c]
  /\ posted' = <<Message(nextId + 1, Boot[1])>>
  /\ inbox' \in {inbox, <<>>}
  /\ caller' = [caller EXCEPT ![c] = Booting(op, 1)]

\* A streaming call is in flight and op does not wait behind it.
Preempts(op) == op # "plain" /\ streaming # NoCall

(* One of the exported functions, up to its first await.                   *)
Ask(c, op) ==
  \/ Preempts(op) /\ Supersede(c, op)
  \/ /\ ~Preempts(op) /\ op # "cancel"
     /\ Post(c, op)
     /\ UNCHANGED <<inbox, continuations>>

(* The page calls one of them in a turn of its own.                        *)
Request(c, op) ==
  /\ continuations = <<>>
  /\ caller[c] = Idle
  /\ requests < MaxRequests
  /\ requests' = requests + 1
  /\ Ask(c, op)

(* The worker answers its oldest message, with a result or with an error.  *)
Answer(ok) ==
  /\ posted # <<>>
  /\ posted' = Tail(posted)
  /\ inbox' = Append(inbox, [id |-> Head(posted).id, ok |-> ok])
  /\ UNCHANGED <<pending, nextId, streaming, activeCount, caller, continuations, requests>>

\* Mutant: the id stays when it is not the last one posted.
EndStreamOfAnother(id) == streaming' = NoCall
EndStream(id) == streaming' = IF streaming = id THEN NoCall ELSE streaming

(* worker.onmessage: the promise of the answer is settled; an answer that  *)
(* no promise waits for is dropped.                                        *)
Receive ==
  /\ continuations = <<>>
  /\ inbox # <<>>
  /\ inbox' = Tail(inbox)
  /\ LET id == Head(inbox).id
     IN  IF id \in DOMAIN pending
         THEN /\ pending' = [i \in DOMAIN pending \ {id} |-> pending[i]]
              /\ activeCount' = activeCount - 1
              /\ EndStream(id)
              /\ continuations' = <<[caller |-> pending[id], ok |-> Head(inbox).ok]>>
         ELSE UNCHANGED <<pending, activeCount, streaming, continuations>>
  /\ UNCHANGED <<posted, nextId, caller, requests>>

Settle(c) ==
  /\ caller' = [caller EXCEPT ![c] = Idle]
  /\ UNCHANGED <<posted, pending, nextId, streaming, activeCount>>

(* initEngine goes on after one of its calls: with the next one, or, after *)
(* the last, with the request that it was for.                             *)
BootOn(c, op, step) ==
  \/ /\ step < Len(Boot)
     /\ Call(c, Boot[step + 1])
     /\ caller' = [caller EXCEPT ![c] = Booting(op, step + 1)]
     /\ UNCHANGED streaming
  \/ /\ step = Len(Boot) /\ op # "cancel"
     /\ Post(c, op)
  \/ /\ step = Len(Boot) /\ op = "cancel"
     /\ Settle(c)

(* The await of a settled promise goes on.                                 *)
Continue ==
  /\ continuations # <<>>
  /\ continuations' = Tail(continuations)
  /\ LET c == Head(continuations).caller
         ok == Head(continuations).ok
         at == caller[c]
     IN  IF at.at = "boot" /\ (ok \/ Boot[at.step] \in Caught)
         THEN BootOn(c, at.op, at.step)
         ELSE Settle(c)
  /\ UNCHANGED <<inbox, requests>>

-----------------------------------------------------------------------------
(* The busy overlay is shown exactly while promises are pending: a respawn *)
(* neither leaves it on for ever nor takes it off too early.               *)
ActivityIsPending == activeCount = Cardinality(DOMAIN pending)

InFlight(id) == \/ \E n \in 1..Len(posted) : posted[n].id = id
                \/ \E n \in 1..Len(inbox) : inbox[n].id = id

PromisesInFlight == \A id \in DOMAIN pending : InFlight(id)

(* Nobody waits for an answer that no worker will give: every caller that  *)
(* is not idle has one promise, which is pending with its message on the   *)
(* way, or has just been settled.                                          *)
AnswerComing ==
  /\ PromisesInFlight
  /\ \A c \in Callers : caller[c] # Idle =>
       Cardinality({id \in DOMAIN pending : pending[id] = c})
       + Cardinality({n \in 1..Len(continuations) : continuations[n].caller = c}) = 1

(* activeStreamingId, one variable, stands for all the streaming calls:    *)
(* when a caller overwrote it because it did not look again after the      *)
(* respawn, the call it holds is the last to be answered.  So a cancel or  *)
(* a newer request always reaches the worker while anything streams.       *)
StreamIsKnown ==
  (\E id \in DOMAIN pending : caller[pending[id]] = Calling("stream")) <=> streaming # NoCall
=============================================================================

----------------------------- MODULE StreamPool -----------------------------
(***************************************************************************)
(* The pool of yamux streams that both sides draw their calls' streams     *)
(* from (src/src/stream_pool.ts), with the callers around it: a call       *)
(* acquires a stream, uses it for one request and its reply, and releases  *)
(* it (imported.ts:261-283, exported.ts:229-243).                          *)
(*                                                                         *)
(* acquire() is synchronous up to its first await: it pops idle streams,   *)
(* cleaning up the ones that have closed, until it finds an open one or    *)
(* none is left.  `running` is the caller inside that loop; nothing else   *)
(* runs meanwhile.  openStream() is asynchronous and may fail; a stream    *)
(* may close at any time, the whole session as well.                       *)
(*                                                                         *)
(* idleSet always holds the members of idle and is not kept apart.  The    *)
(* name of a stream the pool has dropped is used again for a new stream.   *)
(***************************************************************************)
EXTENDS Integers, FiniteSets, Sequences

CONSTANTS
    Callers,    \* the calls that compete for streams
    Streams,    \* names of streams
    PoolSizes,  \* the values `max` is configured with
    Failures,   \* what may go wrong: a subset of {"open", "session"}
    None        \* no caller, no stream

ASSUME SizesAssumption == PoolSizes \subseteq Int
ASSUME FailuresAssumption == Failures \subseteq {"open", "session"}
ASSUME NoneAssumption == None \notin Callers /\ None \notin Streams
ASSUME CallersAssumption == IsFiniteSet(Callers)

VARIABLES
    max,        \* this.max
    reuse,      \* this.reuse
    openCount,  \* this.openCount
    idle,       \* this.idle, a stack
    pending,    \* this.pending: the callers whose resolve is queued
    running,    \* the caller inside acquire's loop, or None
    call,       \* what each caller's acquire has come to
    held,       \* the stream each caller uses, or None
    stream,     \* "free", "open" or "closed"
    session     \* is the yamux session up?

vars == <<max, reuse, openCount, idle, pending, running, call, held, stream, session>>
config == <<max, reuse>>

(* "none": no acquire outstanding, the last one (if any) settled and its   *)
(* stream given back.  "opening": createStream for this acquire.           *)
(* "reopening": createStream by cleanupStream for a waiter it took off the *)
(* queue.  "lost": that one failed, and nobody holds the resolve any more. *)
CallStates == {"none", "acquiring", "opening", "waiting", "reopening", "using", "lost"}

-----------------------------------------------------------------------------

(* Math.max(1, max) *)
EffectiveMax(m) == IF m < 1 THEN 1 ELSE m

Init ==
    /\ \E m \in PoolSizes : max = EffectiveMax(m)
    /\ reuse \in BOOLEAN
    /\ openCount = 0
    /\ idle = <<>>
    /\ pending = <<>>
    /\ running = None
    /\ call = [c \in Callers |-> "none"]
    /\ held = [c \in Callers |-> None]
    /\ stream = [s \in Streams |-> "free"]
    /\ session = TRUE

(* Math.max(0, openCount - 1) *)
OneLess(n) == IF n < 1 THEN 0 ELSE n - 1

(* Mutant: the slot is given up, and whoever waits for one keeps waiting. *)
GiveUpSlotSilently(calls) ==
    /\ openCount' = OneLess(openCount)
    /\ call' = calls
    /\ UNCHANGED pending

(* cleanupStream's second half: the slot is given up and, when a caller    *)
(* waits for one, taken again by createStream on the waiter's behalf.      *)
(* calls is the calls' state without this waiter's change.                 *)
GiveUpSlot(calls) ==
    IF pending # <<>> /\ OneLess(openCount) < max
      THEN /\ openCount' = OneLess(openCount) + 1
           /\ pending' = Tail(pending)
           /\ call' = [calls EXCEPT ![Head(pending)] = "reopening"]
      ELSE /\ openCount' = OneLess(openCount)
           /\ call' = calls
           /\ UNCHANGED pending

-----------------------------------------------------------------------------
(* acquire() *)

AcquireStarts(c) ==
    /\ running = None
    /\ call[c] = "none"
    /\ running' = c
    /\ call' = [call EXCEPT ![c] = "acquiring"]
    /\ UNCHANGED <<config, openCount, idle, pending, held, stream, session>>

Top == idle[Len(idle)]
(* Mutant: looks at the top and leaves it. *)
Peeked == idle
Popped == SubSeq(idle, 1, Len(idle) - 1)

(* The most recently released stream is open: it is the result. *)
TakeIdle(c) ==
    /\ running = c
    /\ idle # <<>>
    /\ stream[Top] = "open"
    /\ idle' = Popped
    /\ held' = [held EXCEPT ![c] = Top]
    /\ call' = [call EXCEPT ![c] = "using"]
    /\ running' = None
    /\ UNCHANGED <<config, openCount, pending, stream, session>>

(* It has closed: clean it up and look further. *)
DiscardIdle(c) ==
    /\ running = c
    /\ idle # <<>>
    /\ stream[Top] = "closed"
    /\ idle' = Popped
    /\ stream' = [stream EXCEPT ![Top] = "free"]
    /\ GiveUpSlot(call)
    /\ UNCHANGED <<config, running, held, session>>

(* None is left and there is room: createStream(). *)
OpenNew(c) ==
    /\ running = c
    /\ idle = <<>>
    /\ openCount < max
    /\ openCount' = openCount + 1
    /\ call' = [call EXCEPT ![c] = "opening"]
    /\ running' = None
    /\ UNCHANGED <<config, idle, pending, held, stream, session>>

(* None is left and there is no room: queue up. *)
Wait(c) ==
    /\ running = c
    /\ idle = <<>>
    /\ openCount >= max
    /\ pending' = Append(pending, c)
    /\ call' = [call EXCEPT ![c] = "waiting"]
    /\ running' = None
    /\ UNCHANGED <<config, openCount, idle, held, stream, session>>

RunAcquire(c) == TakeIdle(c) \/ DiscardIdle(c) \/ OpenNew(c) \/ Wait(c)

-----------------------------------------------------------------------------
(* openStream() settles *)

OpenSucceeds(c) ==
    /\ running = None
    /\ call[c] \in {"opening", "reopening"}
    /\ session
    /\ \E s \in Streams :
         /\ stream[s] = "free"
         /\ stream' = [stream EXCEPT ![s] = "open"]
         /\ held' = [held EXCEPT ![c] = s]
    /\ call' = [call EXCEPT ![c] = "using"]
    /\ UNCHANGED <<config, openCount, idle, pending, running, session>>

OpenMayFail == ~session \/ "open" \in Failures

(* Mutant: createStream without its catch clause. *)
OpenFailsKeepingSlot(c) ==
    /\ running = None
    /\ call[c] = "opening"
    /\ OpenMayFail
    /\ call' = [call EXCEPT ![c] = "none"]
    /\ UNCHANGED <<config, openCount, idle, pending, running, held, stream, session>>

(* createStream rejects, and with it the acquire that called it. *)
OpenFails(c) ==
    /\ running = None
    /\ call[c] = "opening"
    /\ OpenMayFail
    /\ openCount' = OneLess(openCount)
    /\ call' = [call EXCEPT ![c] = "none"]
    /\ UNCHANGED <<config, idle, pending, running, held, stream, session>>

(* createStream rejects, and cleanupStream's `.then(waiter)` drops it: the *)
(* waiter's promise stays unsettled.                                       *)
ReopenFails(c) ==
    /\ running = None
    /\ call[c] = "reopening"
    /\ OpenMayFail
    /\ openCount' = OneLess(openCount)
    /\ call' = [call EXCEPT ![c] = "lost"]
    /\ UNCHANGED <<config, idle, pending, running, held, stream, session>>

-----------------------------------------------------------------------------
(* release(stream), by the caller that has finished with it *)

Returned(c) ==
    /\ running = None
    /\ call[c] = "using"
    /\ held' = [held EXCEPT ![c] = None]
    /\ UNCHANGED <<config, running, session>>

(* Mutant: a closed stream is not cleaned up, its slot stays taken. *)
ReleaseClosedKeepingSlot(c) ==
    /\ Returned(c)
    /\ stream[held[c]] = "closed"
    /\ stream' = [stream EXCEPT ![held[c]] = "free"]
    /\ call' = [call EXCEPT ![c] = "none"]
    /\ UNCHANGED <<openCount, pending, idle>>

ReleaseClosed(c) ==
    /\ Returned(c)
    /\ stream[held[c]] = "closed"
    /\ stream' = [stream EXCEPT ![held[c]] = "free"]
    /\ GiveUpSlot([call EXCEPT ![c] = "none"])
    /\ UNCHANGED idle

(* Mutant: the last to come is served first. *)
ReleaseToLastWaiter(c) ==
    /\ running = None
    /\ call[c] = "using"
    /\ stream[held[c]] = "open"
    /\ pending # <<>>
    /\ pending' = SubSeq(pending, 1, Len(pending) - 1)
    /\ held' = [held EXCEPT ![c] = None, ![pending[Len(pending)]] = held[c]]
    /\ call' = [call EXCEPT ![c] = "none", ![pending[Len(pending)]] = "using"]
    /\ UNCHANGED <<config, openCount, idle, running, stream, session>>

(* A waiter gets the stream at once, whether or not streams are reused. *)
ReleaseToWaiter(c) ==
    /\ running = None
    /\ call[c] = "using"
    /\ stream[held[c]] = "open"
    /\ pending # <<>>
    /\ pending' = Tail(pending)
    /\ held' = [held EXCEPT ![c] = None, ![Head(pending)] = held[c]]
    /\ call' = [call EXCEPT ![c] = "none", ![Head(pending)] = "using"]
    /\ UNCHANGED <<config, openCount, idle, running, stream, session>>

ReleaseAndReset(c) ==
    /\ Returned(c)
    /\ stream[held[c]] = "open"
    /\ pending = <<>>
    /\ ~reuse
    /\ stream' = [stream EXCEPT ![held[c]] = "free"]
    /\ GiveUpSlot([call EXCEPT ![c] = "none"])
    /\ UNCHANGED idle

(* Mutant: the stream goes idle although a call waits for it. *)
ReleaseToIdlePastWaiters(c) ==
    /\ Returned(c)
    /\ stream[held[c]] = "open"
    /\ reuse
    /\ idle' = Append(idle, held[c])
    /\ call' = [call EXCEPT ![c] = "none"]
    /\ UNCHANGED <<openCount, pending, stream>>

ReleaseToIdle(c) ==
    /\ Returned(c)
    /\ stream[held[c]] = "open"
    /\ pending = <<>>
    /\ reuse
    /\ idle' = Append(idle, held[c])
    /\ call' = [call EXCEPT ![c] = "none"]
    /\ UNCHANGED <<openCount, pending, stream>>

Release(c) ==
    \/ ReleaseClosed(c)
    \/ ReleaseToWaiter(c)
    \/ ReleaseAndReset(c)
    \/ ReleaseToIdle(c)

-----------------------------------------------------------------------------
(* the connection *)

StreamCloses(s) ==
    /\ running = None
    /\ stream[s] = "open"
    /\ stream' = [stream EXCEPT ![s] = "closed"]
    /\ UNCHANGED <<config, openCount, idle, pending, running, call, held, session>>

SessionCloses ==
    /\ "session" \in Failures
    /\ running = None
    /\ session
    /\ session' = FALSE
    /\ stream' = [s \in Streams |-> IF stream[s] = "open" THEN "closed" ELSE stream[s]]
    /\ UNCHANGED <<config, openCount, idle, pending, running, call, held>>

Next ==
    \/ \E c \in Callers :
         \/ AcquireStarts(c)
         \/ RunAcquire(c)
         \/ OpenSucceeds(c) \/ OpenFails(c) \/ ReopenFails(c)
         \/ Release(c)
    \/ \E s \in Streams : StreamCloses(s)
    \/ SessionCloses

Spec == Init /\ [][Next]_vars

(* The event loop runs a started acquire to its await; openStream settles; *)
(* and a call ends and releases its stream (imported.ts:281-283).  The     *)
(* last two are enabled only between other callers' synchronous sections,  *)
(* so they are strong: the loop keeps coming back to every ready task.     *)
Fairness ==
    \A c \in Callers :
        /\ WF_vars(RunAcquire(c))
        /\ SF_vars(OpenSucceeds(c) \/ OpenFails(c) \/ ReopenFails(c))
        /\ SF_vars(Release(c))

FairSpec == Spec /\ Fairness

-----------------------------------------------------------------------------

Users == {c \in Callers : call[c] \in {"opening", "reopening", "using"}}

TypeOK ==
    /\ max \in Nat \ {0}
    /\ reuse \in BOOLEAN
    /\ openCount \in Nat
    /\ idle \in Seq(Streams)
    /\ pending \in Seq(Callers)
    /\ running \in Callers \cup {None}
    /\ call \in [Callers -> CallStates]
    /\ held \in [Callers -> Streams \cup {None}]
    /\ stream \in [Streams -> {"free", "open", "closed"}]
    /\ session \in BOOLEAN

(* openCount is exactly the number of slots taken: idle streams, streams   *)
(* in use and streams being opened; whatever fails or closes, no slot is   *)
(* leaked or counted twice, and there are never more than max              *)
(* (stream_pool.ts:66-84).                                                 *)
OpenCountExact ==
    /\ openCount = Len(idle) + Cardinality(Users)
    /\ openCount <= max

(* A stream has one user: no two calls hold it, and none that is held is   *)
(* idle or idle twice; requests and replies of two calls never share a     *)
(* stream (imported.ts:268-273 reads the first reply that arrives).        *)
StreamsExclusive ==
    /\ \A c, d \in Callers : held[c] # None /\ held[c] = held[d] => c = d
    /\ \A c \in Callers, i \in 1..Len(idle) : held[c] # idle[i]
    /\ \A i, j \in 1..Len(idle) : idle[i] = idle[j] => i = j

(* Exactly the calls in use hold a stream, and it is not a dropped one. *)
HeldStreamsExist ==
    /\ \A c \in Callers : (held[c] # None) <=> (call[c] = "using")
    /\ \A c \in Callers : held[c] # None => stream[held[c]] # "free"
    /\ \A i \in 1..Len(idle) : stream[idle[i]] # "free"

(* No stream is lost: one that has been opened and not been cleaned up is  *)
(* in use or idle.                                                         *)
StreamsAccounted ==
    \A s \in Streams : stream[s] # "free" =>
        \/ \E c \in Callers : held[c] = s
        \/ \E i \in 1..Len(idle) : idle[i] = s

(* Nobody queues while a stream sits idle, and the queue holds every       *)
(* waiting call once.                                                      *)
QueueSound ==
    /\ idle # <<>> => pending = <<>>
    /\ \A i, j \in 1..Len(pending) : pending[i] = pending[j] => i = j
    /\ \A i \in 1..Len(pending) : call[pending[i]] = "waiting"
    /\ \A c \in Callers : call[c] = "waiting" => \E i \in 1..Len(pending) : pending[i] = c

(* Exactly the running caller is in acquire's loop. *)
RunningSound == \A c \in Callers : call[c] = "acquiring" <=> running = c

(* The inductive invariant. *)
PoolSound ==
    /\ TypeOK
    /\ OpenCountExact
    /\ StreamsExclusive
    /\ HeldStreamsExist
    /\ StreamsAccounted
    /\ QueueSound
    /\ RunningSound

(* A call waits only while all slots are taken. *)
WaitersOnlyAtCapacity == pending # <<>> => openCount = max

(* The abstract promise, for streams that may close but can be opened: a   *)
(* first-come first-served semaphore of max permits.                       *)
Semaphore == INSTANCE FifoSemaphore WITH
    limit <- max, granted <- Users, queue <- pending

(* Permits are handed over in arrival order and never exceed max; an       *)
(* acquire queues only when all permits are taken (stream_pool.ts:30-63).  *)
KeepsSemaphore == Semaphore!Spec

(* Every acquire comes to an end: with a stream, or rejected. *)
AcquireSettles ==
    \A c \in Callers : (call[c] \notin {"none", "using"}) ~> (call[c] \in {"none", "using"})

(* The pool never stands still while an acquire is outstanding: some       *)
(* caller runs on in acquire, has its stream opened, or can release one    *)
(* (stream_pool.ts:30-84).                                                 *)
Moves(c) ==
    \/ running = c /\ (idle # <<>> => stream[Top] \in {"open", "closed"})
    \/ /\ running = None
       /\ call[c] \in {"opening", "reopening"}
       /\ session /\ \E s \in Streams : stream[s] = "free"
    \/ running = None /\ call[c] = "using"

SomeCallerMoves ==
    (\E c \in Callers : call[c] \notin {"none", "using"}) => \E c \in Callers : Moves(c)
=============================================================================

# Verification of proxyables.ts

TLA+ models of the TypeScript RPC library in this repository, TLC runs that check
them on small instances, and TLAPS proofs that hold for every instance. Paths below
are relative to the repository (`src/registry.ts` is the library's registry).

    tlc -workers 2 -config MCStreamPoolFailures.cfg MCStreamPool    # one run
    tlapm StreamPoolProofs.tla                                      # one proof module

`PROJECT.json` lists the runs, the source lines each definition stands for, the
hazards of the code with the properties that cover them, and a mutant of the code
for every property: a plausible mistake under which TLC finds the property violated.
Mutants stand in the modules just before the definition they change, marked
`Mutant:`; no action uses them.

## Inventory

| Component | State | Operations | Talks to |
| --- | --- | --- | --- |
| Object registry (`src/registry.ts`) | id→object, id→count, object→id | `register`, `get`, `delete`, `snapshot` | called by exporter and importer; ids from muid |
| Stream pool (`src/stream_pool.ts`) | number of slots taken, stack of idle streams, queue of waiters | `acquire`, `release`, internally `createStream`, `cleanupStream` | yamux session; one pool per side |
| Exporter (`src/exported.ts`) | registry, bound-method cache, lazy stream pool | serves execute and release requests; its own get trap; calls callback references | registry, pool, framing |
| Importer (`src/imported.ts`) | FinalizationRegistry, registry of arguments, stream pool | cursors (get, apply, construct, then), result unwrapping, finalizer, evaluator for callbacks | registry, pool, framing |
| Framing (`src/transport.ts`, `src/decoder.ts`, `src/encoder.ts`) | a buffer per stream being read | write a request, read until one decodes, handle each | yamux streams, MessagePack |
| Ids (`src/muid.ts`) | per shard: time and counter; index of the next shard | `make`, `Generator.id`, conversions to strings | everyone who needs an id |
| Facade, instructions, types, logger, symbols | none that matters | constructors and constants | |

**How a call runs.** Traps on the imported proxy only build a list of instructions
(a *cursor*). `await` reaches the `then` trap, which acquires a pooled stream, writes one
`execute` request, reads one reply and releases the stream. The exporter evaluates the
instructions on a small stack, starting at the root object or at a registered object
named by id. A result that is an object or a function is registered and its id is
replied; the importer makes a proxy for it and enters it in a FinalizationRegistry, whose
callback sends a `release`. Functions passed as arguments travel the other way: the
importer registers them, and the exporter calls them on streams of its own.

**What is hard.** Everything is one event loop per side, so synchronous sections are
atomic, but every `await` is a point where other calls, releases, stream closings and
the end of the session may come between. Requests and releases use different streams
and arrive in any order. Finalizers run whenever the engine likes. Opening a stream may
fail; streams close while idle; sessions end with requests, replies and releases under
way. Calls hold a pooled stream while they nest through callbacks.

**What makes each component correct.**

* *Registry*: the three tables agree; counts are the retains taken minus the releases;
  a freed id is never bound again.
* *Pool*: the slot count is exact whatever fails or closes; a stream has one user;
  waiters are served in order and never wait beside an idle stream; every acquire ends.
* *References*: an object stays registered while a reference to it is in hand, and after
  that only if one was lost; ids reach the right object or none; what is dropped and
  released is reclaimed.
* *Callbacks*: the same for arguments, in the other direction.
* *Evaluation*: the instruction stack means what the chain of traps meant.
* *Calls*: nested calls wait for each other in a circle only when both sides start calls or
  a callback calls back; every call outside such a circle ends.
* *Framing*: each call is answered by its own reply, and executed at most once, however messages are
  split into chunks and streams used again.
* *Ids*: never repeat in a process, as numbers and as strings.

## Plan

| Order | Module | Models | State |
| --- | --- | --- | --- |
| 1 | `ObjectRegistry`, `RetainLedger` | registry; a ledger of retains as its abstraction | done, proved |
| 2 | `StreamPool`, `FifoSemaphore` | pool; a FIFO semaphore as its abstraction | done, proved |
| 3 | `RefProtocol` | distributed garbage collection, on top of `ObjectRegistry` | done, proved |
| 4 | `Muid`, `MuidString` | shards, clock steps, counter overflow; string conversion | done, proved |
| 5 | `NestedCalls` | calls that hold streams of two pools while they nest through callbacks, and the circles they can wait in; each pool is the semaphore that `StreamPool` is proved to be | done, proved |
| 6 | `Framing`, `RemoteCall` | chunks, buffers and streams that are used again; a call executed at most once as its abstraction | done, proved |
| 7 | `Evaluation` | the exporter's instruction machine and the importer's cursors against the meaning of a chain of traps, on top of `ObjectRegistry` | done, proved |
| 8 | `CallbackRefs` | arguments as references, in the importer's registry (extends `ObjectRegistry`) and, for the arguments of callbacks, in the exporter's (an instance of it) | done, proved |
| 9 | `MuidWords` | the words of muid in two halves, in lockstep with `Muid`; the hash of the machine's name | done, proved |

What is left: calls that fail while others are nested in them (`NestedCalls` over `StreamPool`
instead of the semaphore), and a process that is both an exporter and an importer of one
connection with one registry for both. Then the proofs of both.

## Modules

### ObjectRegistry, RetainLedger

`map`, `counts`, `weakMap` are the fields of the class, as functions with a changing
domain; `lastId` numbers the ids muid draws, so "fresh" is part of the model and is
what `Muid` shows. `Register(o)` and `Delete(id)` are whole calls, split
into the branches of the code (`RegisterAgain`/`RegisterNew`, `DeleteRetain`/`DeleteEntry`).
They are meant to be used by other modules as steps on the registry's variables.
`register` consults `weakMap` alone and `delete` tolerates unknown ids, so the three
tables must agree for either to be right; `TablesAgree` says how.

`RetainLedger` is the promise: a number per object, plus and minus one. `KeepsLedger`
is the refinement, with an object's number read through its id.

### StreamPool, FifoSemaphore

The variables are the pool's fields and, per caller, what its `acquire` has come to
(`call`) and the stream it uses (`held`). `acquire` runs without interruption to its
first await; its loop over idle streams takes one step per stream, with `running` holding
off everybody else. `createStream` is split at its await: the slot is taken in `OpenNew` or
`GiveUpSlot`, and `OpenSucceeds`, `OpenFails`, `ReopenFails` settle it. `release` has its
four cases. `GiveUpSlot` is `cleanupStream`: the slot goes back, and is taken again at once on
behalf of the first waiter. `StreamCloses` and `SessionCloses` are yamux's.

`idleSet` always has the elements of `idle` and is left out. The state of a stream is
"free" once the pool has dropped it, and its name is then used for a new stream.

`FifoSemaphore` is the promise: permits, a queue, hand-over to the head of the queue.

### RefProtocol

It extends `ObjectRegistry`, whose variables are the exporter's registry. Everything
else is one record of functions on *calls*: a call is a cursor, then a request, then an
execution, then a reply, then a proxy, then a finalized proxy with a release under way
(`phase`). `target` is the root or the call whose proxy it was made on; `conn` the
connection. Each phase change is one handler or one message delivery; as each message
has its own phase, messages are delivered in any order. `Close` ends a connection at any
time, and nothing in the code runs on that account. The result of an operation
is any object or a value: what operations compute is left open.

A reference that has been registered is *in hand* (`InHand`: in a reply, a proxy, or a
release under way) until its release is handled, or it is *lost for good* (`LostForGood`). It is lost when
its reply is not read (`LoseReply`), when the finalizer cannot open or write to its stream and swallows the
error (`Finalize`), when the release does not arrive (`LoseRelease`), or from the start, when the get trap of the exported
proxy registers an object that no peer hears of (`LocalGet`). A stream may break alone, so requests fail (`Fail`) and
replies and releases are lost on a live connection too. The registry cannot tell the two kinds apart: `SnapshotExact`
says that its totals are those in hand plus all those ever lost, `DroppedIsReclaimed` that in the end
the lost ones are all that is left, and `CleanedAfterDisconnect` that a disconnect leaves nothing, as the parity
agent claims and the code does not do.

An execution is split at the awaits of the code: the look-up of the target (synchronous
with the arrival of the request) and the registering of the result, after any time.
A proxy is dropped as a whole; cursors made on it keep its id only.

### Muid, MuidString

`make` asks the shards in turn; `Make` is one `make()` with any reading of the clock. A
shard's `state` and an id are kept as records of their bit fields, each as wide as the code
makes it: `SinceEpoch` wraps at the word, `StateOf` keeps what the state's time field
holds, `IdOf` what the id's timestamp field holds. That the fields of an id do not overlap
needs the counter to stay within its mask, which is part of `TypeOK`. `ids` is the history of draws.

`MuidString` packs the fields into a number and turns that into the string used as a key
and on the wire. For values of 2^32 and more the code does not compute the base-32 numeral but a
string of its own, digit by digit; `StringsNameIds` says that it still names the id.

### NestedCalls

A call is made by one side, on its own account or within an operation that it runs for the
other (`parent`, `depth`). It queues for, or takes, a stream of its side's pool (`Acquire`), is
executed by the other side, which takes no pooled stream, and gives the stream back when the
reply has been read (`Finish`). An operation replies when the calls that it made have ended.
`Acquire` and `Finish` are the operations of a first-come first-served semaphore, which `StreamPool` is proved to
implement while streams can be opened; nothing is claimed here of the pool itself. Calls on the importer's own account are
those of the program; the exporter's are calls of callbacks it has kept.

A *knot* is a set of calls that wait for each other: each is executing and waits for a call of the set, or is queued
for a pool whose streams all belong to calls of the set. `acquire` has no timeout, nor has the wait for a callback, so a
knot lasts (`KnotsLast`), and its calls never end. It takes calls started by both sides, or a callback that calls back
(`KnotsTakeTwoSides`, whose condition is `OneSided`): a callback draws on the other side's pool than the call that led to it. `CallsEnd`
says that a call in no knot ends.

### Evaluation

The exporter's `execute` handler and what it calls: get, apply, construct, the loop over a
request's instructions, the reply. Each operation is followed by an await, so an operation is one
action (`Perform`), and `apply`, which also awaits what the function returns, is two
(`Call`, `CallReturns`). Several requests are evaluated at once; each has a `stack` of its own, and they
share the program's objects (`props`), the cache of bound methods and the registry. `Await` is the
importer's part: a chain of traps on the root or on a proxy, sent when the cursor is thenable (`Thenable`: not the
root, not a lone reference). `Receive` makes the proxy, on which `await` resolves at once for
the same reason. What functions return is left open, within `Results`; `Assign` is the exporting program replacing
a property while requests run.

`target` of an operation is what the code gives it: the top of the stack, or the root when the stack
is empty *or holds undefined*, as undefined passed for a parameter with a default is replaced by the
default (`exported.ts:302-307, 323`). So `proxy.missing()` on a root that is a function calls the root.
`ChainsFollowed` is about operations that follow anything but undefined; what
should follow undefined is `ChainsMeanLocally`, which the code violates. A function read from an object is bound to it and
cached by object and key (`GetBound`, `GetCached`); the cached function is returned even after the property was assigned another one
(`overwritten` in `ReadsCurrent`). `done` is the history of operations that the properties compare with the
chain. Operations that return an error, or throw (null has no properties, functions of the program may throw), end in
`ReplyError`; "no result" (`exported.ts:314-316`) is shown to be unreachable (`StackHoldsLast`) for the cursors of this
importer, which send no instructions of other kinds than these; other kinds are skipped (`exported.ts:298-300`).
Arguments are left to `CallbackRefs`.

### CallbackRefs

The importer's registry (the variables of `ObjectRegistry`) and the references the exporter makes for its ids. The apply and
construct traps register each function or object among their arguments when the *trap* runs (`Trap`); each
time the cursor is awaited the exporter makes a stub (`Hydrate`). So one retain may have two stubs (the cursor
awaited twice) or none (never awaited). The exporting program calls a stub, or a method of it (`CallStub`), with an object of its own as
argument, which it registers before it has a stream: the exporter's registry is the instance `Exporter` of `ObjectRegistry`, with tables
of its own (`argMap`, `argCounts`, `argWeakMap`, `argLastId`), and `argId` is the id the call is sent with. The importer's evaluator is `Handle`: the reference is looked up, a
property is read and registered (a method as a new bound function, which is why each call on a callback
object leaves an entry), a function is run, and only then are proxies made for the arguments. A target that is not a function is
taken off the stack and the reply is undefined (`PassOver`); a property that is not an object makes the
evaluator throw, which is caught and replied (`NoMethod`). `Finalize` is the release of the argument's proxy,
which deletes that id at the exporter.

Calls that share an argument share its id, and an argument that was freed comes under a new one. `ArgumentsExact` says that a call's id
names its argument until the proxy of this very call is released, and that the exporter's counts are the calls that have not
given theirs back: those that never made a proxy never do.

A stub has no finalizer in this code, so nothing releases what `Trap` retained; the importer does handle
releases, and a peer may send them (`PeerRelease`, under `PeerReleases`). `RetainsExact` counts both.

### MuidWords

`Muid` keeps bit fields apart; `MuidWords` has the words the code computes, as two halves with masks and shifts,
one draw of it with one draw of `Muid` (`WordMake` has `Make` as a conjunct), and
`WordsAgree` says that the words hold exactly the fields, and that `toHex` and `toDecimal` spell them.
The halves are 2 and 8 bits wide in the run instead of 32 and 32: ids and states cross the
border, and time minus epoch borrows across it. It also has `hashString` with its arithmetic on
floating-point numbers (`Rounded`), of which the run's machine id is computed.

JavaScript's `|` and `&` are `BitOr` and `BitAnd`, a number being the set of its ones (`Ones`), and `Pow2` is a
recursive function, so that all of it can be reasoned about; `MCMuid` has TLC compare them with the `Bitwise`
module's operators and with `^`.

### Framing, RemoteCall

One direction of a session: calls are made by one side (`caller` says which) on pooled streams, and
the other serves them, one handler per stream. A stream is two queues of bytes. A message is `Pieces`
pieces, and a chunk any number of those that are under way; both readers append it to a buffer and
try to decode the whole buffer (`ReceiveRequest`, `ReceiveReply`). The buffer decodes when it is exactly
one message of the expected kind, as MessagePack reports missing and surplus bytes alike as errors, which
`tryDecodeInstruction` turns into "not yet". That a complete message may fail to decode is left out: the two
sides use the same codec. `Acquirable` is what `StreamPool` promises of `acquire`: a stream that no call uses, and
that has not ended. `handler` is the handler's control: while it evaluates, `readEachStreamChunk` waits and
no chunk is read. `FailHandler` is the end of a handler whose write or whose `encode` throws; it does not
end the stream, so the caller is not told. `EndStream` is yamux's; what is under way on an ended stream may
still arrive, or not.

`RemoteCall` is the promise: a request is executed at most once, only if it was sent and possibly after its
caller has failed, and an answer comes from that execution.

## Runs

| Run | Instance | States | Shows |
| --- | --- | --- | --- |
| `pool_failures` | 4 callers, 3 streams, sizes 0–3, everything may fail | 2 074 | exact slots, exclusive streams, sound queue |
| `pool_semaphore` | 3 callers, 2 streams, sizes 0–2, streams close | 1 160 | refines the semaphore; every acquire settles |
| `pool_session_close` | same, the session may end | violation | a queued acquire is never settled |
| `refs` | 3 calls, 2 connections, 2 objects, 3 ids; streams break, connections end | 1 197 280 | counts exact, ids reach the right object or none, what is dropped is reclaimed unless it was lost |
| `refs_disconnect` | 2 calls, 1 connection, 2 objects | violation | a disconnect leaves entries behind |
| `nested_calls` | 4 calls from both sides, depth 3, pools of 1 or 2 | 87 978 | circles take two sides and last; every other call ends |
| `muid_unique` | 2 shards, 2-bit counter, 5-bit timestamp, halves of 2 and 8 bits, 10 draws | 1 139 | ids increase per shard, are unique, as are their strings; words and fields agree |
| `evaluation` | 2 requests, chains of up to 3 traps, a root function with a property of each kind, 3 ids | 109 125 | chains mean what they say, methods run on their object under one id, awaits settle |
| `evaluation_primitives` | the same | violation | a method of a primitive runs on the root |
| `evaluation_undefined` | the same | violation | an operation on undefined works on the root |
| `callbacks` | 2 cursors, 2 stubs, 2 calls, 3 objects and their bound methods, 1 argument, 6 ids | 623 532 | calls reach the callback handed over; both registries exact; tables agree, ids are not rebound, refines the ledger; calls settle |
| `framing` | 3 calls, 2 streams, messages in 2 pieces, either side calling | 31 114 | each call gets its own reply or fails, runs at most once, and ends |

**Bounds.** `MaxIds` bounds the ids drawn, and `Calls` the calls of `RefProtocol`, each used once: there are as many ids
as calls, so that none is refused for lack of one. Four callers on
one to three slots give queues of up to three, with streams closing idle and slots freed while
others wait; sizes 0 and 1 are the two sides of the floor. Three calls are enough for two
proxies of one object on two connections, of which one is lost; for an object that is freed and returned
again; and for a late cursor on a proxy whose object another call has kept. Four nested calls, started by both sides and three
deep, tie knots in both ways (two calls with a callback each, and a callback that calls back),
on fewer streams than either side wants. Ten draws from two shards overflow the two-bit counter of a shard,
and its time runs ahead of the clock and is caught up with; the values lie on both sides of `HalfWord`, where
the string conversion changes, and each drawn id's string is compared with that of every number of that
many bits. Three calls on two streams let a stream be used a second time with the other
one ended or its caller waiting for ever, and two pieces let a message be whole, half read or unread at either end.
Two requests of up to three traps are enough for one to start at the other's result, to read and call a method
between the other's get and apply, and to find a cached method replaced; the property they read is a
function, an object, a string, null or missing in turn. Two cursors, two stubs and two calls give a cursor
awaited twice, one callback handed over twice, and a stub released with a call on it under way; with one argument object the two calls
share an id, or the argument is freed and registered again between them under another. The bound methods and results make six ids.
`MaxDraws`, `MaxDepth` and `Calls` bound the draws, the nesting and the calls. Symmetry is used only in `pool_failures`, which
has no temporal property; callers and streams are interchangeable in all its definitions. The proofs remove the bounds for the
safety properties.

The registry's own properties (`TablesAgree`, `IdsNeverRebound`, `KeepsLedger`) are checked where two kinds of references and a peer that
releases too often use it, in `callbacks`. Deadlock is checked in `pool_semaphore`. In the other runs of `StreamPool`, and in those of
`RefProtocol`, calls are finite, and callers whose promise is lost may be all that is left. Calls, requests and draws
are finite in the runs of `NestedCalls`, `Muid`, `Evaluation`, `CallbackRefs` and `Framing`, which therefore stop; what standstill
means there is said by a property of its own: `CallsEnd` and the theorem `NoStandstill` for nested calls, `CallsSettle` for framing and
callbacks, `AwaitsSettle` for evaluation.

**Fairness.** `StreamPool`: a started `acquire` runs on (weak); `openStream` settles and a
call that has its stream ends and releases it in its `finally` (strong, because both wait for
moments when no other synchronous section runs, and the event loop comes back to every
ready task). That a call with a stream ends is an assumption: callers that wait for each other are the subject of `NestedCalls`, and
waiters that are lost when opens fail show in `pool_session_close` only. No fairness for callers to start, for streams to close, or for the session
to end. `RefProtocol`: requests, replies and releases on a connection that stays up are
handled unless they are lost, operations end, and the engine runs the finalizer of a dropped proxy. The last
is not promised by JavaScript; the library's reclamation rests on it, so `DroppedIsReclaimed`
is stated under it. No fairness for what the program does: making, awaiting and dropping. `NestedCalls`: requests and replies arrive,
and an operation ends once the calls it waits for have (all weak: nothing disables these steps but
themselves). A released stream goes to the first waiter in the same step, so the queue needs no fairness.
`Framing`: bytes arrive on a stream that stays open, operations end, and a reader learns that its stream has ended
(all weak). A call whose reply cannot be encoded keeps its stream for ever; a pool that such calls have used up is not modelled. Nothing is assumed of the server's reading on an ended stream, of calls being made, or of streams ending.
`Evaluation`: requests and replies arrive, and functions of the program return or throw (weak, per request). `CallbackRefs`:
calls reach the importer, and callbacks return or throw (weak, per call). No fairness for making, awaiting, releasing or assigning.

**Disagreements found.** The four violation runs. `PROJECT.json` quotes what the repository says instead.

* `pool_session_close`: waiters of a pool are lost when the session ends. A failed `openStream` frees its slot without a look at
  the queue (`stream_pool.ts:69-72`), and one that is opened for a waiter drops its rejection (`stream_pool.ts:82`).
* `refs_disconnect`: the parity agent reports a registry that is empty after an abrupt disconnect (`parity/agent.js:346-347`); nothing
  on either side gives back what a connection held when it ends.
* `evaluation_primitives`: a method read from a primitive, as in `await proxy.name.toUpperCase()`, is
  called on the exported root, because a primitive cannot be a key of the WeakMap that caches bound
  methods and the error is ignored.
* `evaluation_undefined`: an operation on an undefined result, as in `await proxy.missing()`, works on the exported root: it calls the root
  if that is a function, where the same chain would throw locally.

**What the statements say of the code.** These behaviours hold by design or by omission, and the properties
are stated so that they show:

* A cursor can outlive its proxy: it holds the id and not the object in the FinalizationRegistry, so a cursor made on a proxy
  that is dropped and collected before the `await` is answered `missing reference` (`imported.ts:221-225`).
  `MissedOnlyWhenReleased` says that this is the only way to miss.
* A reference that is lost is never made good, and a connection that ends gives nothing back (`exported.ts:113-116`), although the
  registry may outlive it: `RetainsExact` and `SnapshotExact` count lost references for ever, `DroppedIsReclaimed` is about the
  others, and `CleanedAfterDisconnect` fails.
* Calls that start on both sides and call back can stop each other for ever, each side's calls holding the streams that the
  other's callbacks wait for, and so can one call whose callback calls back, on pools of one stream. `KnotsTakeTwoSides` says that it
  takes one of the two, and `KnotsLast` that nothing frees them.
* A callback reference is never released, and each property read on it adds an entry (`CallbackRefs`).
* Each hydration makes a new stub, so one callback has several identities at the exporter. An object result of a callback reaches the
  exporter as an id string, which nothing releases.
* The arguments of a callback's call that is refused, misses or is answered without running stay registered: they are
  among the calls that `ArgumentsExact` counts for ever.
* Functions made by `bind` lose the properties of the original (`Property` in `Evaluation`), so `proxy.Class.staticMethod()` finds none.
* `hashString` or-s the character in where its comment says xor, drops the offset basis, which stands in the high half that is
  masked away, and rounds products beyond 2^53: more machine names share a machine id.
* The counter mask is all ones when the counter has 32 bits or more (`muid.ts:400`), against the comment above it; the default widths
  never reach that.

Two limits of the code stand in the statements instead of in a run. A result that the exporter
cannot encode leaves its caller waiting (`LosesReply` in `CallsSettle`). Ids are unique only while the clock
reads at or past muid's epoch (`ClockFits`): before it, the subtraction wraps to the top of the word, the
protection against a backward clock compares with the low bits it has kept, and a millisecond's ids repeat after a
round of the shards.

## Proofs

All are checked by `tlapm` from the modules' named assumptions on constants
(`MaxIds` a natural number, sizes integers, callers and calls finite, `None` and `Root` distinct
from what they stand beside).

* `ObjectRegistryProofs`. `TablesAgree` is inductive as a whole and no part is alone: that a
  new id is unused needs `IdsDrawn`, that `delete` leaves no entry behind needs the tables to be
  inverse. `Consistent` is that invariant, `NeverRebound` the action property, `ImplementsLedger` the
  refinement: every step adds or takes one retain of one object, or is a delete of an unknown id,
  which stutters. The lemmas `RegisterEffect` and `DeleteEffect` say what one call does to tables and
  retains and are used again for `RefProtocol`. The modules that extend `ObjectRegistry` change its tables in steps
  of their own; `RegistryKept` (in `RefProtocolProofs` and `EvaluationProofs`) and `LedgersKept` (in `CallbackRefsProofs`)
  show that each such step is one step of the registry, with a drawn id if it is a delete, so that `KeepsLedger` and
  `IdsNeverRebound` hold of the composed systems too.
* `StreamPoolProofs`. `PoolSound` adds to the checked invariants that the running caller is
  exactly the one in acquire's loop. Exactness of `openCount` is an equation between a counter, the
  length of a stack and the cardinality of a set of callers; each action is shown to move the
  two sides alike. `ImplementsSemaphore` assumes `Failures = {}`: with failing opens the pool does
  queue below capacity (a failed open frees its slot without looking at the queue), which is
  why `WaitersOnlyAtCapacity` is not a property of `pool_failures`. `NoStandstill` (`SomeCallerMoves`) is the safety core of
  `AcquireSettles`: while some acquire is outstanding, some caller can move. A waiting call means that all slots are taken
  and no stream is idle; a slot is that of a caller in use, which can release, or of one whose stream is being opened, which
  has none yet. No opened stream is lost (`StreamsAccounted`, a part of `PoolSound`), so fewer than `max` are taken then, and
  a free name is left for it. It assumes `Failures = {}`, and `StreamsSuffice`: at least `max` names of streams.
* `RefProtocolProofs`. `RefsSound` ties the registry to the phases of calls: for each id the
  count is the number of calls that hold it. A release takes one retain and its call leaves
  the holders in the same step, so the last holder frees the entry and no other does.
  `MissesAreLate` follows: a look-up misses only with no holder left. `SnapshotCounts`: the table's entries are the ids
  of references in hand and of lost ones, and the sum `snapshot` takes over them is the number of the ones plus the number of the others, because each
  has one id: summing up to the next id adds the holders of that id, which hold none before it (`RetainsUpTo`), and
  no reference is both. `NothingInHandOnlyLossesKept` is the safety
  core of `DroppedIsReclaimed`: in the very state in which the last reference in hand is given back, the registry's entries are those of
  lost ones, and there are none if none was lost.
* `NestedCallsProofs`. `CallsSound` is inductive as it stands: a call that others wait for stays
  executing (`NestsProperly`), so that the call named as parent is never recycled under them. Each step is
  first shown to be one step of one pool (`PoolStep`, `CountsKept`) that leaves the other alone.
  `NoStandstill` (`SomeCallMoves`) says that knots are the only standstill: when no call can move, all that are outstanding are
  executing or queued, and a queued one waits for a pool whose streams they hold, so together they are a knot. It has no
  condition on who starts calls. `TwoSidesToAKnot`: when one side starts and calls are at most two
  deep, the calls of one pool are the outer ones and those of the other are made in them. A knot has an executing call, which is an outer
  one and waits for an inner one; that is queued, so the holders of its pool are inner calls of the knot, which would have to wait
  for calls three deep. `KnotsStay`: no step of a call in a
  knot is possible, and a step of another gives back no stream that the knot waits for.
* `EvaluationProofs`. `EvaluationSound` is the inductive invariant. Its core is `StackHoldsLast`: a request's stack is
  the result of its last operation, or the object its reference named, or empty; with that each operation's target is
  the previous result unless that is undefined, which is `ChainsFollowed`. `CacheInverse` (the cache and what `bind` made are inverse to each other) gives that two
  proxies for one method have one handle, and the registry gives it one id (`Deduplicated`); `OperationsSound` carries the facts about
  operations already done, which later steps leave alone because handles are never unbound. `OneRetainEach` counts the
  holders of each id as `RefsSound` does for `RefProtocol`. `Current` is an action property from the same invariant.
* `CallbackRefsProofs`. `CallbacksSound` is proved in three parts, as they hardly share a variable: the importer's registry (`SourcesSound`), the calls
  (`CallsSound`) and the exporter's registry (`ArgsSound`). The importer's count of an id is the number of sources that registered it less
  the stubs whose release was handled, floored at zero, since a cursor awaited twice may be released twice on one retain. `IdsMean`
  says that an id means the object it was drawn for; a call finds its callback through it. `MissesAreLate` is then an inequality of two
  cardinalities. The exporter's count of an id is the number of calls sent with it that have not given it back, and
  `ArgumentsStay` adds that the id still names their argument: a release takes the retain of its own call, so the entry goes with the
  last. The lemmas on registering and releasing come from `ObjectRegistryProofs`, for the exporter's registry through an instance of that module
  (`ArgRegistry`), whose definitions `SameTables` and `SameRegistry` show to be those of `Exporter`. `LedgersKept` is about
  both registries.
* `MuidProofs`. `MuidSound` says that a shard's state is at or past every id it has drawn and that its
  ids increase; both need that the shard's time never leaves the timestamp field, where it would be cut
  off. That is `TimeFits`, which needs `ClockFits`: readings at or past the epoch, and so far from
  the end of the field that one carry per draw does not reach it (in `muid_unique`, 10 + 10 < 32; in the
  code, 41 bits of milliseconds). `NeverTwice` follows: ids of one shard increase, those of two
  differ in the shard field.
* `MuidProofs`, the strings. `ToBase32Injective`: a value of a half at most is written as its base-32 numeral, from which it can be
  read back. A larger one is written by a loop whose rounds can each be undone from what the round leaves and the digit it
  emits or not, so no two large values have one string; and every string has as many bits as its value (those of its
  first digit and five for each other), so the strings of the two branches do not meet. `HalfWord` has to be a power of two
  (`HalfWordAssumption`). `StringsName` adds that a drawn id fits the word.
* `MuidProofs`, the words. `WordsSound` adds to `WordsAgree` that the words have two halves of their widths. Bitwise or of two
  numbers without a common one is their sum (`BitOrAdds`), and with a mask it is a rest (`BitAndMask`); from these, each operation on
  halves has its meaning on whole words: `add64`, `sub64` and `cmp64` that of numbers below the word, `shl64` and `shr64` a
  product and a quotient across the border. A draw is then followed once through words and once through fields. `ClockFits` is not needed: a time before the epoch
  wraps alike in both. The spelling in two parts is the numeral of the value, as the lower part is padded to the digits of
  a half (`SpellingsAreNumerals`). Assumed are the sums of widths that the code computes, a high half no wider than
  the low one (`shl64` would lose bits; both are 32), and `ShortFieldsAssumption`: a counter shorter than a half, since otherwise its
  mask is all ones. The defaults leave it 9 bits less those of the shard.
* `FramingProofs`. `StreamsSound` is the inductive invariant: for each stream it says what is in the two queues, the two
  buffers and the handler, in terms of the one call whose request or reply it is. A buffer and the queue behind
  it are together one message, so a buffer that decodes leaves nothing behind (`WholeFacts`), and the stream is
  clean when it goes back to the pool. A failed call's request may still be gathered and executed, but only on an
  ended stream, which the pool never gives out. `LocalStep` carries the parts of the invariant that are about other
  streams and calls past any step; each action then has to show its own stream and call. `Answered` and the
  refinement `Refines` follow from what one received chunk can be (`RequestTaken`, `ReplyTaken`). `BuffersIncomplete` adds that
  a handler's buffer never holds a complete request (it is decoded in the step that completes it). So a call that
  waits while its stream is up has something of its own in a queue or with the handler, which can be taken, unless its reply
  could not be encoded (`LosesReply`): `NobodyWaitsForNothing` (`CallsCanSettle`), the safety core of `CallsSettle`.

Induction over data is by well-founded induction on the naturals, the statement being a set of numbers
(`WFMin` and `NatLessThanWellFounded`, which have no operator as a parameter). A recursive function is shown to exist in the same way, and
then satisfies its equation.

Only model-checked: the liveness properties `CallsSettle`, `AwaitsSettle`, `CallsEnd`, `AcquireSettles` and `DroppedIsReclaimed`
(the prover has neither fairness nor `ENABLED`), and the four violations. What of them is safety is proved: that some
caller, call or message can always move (`NoStandstill` twice, for nested calls outside knots, and `NobodyWaitsForNothing`), that only what was lost is kept when nothing
is in hand (`NothingInHandOnlyLossesKept`), and that an evaluator with nothing left to execute has a result to reply with (`StackHoldsLast`). That each one moves at last is for fairness, and for TLC.

## Not modelled

* Yamux and MessagePack are external: streams and sessions open, close and fail as the code
  expects. Yamux's flow control and keep-alive are not looked at.
* `src/types.ts`, `src/instructions.ts`, `src/logger.ts`, `src/symbol.ts`, `src/index.ts`,
  `src/proxyable.ts`: no behaviour of their own beyond calling the above.
* In `src/muid.ts`: ids of other processes and hosts (the machine id is that of one name), the random machine id of a platform that
  has no name, `newGenerator`, which the library does not use, and random bytes.
* Combinations: `Evaluation` has no arguments and `CallbackRefs` one operation per cursor; in `RefProtocol` an operation may return anything.
  An imported proxy passed back as an argument is registered by the importer like any object (a stub of a proxy, kept for ever);
  it is one of `Things` in `CallbackRefs` and is not followed to the first side.
* README.md of the library says that `set` is intercepted; there is no set trap in the code, so there is none here.
* Requests or replies that are complete and do not decode; the release requests on streams of their own (their handling
  is in `RefProtocol`, their framing is that of any request).
* Calls that fail or lose their stream while others are nested in them; pools used up by calls whose reply could not be encoded.
* `parity/`, `bench/`, `tests/`: programs that use the library; read for what they say of it.

----------------------------- MODULE RefProtocol ----------------------------
(***************************************************************************)
(* Distributed garbage collection: how the objects one side exports are    *)
(* retained for the proxies the other side holds.                          *)
(*                                                                         *)
(* A call on the exported root, or on a proxy, is first a cursor that only *)
(* keeps the id of the proxy it came from (imported.ts:174-245); awaiting  *)
(* it sends an execute request; the exporter looks the id up, runs the     *)
(* operation and registers an object it returns (exported.ts:279-319); the *)
(* importer makes a proxy for the returned id and enters it in its         *)
(* FinalizationRegistry (imported.ts:90-111), whose callback sends one     *)
(* release on a stream of its own (imported.ts:305-316).  Requests and     *)
(* releases use different streams, so they arrive in any order.            *)
(*                                                                         *)
(* The registry and its operations are those of ObjectRegistry.  Several   *)
(* connections share one, as the `registry` parameter of                   *)
(* createExportedProxyable allows.                                         *)
(***************************************************************************)
EXTENDS ObjectRegistry

CONSTANTS
    Calls,        \* bound: one name for each call that is made
    Connections,  \* importing connections
    Root,         \* the target of calls on the exported object itself
    None,         \* no id, no object
    MayClose      \* do connections close?

ASSUME RootAssumption == Root \notin Calls
ASSUME NoneAssumption == None \notin Nat /\ None \notin Objects
ASSUME CloseAssumption == MayClose \in BOOLEAN
ASSUME CallsAssumption == IsFiniteSet(Calls)

VARIABLES
    phase,   \* how far each call, and the proxy it returned, has come
    target,  \* what it is called on: Root, or the call that returned the proxy
    conn,    \* the connection it is made on
    ref,     \* the id in its reply, or None
    object,  \* the object it returned, or None
    open     \* is the connection up?

callVars == <<phase, target, conn, ref, object>>
vars == <<regVars, callVars, open>>

(* cursor     a cursor that has not been awaited                           *)
(* sent       the execute request is on its way                            *)
(* executing  the exporter has its target and runs the operation           *)
(* answered   the reply with a reference is on its way                     *)
(* live       the program holds the proxy                                  *)
(* dropped    the program has let go of the proxy                          *)
(* releasing  the finalizer has run and its release is on its way          *)
(* released   the exporter has handled the release                         *)
(* lost       its reply was lost, or its release: the finalizer could not  *)
(*            send it, or the stream broke                                 *)
(* pinned     registered by the exporter's own get trap, for nobody        *)
(* value, missing, failed   the call ended without a proxy                 *)
InHand == {"answered", "live", "dropped", "releasing"}
LostForGood == {"lost", "pinned"}
Holding == InHand \cup LostForGood
Phases == Holding \cup
    {"unused", "cursor", "sent", "executing", "released", "value", "missing", "failed"}

-----------------------------------------------------------------------------

Init ==
    /\ RegistryInit
    /\ phase = [c \in Calls |-> "unused"]
    /\ target = [c \in Calls |-> Root]
    /\ conn \in [Calls -> Connections]
    /\ ref = [c \in Calls |-> None]
    /\ object = [c \in Calls |-> None]
    /\ open = [i \in Connections |-> TRUE]

Advance(c, from, to) ==
    /\ phase[c] = from
    /\ phase' = [phase EXCEPT ![c] = to]

Up(c) == open[conn[c]]

(* The importing program calls a method of the root, or of a proxy it      *)
(* holds on this connection: the get and apply traps, which send nothing.  *)
MakeCursor(c, t) ==
    /\ Advance(c, "unused", "cursor")
    /\ t # Root => phase[t] = "live" /\ conn[t] = conn[c]
    /\ target' = [target EXCEPT ![c] = t]
    /\ UNCHANGED <<regVars, conn, ref, object, open>>

(* It awaits the cursor: the then trap, executeInstructions. *)
Send(c) ==
    /\ Advance(c, "cursor", "sent")
    /\ Up(c)
    /\ UNCHANGED <<regVars, target, conn, ref, object, open>>

(* No stream can be had, or it breaks before the request is handled, with  *)
(* the connection or alone.                                                *)
Fail(c) ==
    /\ Advance(c, "cursor", "failed") \/ Advance(c, "sent", "failed")
    /\ UNCHANGED <<regVars, target, conn, ref, object, open>>

HasTarget(c) == target[c] # Root => IsRegistered(ref[target[c]])

(* The exporter handles the request up to its first await: the target is   *)
(* looked up and from then on held by the handler's stack.                 *)
FindTarget(c) ==
    /\ Advance(c, "sent", "executing")
    /\ Up(c)
    /\ HasTarget(c)
    /\ UNCHANGED <<regVars, target, conn, ref, object, open>>

(* The id is not registered: "missing reference". *)
MissTarget(c) ==
    /\ Advance(c, "sent", "missing")
    /\ Up(c)
    /\ ~HasTarget(c)
    /\ UNCHANGED <<regVars, target, conn, ref, object, open>>

(* Mutant: the reply names the object's id without retaining it. *)
ReturnObjectUnretained(c, o) ==
    /\ Advance(c, "executing", "answered")
    /\ o \in DOMAIN weakMap
    /\ ref' = [ref EXCEPT ![c] = RegisteredId(o)]
    /\ object' = [object EXCEPT ![c] = o]
    /\ UNCHANGED <<regVars, target, conn, open>>

(* The operation returns an object or a function: createValue registers it *)
(* and the reply carries its id.  The handler runs on when the connection  *)
(* is gone by now.                                                         *)
ReturnObject(c, o) ==
    /\ Advance(c, "executing", "answered")
    /\ Register(o)
    /\ ref' = [ref EXCEPT ![c] = RegisteredId(o)]
    /\ object' = [object EXCEPT ![c] = o]
    /\ UNCHANGED <<target, conn, open>>

(* It returns a primitive, or throws. *)
ReturnValue(c) ==
    /\ Advance(c, "executing", "value")
    /\ UNCHANGED <<regVars, target, conn, ref, object, open>>

(* unwrapResult: a proxy for the id, with a finalizer. *)
ReceiveReference(c) ==
    /\ Advance(c, "answered", "live")
    /\ Up(c)
    /\ UNCHANGED <<regVars, target, conn, ref, object, open>>

(* The stream breaks before the reply is read: the importer's call throws, *)
(* what the exporter registered stays registered.                          *)
LoseReply(c) ==
    /\ Advance(c, "answered", "lost")
    /\ UNCHANGED <<regVars, target, conn, ref, object, open>>

(* The program drops its last use of the proxy.  Cursors it derived from   *)
(* the proxy keep the id, not the proxy.                                   *)
DropProxy(c) ==
    /\ Advance(c, "live", "dropped")
    /\ UNCHANGED <<regVars, target, conn, ref, object, open>>

(* The finalizer runs: it sends a release, or swallows the error of        *)
(* opening or writing to its stream, whether or not the connection is up.  *)
Finalize(c) ==
    /\ \/ Up(c) /\ Advance(c, "dropped", "releasing")
       \/ Advance(c, "dropped", "lost")
    /\ UNCHANGED <<regVars, target, conn, ref, object, open>>

(* The release's stream breaks before the exporter has read it. *)
LoseRelease(c) ==
    /\ Advance(c, "releasing", "lost")
    /\ UNCHANGED <<regVars, target, conn, ref, object, open>>

(* Mutant: the release is answered and the registry left as it is. *)
HandleReleaseIdly(c) ==
    /\ Advance(c, "releasing", "released")
    /\ Up(c)
    /\ UNCHANGED <<regVars, target, conn, ref, object, open>>

HandleRelease(c) ==
    /\ Advance(c, "releasing", "released")
    /\ Up(c)
    /\ Delete(ref[c])
    /\ UNCHANGED <<target, conn, ref, object, open>>

(* The exporting program reads a property of its own exported proxy: the   *)
(* get trap registers the value, and no peer ever learns the id.           *)
LocalGet(c, o) ==
    /\ Advance(c, "unused", "pinned")
    /\ Register(o)
    /\ ref' = [ref EXCEPT ![c] = RegisteredId(o)]
    /\ object' = [object EXCEPT ![c] = o]
    /\ UNCHANGED <<target, conn, open>>

(* The session ends.  Nothing in either side's code runs on that account.  *)
Close(i) ==
    /\ MayClose
    /\ open[i]
    /\ open' = [open EXCEPT ![i] = FALSE]
    /\ UNCHANGED <<regVars, callVars>>

Next ==
    \/ \E c \in Calls :
         \/ \E t \in Calls \cup {Root} : MakeCursor(c, t)
         \/ Send(c) \/ Fail(c)
         \/ FindTarget(c) \/ MissTarget(c)
         \/ \E o \in Objects : ReturnObject(c, o) \/ LocalGet(c, o)
         \/ ReturnValue(c)
         \/ ReceiveReference(c) \/ LoseReply(c)
         \/ DropProxy(c) \/ Finalize(c)
         \/ HandleRelease(c) \/ LoseRelease(c)
    \/ \E i \in Connections : Close(i)

Spec == Init /\ [][Next]_vars

(* On a connection that stays up a request, reply or release arrives and   *)
(* is handled unless it is lost, operations end, and the engine runs the   *)
(* finalizer of a dropped proxy, as the library's collection relies on.    *)
Fairness ==
    \A c \in Calls :
        /\ WF_vars(FindTarget(c) \/ MissTarget(c))
        /\ WF_vars(ReturnValue(c) \/ \E o \in Objects : ReturnObject(c, o))
        /\ WF_vars(ReceiveReference(c) \/ LoseReply(c))
        /\ WF_vars(Finalize(c))
        /\ WF_vars(HandleRelease(c) \/ LoseRelease(c))

FairSpec == Spec /\ Fairness

-----------------------------------------------------------------------------

TypeOK ==
    /\ RegistryTypeOK
    /\ phase \in [Calls -> Phases]
    /\ target \in [Calls -> Calls \cup {Root}]
    /\ conn \in [Calls -> Connections]
    /\ ref \in [Calls -> Ids \cup {None}]
    /\ object \in [Calls -> Objects \cup {None}]
    /\ open \in [Connections -> BOOLEAN]

Holders(id) == {c \in Calls : ref[c] = id /\ phase[c] \in Holding}

(* The registry's counts are exactly the references outstanding: one for   *)
(* each reply under way, proxy and release under way, over all connections *)
(* that share the registry, and one for each that was lost, which nobody   *)
(* will give back.  No order of replies, finalizers, releases and losses   *)
(* takes a retain that is not the releasing proxy's own.                   *)
RetainsExact == \A id \in Ids : CountOf(id) = Cardinality(Holders(id))

(* A reference on its way or in use names a registered object, and the     *)
(* right one: registering, releasing and registering again on behalf of    *)
(* others never leaves it dangling.                                        *)
ProxyReachesItsObject ==
    \A c \in Calls : phase[c] \in Holding =>
        IsRegistered(ref[c]) /\ Lookup(ref[c]) = object[c]

(* Even an id whose reference has been released never names another        *)
(* object: a late cursor misses, it does not reach a stranger.             *)
StaleIdNeverMisleads ==
    \A c \in Calls :
        ref[c] # None /\ IsRegistered(ref[c]) => Lookup(ref[c]) = object[c]

(* References come from replies: a call without one has no id, an id was   *)
(* drawn before it is used, and a cursor was made on a proxy received.     *)
RefsFromReplies ==
    /\ \A c \in Calls : ref[c] # None => ref[c] <= lastId
    /\ \A c \in Calls : (ref[c] # None) <=> (phase[c] \in Holding \cup {"released"})
    /\ \A c \in Calls : target[c] # Root =>
         phase[target[c]] \in {"live", "dropped", "releasing", "lost", "released"}

(* The inductive invariant. *)
RefsSound ==
    /\ TypeOK
    /\ TablesAgree
    /\ RetainsExact
    /\ ProxyReachesItsObject
    /\ StaleIdNeverMisleads
    /\ RefsFromReplies

(* "missing reference" is answered only when the exporter has handled the  *)
(* release of every proxy for that id, the one the call was made on too.   *)
MissedOnlyWhenReleased ==
    [][\A c \in Calls : phase[c] = "sent" /\ phase'[c] = "missing" =>
         phase[target[c]] = "released" /\ Holders(ref[target[c]]) = {}]_vars

(* What snapshot() reports: an entry for each id that is held, and as many *)
(* retains as there are references in hand and references lost.  A loss is *)
(* never made good, so retains that stay when nothing is in hand count the *)
(* losses since the start.                                                 *)
References(phases) == {c \in Calls : phase[c] \in phases}
SnapshotExact ==
    /\ TotalRetains = Cardinality(References(InHand)) + Cardinality(References(LostForGood))
    /\ TotalEntries = Cardinality({ref[c] : c \in References(Holding)})

(* Once the program uses no proxy any more and starts no call, the entries *)
(* of the registry become and stay those of the references that were lost: *)
(* whatever else has been exported is freed, connections may close or not. *)
InUse(c) == phase[c] \in {"cursor", "live"}
DroppedIsReclaimed ==
    <>[](\A c \in Calls : ~InUse(c)) =>
        <>[](DOMAIN map = {ref[c] : c \in References(LostForGood)})

(* After the last connection has gone, nothing of its references is left:  *)
(* "final: 0, cleaned: true" (parity/agent.js:346-347).  Only what the     *)
(* exporting program itself has pinned may stay.                           *)
CleanedAfterDisconnect ==
    (\A i \in Connections : ~open[i]) ~> (TotalRetains = Cardinality(References({"pinned"})))
=============================================================================

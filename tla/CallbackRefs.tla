---------------------------- MODULE CallbackRefs ----------------------------
(***************************************************************************)
(* Functions and objects that are arguments: the references that go the    *)
(* other way.                                                              *)
(*                                                                         *)
(* An argument that is not primitive is registered by the importer when    *)
(* the apply or construct trap runs (imported.ts:228-243), and its id      *)
(* travels in the cursor's instructions.  Each time the cursor is awaited  *)
(* the exporter makes a stub for the id (exported.ts:246-270), which the   *)
(* program there calls whenever it likes.  Such a call registers its own   *)
(* arguments at the exporter before it has a stream; the importer looks    *)
(* the id up, runs the callback (imported.ts:335-419) and, only then,      *)
(* makes proxies for the arguments, whose finalizers release them.         *)
(*                                                                         *)
(* The registry this module extends is the importer's, for callbacks; the  *)
(* exporter's, for the arguments of their calls, is the instance Exporter. *)
(* A stub has no finalizer in this code, but the importer handles the      *)
(* release of a peer that has one (imported.ts:337-341): PeerReleases.     *)
(* Streams and their closing are left to NestedCalls and StreamPool.       *)
(***************************************************************************)
EXTENDS ObjectRegistry

CONSTANTS
    Functions,    \* functions of the importing program
    Things,       \* its other objects
    Handles,      \* bound: names for the functions that bind() makes
    Plain,        \* any primitive value
    Property,     \* the property of each object that methods are read from
    Results,      \* what each function may return
    Arguments,    \* the exporter's objects that callbacks are given
    Cursors,      \* bound: one name for each trap with an argument
    Stubs,        \* bound: one name for each time such a cursor is executed
    Calls,        \* bound: one name for each call of a stub
    PeerReleases, \* does the exporter release stubs it has dropped?
    None          \* nothing

Callbacks == Functions \cup Things

ASSUME ObjectsAssumption ==
    /\ Objects = Callbacks \cup Handles
    /\ Functions \cap Things = {} /\ Callbacks \cap Handles = {} /\ Plain \notin Objects
ASSUME ProgramAssumption ==
    /\ Property \in [Callbacks -> Callbacks \cup {Plain}]
    /\ Results \in [Functions -> SUBSET (Callbacks \cup {Plain})]
ASSUME NamesAssumption ==
    /\ IsFiniteSet(Cursors) /\ IsFiniteSet(Stubs) /\ IsFiniteSet(Calls)
    /\ None \notin Nat \cup Objects \cup Arguments \cup Cursors \cup Stubs
    /\ None \notin [fn : Functions, self : Callbacks \cup {None}]
ASSUME PeerAssumption == PeerReleases \in BOOLEAN

(* What takes a retain at the importer: the argument of a cursor, the      *)
(* property a method call reads, the result of a callback.                 *)
Sources == [of : {"argument"}, by : Cursors] \cup [of : {"property", "result"}, by : Calls]
Source(what, x) == [of |-> what, by |-> x]

VARIABLES
    given,      \* history: what each source registered, or None
    id,         \* the id it got, or None
    stub,       \* the cursor each stub was made for, or None
    freed,      \* the stubs whose release the importer has handled
    phase,      \* how far each call has come
    op,         \* stub() is "apply", stub.m() is "get"
    onStub,     \* the stub it is made on, or None
    arg,        \* the exporter's object it is given, or None
    ran,        \* history: the function it ran, and on what; or None
    argId,      \* the id its argument got at the exporter, or None
    returned,   \* the calls whose argument has been released
    argMap, argCounts, argWeakMap, argLastId   \* the exporter's registry

sourceVars == <<given, id>>
stubVars == <<stub, freed>>
callVars == <<phase, op, onStub, arg, ran>>
exporterVars == <<argMap, argCounts, argWeakMap, argLastId>>
argVars == <<argId, returned, exporterVars>>
vars == <<regVars, sourceVars, stubVars, callVars, argVars>>

Exporter == INSTANCE ObjectRegistry WITH
    Objects <- Arguments,
    map <- argMap, counts <- argCounts, weakMap <- argWeakMap, lastId <- argLastId

Phases == {"unused", "sent", "running", "answered", "failed", "missed"}
Ended == {"answered", "failed", "missed"}

-----------------------------------------------------------------------------

Init ==
    /\ RegistryInit
    /\ given = [x \in Sources |-> None]
    /\ id = [x \in Sources |-> None]
    /\ stub = [s \in Stubs |-> None]
    /\ freed = {}
    /\ phase = [k \in Calls |-> "unused"]
    /\ op = [k \in Calls |-> "apply"]
    /\ onStub = [k \in Calls |-> None]
    /\ arg = [k \in Calls |-> None]
    /\ ran = [k \in Calls |-> None]
    /\ argId = [k \in Calls |-> None]
    /\ returned = {}
    /\ Exporter!RegistryInit

(* createValue of an object or function at the importer. *)
CreateValue(x, o) ==
    /\ Register(o)
    /\ given' = [given EXCEPT ![x] = o]
    /\ id' = [id EXCEPT ![x] = RegisteredId(o)]

NoValue == UNCHANGED <<regVars, sourceVars>>

Advance(k, from, to) ==
    /\ phase[k] = from
    /\ phase' = [phase EXCEPT ![k] = to]

(* The apply and construct traps, with o among the arguments.  The retain  *)
(* is taken now, whether or not the cursor will be awaited.                *)
Trap(c, o) ==
    /\ id[Source("argument", c)] = None
    /\ CreateValue(Source("argument", c), o)
    /\ UNCHANGED <<stubVars, callVars, argVars>>

(* The exporter executes the cursor's apply or construct: the reference    *)
(* becomes a new stub.  A cursor that is awaited again is executed again.  *)
Hydrate(s, c) ==
    /\ stub[s] = None
    /\ id[Source("argument", c)] # None
    /\ stub' = [stub EXCEPT ![s] = c]
    /\ UNCHANGED <<regVars, sourceVars, freed, callVars, argVars>>

(* The release of a dropped stub arrives. *)
PeerRelease(s) ==
    /\ PeerReleases
    /\ stub[s] # None /\ s \notin freed
    /\ freed' = freed \cup {s}
    /\ Delete(id[Source("argument", stub[s])])
    /\ UNCHANGED <<sourceVars, stub, callVars, argVars>>

(* The exporting program calls a stub, or a method of it, with an object:  *)
(* the argument is registered before a stream is acquired.                 *)
CallStub(k, s, o, a) ==
    /\ stub[s] # None /\ s \notin freed
    /\ Advance(k, "unused", "sent")
    /\ op' = [op EXCEPT ![k] = o]
    /\ onStub' = [onStub EXCEPT ![k] = s]
    /\ arg' = [arg EXCEPT ![k] = a]
    /\ Exporter!Register(a)
    /\ argId' = [argId EXCEPT ![k] = Exporter!RegisteredId(a)]
    /\ UNCHANGED <<regVars, sourceVars, stubVars, ran, returned>>

(* No stream can be had, or it breaks before the importer has the request. *)
Refuse(k) ==
    /\ Advance(k, "sent", "failed")
    /\ NoValue /\ UNCHANGED <<stubVars, op, onStub, arg, ran, argVars>>

-----------------------------------------------------------------------------
(* The importer's evaluator, up to the callback without an await.          *)

IdOf(k) == id[Source("argument", stub[onStub[k]])]

(* The reference is an instruction the evaluator resolves in the registry. *)
Found(k, o, target) ==
    /\ phase[k] = "sent" /\ op[k] = o
    /\ IsRegistered(IdOf(k)) /\ target = Lookup(IdOf(k))

Run(k, fn, self) ==
    /\ Advance(k, "sent", "running")
    /\ ran' = [ran EXCEPT ![k] = [fn |-> fn, self |-> self]]
    /\ UNCHANGED <<stubVars, op, onStub, arg, argVars>>

End(k, to) ==
    /\ Advance(k, "sent", to)
    /\ UNCHANGED <<stubVars, op, onStub, arg, ran, argVars>>

(* "No target for operation" *)
Miss(k) ==
    /\ End(k, "missed")
    /\ ~IsRegistered(IdOf(k))
    /\ NoValue

RunTarget(k) == \E target \in Functions :
    /\ Found(k, "apply", target)
    /\ Run(k, target, None)
    /\ NoValue

(* A target that is not a function is taken off the stack and left: the    *)
(* reply is undefined.                                                     *)
PassOver(k) == \E target \in Things :
    /\ Found(k, "apply", target)
    /\ End(k, "answered")
    /\ NoValue

(* Mutant: the method is looked up again by name and called as it is. *)
RunMethodUnbound(k) == \E target \in Callbacks, h \in Handles :
    /\ Found(k, "get", target)
    /\ Property[target] \in Functions
    /\ \A x \in Sources : given[x] # h
    /\ CreateValue(Source("property", k), h)
    /\ Run(k, Property[target], None)

(* bind() makes a new function, which is registered like any other value   *)
(* that goes on the stack.                                                 *)
RunMethod(k) == \E target \in Callbacks, h \in Handles :
    /\ Found(k, "get", target)
    /\ Property[target] \in Functions
    /\ \A x \in Sources : given[x] # h
    /\ CreateValue(Source("property", k), h)
    /\ Run(k, Property[target], target)

PassOverProperty(k) == \E target \in Callbacks :
    /\ Found(k, "get", target)
    /\ Property[target] \in Things
    /\ CreateValue(Source("property", k), Property[target])
    /\ End(k, "answered")

(* Mutant: what `head.kind` of an undefined property throws is not caught. *)
NoMethodUncaught(k) == \E target \in Callbacks :
    /\ Found(k, "get", target)
    /\ Property[target] = Plain
    /\ UNCHANGED vars

NoMethod(k) == \E target \in Callbacks :
    /\ Found(k, "get", target)
    /\ Property[target] = Plain
    /\ End(k, "failed")
    /\ NoValue

(* The callback returns v.  The id of an object or function reaches the    *)
(* exporter as a string, which nothing releases.                           *)
Return(k, v) ==
    /\ Advance(k, "running", "answered")
    /\ v \in Results[ran[k].fn]
    /\ IF v = Plain THEN NoValue ELSE CreateValue(Source("result", k), v)
    /\ UNCHANGED <<stubVars, op, onStub, arg, ran, argVars>>

Throw(k) ==
    /\ Advance(k, "running", "failed")
    /\ NoValue /\ UNCHANGED <<stubVars, op, onStub, arg, ran, argVars>>

(* Mutant: a proxy is registered for finalization each time it is used. *)
FinalizeAgain(k) ==
    /\ ran[k] # None
    /\ returned' = returned \cup {k}
    /\ Exporter!Delete(argId[k])
    /\ UNCHANGED <<regVars, sourceVars, stubVars, callVars, argId>>

(* The proxy for the argument was made, from its id, for the callback's    *)
(* run; it has been dropped and the release of its finalizer arrives.      *)
Finalize(k) ==
    /\ ran[k] # None /\ k \notin returned
    /\ returned' = returned \cup {k}
    /\ Exporter!Delete(argId[k])
    /\ UNCHANGED <<regVars, sourceVars, stubVars, callVars, argId>>

Handle(k) ==
    \/ Miss(k)
    \/ RunTarget(k) \/ PassOver(k)
    \/ RunMethod(k) \/ PassOverProperty(k) \/ NoMethod(k)
    \/ \E v \in Callbacks \cup {Plain} : Return(k, v)
    \/ Throw(k)

Next ==
    \/ \E c \in Cursors, o \in Callbacks : Trap(c, o)
    \/ \E s \in Stubs :
         \/ \E c \in Cursors : Hydrate(s, c)
         \/ PeerRelease(s)
    \/ \E k \in Calls :
         \/ \E s \in Stubs, o \in {"apply", "get"}, a \in Arguments :
              CallStub(k, s, o, a)
         \/ Refuse(k) \/ Handle(k) \/ Finalize(k)

Spec == Init /\ [][Next]_vars

(* Requests reach the importer, and its functions end. *)
Fairness == \A k \in Calls : WF_vars(Handle(k))

FairSpec == Spec /\ Fairness

-----------------------------------------------------------------------------

TypeOK ==
    /\ RegistryTypeOK
    /\ given \in [Sources -> Objects \cup {None}]
    /\ id \in [Sources -> Ids \cup {None}]
    /\ stub \in [Stubs -> Cursors \cup {None}]
    /\ freed \subseteq Stubs
    /\ phase \in [Calls -> Phases]
    /\ op \in [Calls -> {"apply", "get"}]
    /\ onStub \in [Calls -> Stubs \cup {None}]
    /\ arg \in [Calls -> Arguments \cup {None}]
    /\ ran \in [Calls -> [fn : Functions, self : Callbacks \cup {None}] \cup {None}]
    /\ argId \in [Calls -> Ids \cup {None}]
    /\ returned \subseteq Calls

(* The retains taken for an id, and the releases of stubs for it.          *)
Retainers(i) == {x \in Sources : id[x] = i}
Releases(i) == {s \in freed : id[Source("argument", stub[s])] = i}

(* Every retain has a source: the importer's count is the number of traps, *)
(* properties read and results, less the stubs released; an entry that no  *)
(* stub's release accounts for stays, the cursor awaited or not.           *)
RetainsExact ==
    \A i \in Ids : CountOf(i) =
        IF Cardinality(Retainers(i)) > Cardinality(Releases(i))
        THEN Cardinality(Retainers(i)) - Cardinality(Releases(i)) ELSE 0

(* An id means the object that was registered under it, for good. *)
IdsMean ==
    \A x \in Sources :
        /\ id[x] # None => id[x] <= lastId /\ given[x] \in Objects
        /\ id[x] # None /\ IsRegistered(id[x]) => Lookup(id[x]) = given[x]
        /\ x.of = "argument" /\ id[x] # None => given[x] \in Callbacks

(* Stubs are made for arguments, calls are made on stubs. *)
Made ==
    /\ \A s \in Stubs : stub[s] # None => id[Source("argument", stub[s])] # None
    /\ \A s \in freed : stub[s] # None
    /\ \A k \in Calls : phase[k] # "unused" => onStub[k] # None /\ stub[onStub[k]] # None
    /\ \A k \in Calls : phase[k] = "unused" <=> arg[k] = None
    /\ \A k \in Calls : argId[k] = None <=> arg[k] = None
    /\ \A k \in returned : ran[k] # None
    /\ \A k \in Calls : phase[k] \in {"unused", "sent"} =>
         /\ ran[k] = None
         /\ id[Source("property", k)] = None /\ id[Source("result", k)] = None
    /\ \A k \in Calls : phase[k] = "running" =>
         ran[k] # None /\ id[Source("result", k)] = None

(* What the call is for. *)
Handed(k) == given[Source("argument", stub[onStub[k]])]
Callee(k) == IF op[k] = "get" THEN Property[Handed(k)] ELSE Handed(k)
Self(k) == IF op[k] = "get" THEN Handed(k) ELSE None

(* A call of a stub runs the very function that was handed over, or the    *)
(* method of the object that was, on that object -- no matter what was     *)
(* registered and released since, and that stubs of one cursor share an    *)
(* id.  If it is answered it has run, unless there was nothing to run: an  *)
(* object that is not a function answers undefined (imported.ts:385-405).  *)
CallsReachTheirCallback ==
    \A k \in Calls :
        /\ ran[k] # None => ran[k] = [fn |-> Callee(k), self |-> Self(k)]
        /\ phase[k] = "answered" => (ran[k] # None <=> Callee(k) \in Functions)

(* A call misses its callback only when as many stubs have been released   *)
(* as retains were taken for its id.  A cursor that is awaited twice makes *)
(* two stubs on one retain, so that may be before its own stub is.         *)
MissedOnlyWhenReleased ==
    \A k \in Calls : phase[k] = "missed" =>
        Cardinality(Releases(IdOf(k))) >= Cardinality(Retainers(IdOf(k)))

(* The calls whose argument no proxy has given back. *)
Unreturned == {k \in Calls : arg[k] # None} \ returned

(* The id a call was sent with names that call's argument at the exporter  *)
(* until the proxy made for this very call is released: calls that share   *)
(* an argument share its id, and one that was freed between two of them    *)
(* comes under a new one.  And the exporter keeps a retain for every call  *)
(* whose proxy did not give it back and for no other: a call that is       *)
(* refused, misses or is answered without running makes no proxy, so its   *)
(* argument stays registered (exported.ts:258, 267).                       *)
ArgumentsExact ==
    /\ \A k \in Unreturned :
         Exporter!IsRegistered(argId[k]) /\ Exporter!Lookup(argId[k]) = arg[k]
    /\ \A i \in Ids :
         Exporter!CountOf(i) = Cardinality({k \in Unreturned : argId[k] = i})

(* The inductive invariant. *)
CallbacksSound ==
    /\ TypeOK
    /\ TablesAgree
    /\ RetainsExact
    /\ IdsMean
    /\ Made
    /\ CallsReachTheirCallback
    /\ \A k \in Calls : phase[k] = "missed" => ~IsRegistered(IdOf(k))
    /\ Exporter!TablesAgree
    /\ ArgumentsExact

(* Every call of a stub settles, as long as the callbacks do. *)
CallsSettle == \A k \in Calls : (phase[k] = "sent") ~> (phase[k] \in Ended)
=============================================================================

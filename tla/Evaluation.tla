----------------------------- MODULE Evaluation -----------------------------
(***************************************************************************)
(* What a chain of traps on an imported proxy comes to on the exporter.    *)
(*                                                                         *)
(* Each trap of the importer returns a new cursor with one instruction     *)
(* more (imported.ts:174-245); `await` sends the list, unless the cursor   *)
(* is the root or a lone reference.  The exporter runs the list on a stack *)
(* of its own for each request (exported.ts:279-319), with an await after  *)
(* each operation, so several requests and the exporting program itself    *)
(* interleave between the operations.  They share the program's objects,   *)
(* the cache of bound methods and the registry.                            *)
(*                                                                         *)
(* Arguments are left to CallbackRefs, the details of releases to          *)
(* RefProtocol.  Instructions of other kinds, which the loop skips, and    *)
(* targets in metadata (exported.ts:416-419) are never sent.               *)
(***************************************************************************)
EXTENDS ObjectRegistry, Sequences

CONSTANTS
    Requests,         \* bound: one name for each cursor that is awaited
    Things,           \* objects of the exporting program, other than functions
    Methods,          \* its functions
    Handles,          \* bound: names for the functions that bind() makes
    Primitives,       \* primitive values, other than null and undefined
    Undefined, Null,
    Keys,             \* names of properties
    Root,             \* the exported object
    Chains,           \* bound: the sequences of traps a program applies
    PrimitiveMethods, \* the functions primitives have as properties
    Results,          \* what a function of the program may return
    Initially,        \* bound: the properties the program starts with
    Assignments,      \* bound: <<object, key, value>> it may assign later
    None              \* no id, no request

Values == Objects \cup Primitives \cup {Undefined, Null}
Bindable == Things \cup Methods

(* The instructions of the get, apply and construct traps. *)
Operations ==
    [kind : {"get"}, key : Keys] \cup [kind : {"apply", "construct"}, key : {None}]
Reference(id) == [kind |-> "ref", key |-> id]

ASSUME ObjectsAssumption ==
    /\ Objects = Things \cup Methods \cup Handles
    /\ Bindable \cap Handles = {} /\ Things \cap Methods = {}
    /\ Objects \cap (Primitives \cup {Undefined, Null}) = {}
    /\ Primitives \cap {Undefined, Null} = {} /\ Undefined # Null
ASSUME RootAssumption == Root \in Bindable
ASSUME NoneAssumption == None \notin Nat /\ None \notin Requests
ASSUME RequestsAssumption == IsFiniteSet(Requests)
ASSUME ChainsAssumption == Chains \subseteq Seq(Operations)
ASSUME ProgramAssumption ==
    /\ PrimitiveMethods \in [Keys -> Methods \cup {Undefined}]
    /\ Results \in [Methods -> SUBSET (Values \ Handles)]
    /\ Initially \subseteq [Bindable -> [Keys -> Values \ Handles]]
    /\ Assignments \subseteq Bindable \X Keys \X (Values \ Handles)

VARIABLES
    props,            \* the program's objects: object -> key -> value
    overwritten,      \* history: the properties assigned after they were cached
    boundMethodCache, \* <<object, key>> -> handle
    bound,            \* handle -> what bind() made it from
    phase,            \* how far each request has come
    from,             \* the request whose proxy its cursor started at, or None
    rest,             \* the instructions still to execute
    stack,            \* the exporter's stack for it
    done,             \* history: its operations, each with target and result
    ref               \* the id in its reply, or None

programVars == <<props, overwritten>>
cacheVars == <<boundMethodCache, bound>>
requestVars == <<phase, from, rest, stack, done, ref>>
vars == <<regVars, programVars, cacheVars, requestVars>>

(* sent        the request is on its way                                   *)
(* evaluating  the exporter is between two operations                      *)
(* running     it awaits what a function returns                           *)
(* answered    the reply with a reference is on its way                    *)
(* live        the importer holds the proxy                                *)
(* released    the importer's release has been handled                     *)
(* value, failed   the request ended with a primitive, or an error         *)
Holding == {"answered", "live"}
Ended == {"live", "released", "value", "failed"}
Phases == {"unused", "sent", "evaluating", "running", "answered"} \cup Ended

-----------------------------------------------------------------------------

Init ==
    /\ RegistryInit
    /\ props \in Initially
    /\ overwritten = {}
    /\ boundMethodCache = NoEntries
    /\ bound = NoEntries
    /\ phase = [r \in Requests |-> "unused"]
    /\ from = [r \in Requests |-> None]
    /\ rest = [r \in Requests |-> <<>>]
    /\ stack = [r \in Requests |-> <<>>]
    /\ done = [r \in Requests |-> <<>>]
    /\ ref = [r \in Requests |-> None]

Last(s) == s[Len(s)]
Popped(s) == IF s = <<>> THEN s ELSE SubSeq(s, 1, Len(s) - 1)

IsFunction(v) == v \in Methods \cup Handles

(* Mutant: a proxy for a reference can be awaited, and awaits itself. *)
ThenableOnceNonEmpty(c) == c # <<>>

(* Does the cursor have a `then`?  Not the root, not a lone reference. *)
Thenable(c) == ~ (c = <<>> \/ (Len(c) = 1 /\ c[1].kind = "ref"))

(* The program chains traps on the root or on a proxy it holds, and awaits *)
(* the cursor it gets.                                                     *)
CursorOn(q, ops) == (IF q = None THEN <<>> ELSE <<Reference(ref[q])>>) \o ops
Await(r, q, ops) ==
    /\ phase[r] = "unused"
    /\ q # None => phase[q] = "live"
    /\ Thenable(CursorOn(q, ops))
    /\ phase' = [phase EXCEPT ![r] = "sent"]
    /\ from' = [from EXCEPT ![r] = q]
    /\ rest' = [rest EXCEPT ![r] = CursorOn(q, ops)]
    /\ UNCHANGED <<regVars, programVars, cacheVars, stack, done, ref>>

StartsAtReference(r) == Head(rest[r]).kind = "ref"
Named(r) == Head(rest[r]).key

(* The exporter takes the request: a stack of its own, on which a          *)
(* reference pushes the object it names.                                   *)
Begin(r) ==
    /\ phase[r] = "sent"
    /\ StartsAtReference(r) => IsRegistered(Named(r))
    /\ phase' = [phase EXCEPT ![r] = "evaluating"]
    /\ stack' = [stack EXCEPT ![r] = IF StartsAtReference(r) THEN <<Lookup(Named(r))>> ELSE <<>>]
    /\ rest' = [rest EXCEPT ![r] = IF StartsAtReference(r) THEN Tail(@) ELSE @]
    /\ UNCHANGED <<regVars, programVars, cacheVars, from, done, ref>>

Evaluating(r, kind) ==
    /\ phase[r] = "evaluating"
    /\ rest[r] # <<>>
    /\ Head(rest[r]).kind = kind

(* The target of the next operation: the top of the stack, or the root.    *)
(* An undefined on the stack is passed to the operation and replaced by    *)
(* its default parameter, the root again.                                  *)
Target(r) == IF stack[r] = <<>> \/ Last(stack[r]) = Undefined THEN Root ELSE Last(stack[r])

(* Mutant: the requests push their results on one stack. *)
PushForAll(r, v) == stack' = [q \in Requests |-> Append(Popped(stack[q]), v)]

Push(r, v) == stack' = [stack EXCEPT ![r] = Append(Popped(@), v)]

(* The operation at hand was performed on target t, as a method of self,   *)
(* and gave v.                                                             *)
Perform(r, t, self, v) ==
    /\ Push(r, v)
    /\ rest' = [rest EXCEPT ![r] = Tail(@)]
    /\ done' = [done EXCEPT ![r] = Append(@,
          [kind |-> Head(rest[r]).kind, key |-> Head(rest[r]).key,
           target |-> t, self |-> self, result |-> v])]

-----------------------------------------------------------------------------
(* get *)

(* target[key].  The functions bind() makes have none of the properties of *)
(* the function they were made from.                                       *)
Property(v, k) ==
    IF v \in Bindable THEN props[v][k]
    ELSE IF v \in Primitives THEN PrimitiveMethods[k] ELSE Undefined

Getting(r, v) ==
    /\ Evaluating(r, "get")
    /\ Target(r) # Null
    /\ v = Property(Target(r), Head(rest[r]).key)

GetDone(r, v) ==
    /\ Perform(r, Target(r), Target(r), v)
    /\ UNCHANGED <<regVars, programVars, phase, from, ref>>

GetValue(r) == \E v \in Values :
    /\ Getting(r, v)
    /\ ~IsFunction(v)
    /\ GetDone(r, v)
    /\ UNCHANGED cacheVars

(* A primitive cannot be a key of the WeakMap: the error is ignored, and   *)
(* the function stays as it is.                                            *)
GetUnbound(r) == \E v \in Values :
    /\ Getting(r, v)
    /\ IsFunction(v)
    /\ Target(r) \in Primitives
    /\ GetDone(r, v)
    /\ UNCHANGED cacheVars

Entry(r) == <<Target(r), Head(rest[r]).key>>

(* Mutant: one cache for the methods of all objects. *)
CachedByKey(r) ==
    LET hits == {e \in DOMAIN boundMethodCache : e[2] = Head(rest[r]).key}
    IN  {boundMethodCache[e] : e \in hits}

(* boundMethodCache.get(target).get(key) *)
Cached(r) == IF Entry(r) \in DOMAIN boundMethodCache THEN {boundMethodCache[Entry(r)]} ELSE {}

GetCached(r) == \E v \in Values :
    /\ Getting(r, v)
    /\ IsFunction(v)
    /\ Target(r) \notin Primitives
    /\ \E h \in Cached(r) : GetDone(r, h)
    /\ UNCHANGED cacheVars

(* Mutant: each get binds anew. *)
GetBoundAgain(r) == \E v \in Values, h \in Handles \ DOMAIN bound :
    /\ Getting(r, v)
    /\ IsFunction(v)
    /\ Target(r) \notin Primitives
    /\ bound' = Put(bound, h, [method |-> v, self |-> Target(r), key |-> Head(rest[r]).key])
    /\ boundMethodCache' = Put(boundMethodCache, Entry(r), h)
    /\ GetDone(r, h)

GetBound(r) == \E v \in Values, h \in Handles \ DOMAIN bound :
    /\ Getting(r, v)
    /\ IsFunction(v)
    /\ Target(r) \notin Primitives
    /\ Cached(r) = {}
    /\ bound' = Put(bound, h, [method |-> v, self |-> Target(r), key |-> Head(rest[r]).key])
    /\ boundMethodCache' = Put(boundMethodCache, Entry(r), h)
    /\ GetDone(r, h)

-----------------------------------------------------------------------------
(* apply, construct *)

(* The function of the program behind v, and what it runs on: bind() fixes *)
(* the one, the root is given as thisArg for the others.                   *)
CodeOf(v) == IF v \in Handles THEN bound[v].method ELSE v
SelfOf(v) == IF v \in Handles THEN bound[v].self ELSE Root

(* Reflect.apply is called, and what it returns is awaited.  The target    *)
(* leaves the stack when the result is pushed.                             *)
Call(r) ==
    /\ Evaluating(r, "apply")
    /\ IsFunction(Target(r))
    /\ phase' = [phase EXCEPT ![r] = "running"]
    /\ UNCHANGED <<regVars, programVars, cacheVars, from, rest, stack, done, ref>>

CallReturns(r, v) ==
    /\ phase[r] = "running"
    /\ v \in Results[CodeOf(Target(r))]
    /\ Perform(r, Target(r), SelfOf(Target(r)), v)
    /\ phase' = [phase EXCEPT ![r] = "evaluating"]
    /\ UNCHANGED <<regVars, programVars, cacheVars, from, ref>>

(* Reflect.construct, which is not awaited *)
Construct(r, o) ==
    /\ Evaluating(r, "construct")
    /\ IsFunction(Target(r))
    /\ Perform(r, Target(r), o, o)
    /\ UNCHANGED <<regVars, programVars, cacheVars, phase, from, ref>>

-----------------------------------------------------------------------------
(* replies *)

Fails(r) ==
    \/ phase[r] = "sent" /\ StartsAtReference(r) /\ ~IsRegistered(Named(r))
    \/ Evaluating(r, "get") /\ Target(r) = Null
    \/ Evaluating(r, "apply") /\ ~IsFunction(Target(r))
    \/ Evaluating(r, "construct")     \* not a function, or it throws
    \/ phase[r] = "running"           \* it throws

(* Mutant: what an operation throws is not caught, and nothing is replied. *)
ReplyErrorUnlessThrown(r) ==
    /\ Fails(r)
    /\ phase[r] # "running"
    /\ ~Evaluating(r, "get")
    /\ phase' = [phase EXCEPT ![r] = "failed"]
    /\ UNCHANGED <<regVars, programVars, cacheVars, from, rest, stack, done, ref>>

(* An operation returns an error, or throws and handleStream catches it. *)
ReplyError(r) ==
    /\ Fails(r)
    /\ phase' = [phase EXCEPT ![r] = "failed"]
    /\ UNCHANGED <<regVars, programVars, cacheVars, from, rest, stack, done, ref>>

(* The list is done: what is on the stack is the result. *)
Returning(r, v) ==
    /\ phase[r] = "evaluating"
    /\ rest[r] = <<>>
    /\ stack[r] # <<>>
    /\ v = Last(stack[r])

ReplyReference(r) == \E v \in Objects :
    /\ Returning(r, v)
    /\ Register(v)
    /\ ref' = [ref EXCEPT ![r] = RegisteredId(v)]
    /\ phase' = [phase EXCEPT ![r] = "answered"]
    /\ UNCHANGED <<programVars, cacheVars, from, rest, stack, done>>

ReplyPrimitive(r) == \E v \in Values \ Objects :
    /\ Returning(r, v)
    /\ phase' = [phase EXCEPT ![r] = "value"]
    /\ UNCHANGED <<regVars, programVars, cacheVars, from, rest, stack, done, ref>>

(* The importer makes a proxy for the id and resolves the await with it.   *)
(* A promise resolved with a thenable awaits that, too.                    *)
Receive(r) ==
    /\ phase[r] = "answered"
    /\ IF Thenable(<<Reference(ref[r])>>)
       THEN /\ phase' = [phase EXCEPT ![r] = "sent"]
            /\ rest' = [rest EXCEPT ![r] = <<Reference(ref[r])>>]
       ELSE /\ phase' = [phase EXCEPT ![r] = "live"]
            /\ UNCHANGED rest
    /\ UNCHANGED <<regVars, programVars, cacheVars, from, stack, done, ref>>

(* The proxy has been dropped and its finalizer's release arrives. *)
Release(r) ==
    /\ phase[r] = "live"
    /\ phase' = [phase EXCEPT ![r] = "released"]
    /\ Delete(ref[r])
    /\ UNCHANGED <<programVars, cacheVars, from, rest, stack, done, ref>>

(* The exporting program assigns one of its properties. *)
Assign(t, k, v) ==
    /\ props[t][k] # v
    /\ props' = [props EXCEPT ![t][k] = v]
    /\ overwritten' = IF <<t, k>> \in DOMAIN boundMethodCache
                      THEN overwritten \cup {<<t, k>>} ELSE overwritten
    /\ UNCHANGED <<regVars, cacheVars, requestVars>>

Evaluate(r) ==
    \/ Begin(r)
    \/ GetValue(r) \/ GetUnbound(r) \/ GetCached(r) \/ GetBound(r)
    \/ Call(r)
    \/ \E v \in Values : CallReturns(r, v)
    \/ \E o \in Things : Construct(r, o)
    \/ ReplyError(r) \/ ReplyReference(r) \/ ReplyPrimitive(r)

Next ==
    \/ \E r \in Requests :
         \/ \E q \in Requests \cup {None}, ops \in Chains : Await(r, q, ops)
         \/ Evaluate(r)
         \/ Receive(r) \/ Release(r)
    \/ \E a \in Assignments : Assign(a[1], a[2], a[3])

Spec == Init /\ [][Next]_vars

(* Requests and replies arrive, and functions of the program end. *)
Fairness == \A r \in Requests : WF_vars(Evaluate(r) \/ Receive(r))

FairSpec == Spec /\ Fairness

-----------------------------------------------------------------------------

Records ==
    [kind : {"get", "apply", "construct"}, key : Keys \cup {None},
     target : Values, self : Values, result : Values]

TypeOK ==
    /\ RegistryTypeOK
    /\ props \in [Bindable -> [Keys -> Values \ Handles]]
    /\ overwritten \subseteq Bindable \X Keys
    /\ DOMAIN boundMethodCache \subseteq Bindable \X Keys
    /\ boundMethodCache \in [DOMAIN boundMethodCache -> Handles]
    /\ DOMAIN bound \subseteq Handles
    /\ bound \in [DOMAIN bound -> [method : Methods, self : Bindable, key : Keys]]
    /\ phase \in [Requests -> Phases]
    /\ from \in [Requests -> Requests \cup {None}]
    /\ rest \in [Requests -> Seq(Operations \cup [kind : {"ref"}, key : Ids])]
    /\ stack \in [Requests -> Seq(Values)]
    /\ done \in [Requests -> Seq(Records)]
    /\ ref \in [Requests -> Ids \cup {None}]

(* What the request's list has come to, and what its cursor started at:    *)
(* the value that the request returned whose proxy it was made on.         *)
Result(r) == Last(done[r]).result
Origin(r) == IF from[r] = None THEN Root ELSE Result(from[r])

(* The value the next operation of r must work on. *)
Previous(r, i) == IF i = 1 THEN Origin(r) ELSE done[r][i - 1].result

(* The chain means what it says, however requests interleave: its first    *)
(* operation works on the root, or on the very object the proxy stands     *)
(* for, and each other on the result of the one before                     *)
(* (exported.ts:302-311).  What follows undefined is ChainsMeanLocally.    *)
ChainsFollowed ==
    \A r \in Requests : \A i \in DOMAIN done[r] :
        Previous(r, i) # Undefined => done[r][i].target = Previous(r, i)

(* A remote chain is to feel local (README.md:3), and the root is the      *)
(* default of its first operation (exported.ts:302): whatever an operation *)
(* gave, undefined included, the next one works on that.                   *)
ChainsMeanLocally ==
    \A r \in Requests : \A i \in DOMAIN done[r] : done[r][i].target = Previous(r, i)

(* `proxy.a.m()`: a function read by a get and then called. *)
CallsOfMethods(r) ==
    {i \in 2..Len(done[r]) : /\ done[r][i].kind = "apply"
                             /\ done[r][i - 1].kind = "get"
                             /\ IsFunction(done[r][i - 1].result)}

(* A method that is read from an object and then called runs on that       *)
(* object, although get and apply are two operations with an await in      *)
(* between and the bound function comes from a cache (exported.ts:328-352).*)
(* Methods of primitives are the exception, see MethodsBound.              *)
MethodsRunOnTheirObject ==
    \A r \in Requests : \A i \in CallsOfMethods(r) :
        done[r][i - 1].target \notin Primitives => done[r][i].self = done[r][i - 1].target

(* "for methods (like greet), we MUST bind to target (instance)", the get  *)
(* operation says (exported.ts:343): whatever it was read from, a method   *)
(* runs on it.                                                             *)
MethodsBound ==
    \A r \in Requests : \A i \in CallsOfMethods(r) : done[r][i].self = done[r][i - 1].target

(* The cache is there so that a method crosses the wire under one id       *)
(* (exported.ts:331): two proxies for the same method of the same object   *)
(* hold the same id, so their retains are counted together.                *)
MethodsDeduplicated ==
    \A q, r \in Requests :
        /\ {phase[q], phase[r]} \subseteq Holding
        /\ {Result(q), Result(r)} \subseteq Handles
        /\ bound[Result(q)].self = bound[Result(r)].self
        /\ bound[Result(q)].key = bound[Result(r)].key
        => ref[q] = ref[r]

(* A get returns the function that the property has at that moment; only   *)
(* when the property was assigned after it had been cached may it be       *)
(* another, the one cached (exported.ts:337).                              *)
ReadsCurrent ==
    [][\A r \in Requests :
         Len(done'[r]) > Len(done[r]) =>
            LET op == Last(done'[r]) IN
            op.kind = "get" /\ op.result \in Handles =>
                \/ bound'[op.result].method = props[op.target][op.key]
                \/ <<op.target, op.key>> \in overwritten]_vars

Holders(id) == {r \in Requests : phase[r] \in Holding /\ ref[r] = id}

(* Each await that ends in a proxy has taken one retain, for the value of  *)
(* its last operation and for no other: a cursor is executed once, and the *)
(* proxy it resolves to is not awaited in its turn (imported.ts:195-198).  *)
OneRetainPerProxy ==
    /\ \A id \in Ids : CountOf(id) = Cardinality(Holders(id))
    /\ \A r \in Requests : phase[r] \in Holding =>
         IsRegistered(ref[r]) /\ Lookup(ref[r]) = Result(r)

(* The exporter's stack never holds more than the result of the operation  *)
(* before (or, at first, the object a reference names), and is never empty *)
(* when the list is done: "no result" (exported.ts:314-316) is not         *)
(* reachable from the importer's cursors.                                  *)
StackHoldsLast ==
    \A r \in Requests : phase[r] \in {"evaluating", "running"} =>
        /\ stack[r] = IF done[r] # <<>> THEN <<Result(r)>>
                      ELSE IF from[r] = None THEN <<>> ELSE <<Origin(r)>>
        /\ rest[r] \in Seq(Operations)
        /\ done[r] = <<>> => rest[r] # <<>>
        /\ phase[r] = "running" => /\ rest[r] # <<>> /\ Head(rest[r]).kind = "apply"
                                   /\ IsFunction(Target(r))

(* A request under way is its cursor: at most one reference, first, to     *)
(* what its proxy stands for, and operations.                              *)
CursorsOnProxies ==
    \A r \in Requests :
        /\ from[r] # None => phase[from[r]] \in {"live", "released"}
        /\ phase[r] \in {"unused", "sent"} => done[r] = <<>>
        /\ phase[r] = "unused" => from[r] = None
        /\ phase[r] = "sent" => \E ops \in Chains :
             rest[r] = CursorOn(from[r], ops) /\ ops # <<>>

(* An id comes with the reply to a list that is done, and means the value  *)
(* of that list for good.                                                  *)
RefsFromReplies ==
    \A r \in Requests :
        /\ (ref[r] # None) <=> (phase[r] \in Holding \cup {"released"})
        /\ ref[r] # None => /\ done[r] # <<>>
                            /\ ref[r] <= lastId
                            /\ IsRegistered(ref[r]) => Lookup(ref[r]) = Result(r)

(* The cache and what bind() made are inverse to each other, and a cached  *)
(* function is the property's unless that was assigned since.              *)
CacheInverse ==
    /\ \A e \in DOMAIN boundMethodCache :
         LET h == boundMethodCache[e] IN
         /\ h \in DOMAIN bound
         /\ bound[h].self = e[1] /\ bound[h].key = e[2]
         /\ e \in overwritten \/ bound[h].method = props[e[1]][e[2]]
    /\ \A h \in DOMAIN bound :
         LET e == <<bound[h].self, bound[h].key>> IN
         e \in DOMAIN boundMethodCache /\ boundMethodCache[e] = h

(* What the operations that are done have been: a bound function that a    *)
(* get gave was bound to its target; a call ran on what its function was   *)
(* bound to.                                                               *)
OperationsSound ==
    \A r \in Requests : \A i \in DOMAIN done[r] : LET op == done[r][i] IN
        /\ {op.target, op.result} \cap Handles \subseteq DOMAIN bound
        /\ op.kind = "get" /\ op.result \in Handles => bound[op.result].self = op.target
        /\ op.kind = "get" /\ op.result \in Methods => op.target \in Primitives
        /\ op.kind = "apply" => IsFunction(op.target) /\ op.self = SelfOf(op.target)

(* The inductive invariant. *)
EvaluationSound ==
    /\ TypeOK
    /\ TablesAgree
    /\ StackHoldsLast
    /\ CursorsOnProxies
    /\ RefsFromReplies
    /\ CacheInverse
    /\ OperationsSound
    /\ ChainsFollowed
    /\ OneRetainPerProxy

(* An awaited cursor settles, as long as the program's functions do: every *)
(* operation replies, the ones that throw included (exported.ts:90-95).    *)
AwaitsSettle == \A r \in Requests : (phase[r] = "sent") ~> (phase[r] \in Ended)
=============================================================================

-------------------------- MODULE EvaluationProofs --------------------------
(***************************************************************************)
(* What a chain of traps means, proved for any program, chains and number  *)
(* of requests.                                                            *)
(***************************************************************************)
EXTENDS Evaluation, ObjectRegistryProofs, FiniteSetTheorems

LEMMA HoldersFinite ==
    ASSUME NEW id
    PROVE  IsFiniteSet(Holders(id)) /\ Cardinality(Holders(id)) \in Nat
BY RequestsAssumption, FS_Subset, FS_CardinalityType DEF Holders

(* A set with two members has at least two. *)
LEMMA AtLeastTwo ==
    ASSUME NEW S, IsFiniteSet(S), NEW x \in S, NEW y \in S, x # y
    PROVE  Cardinality(S) > 1
<1>1. /\ IsFiniteSet(S \ {x}) /\ Cardinality(S \ {x}) = Cardinality(S) - 1
  BY FS_RemoveElement
<1>2. /\ Cardinality((S \ {x}) \ {y}) = Cardinality(S \ {x}) - 1
      /\ IsFiniteSet((S \ {x}) \ {y})
  BY <1>1, FS_RemoveElement
<1>3. Cardinality(S) \in Nat /\ Cardinality((S \ {x}) \ {y}) \in Nat
  BY <1>2, FS_CardinalityType
<1> QED
  BY <1>1, <1>2, <1>3

LEMMA AppendFacts ==
    ASSUME NEW S, NEW s \in Seq(S), NEW x \in S
    PROVE  /\ Append(s, x) \in Seq(S) /\ Append(s, x) # <<>>
           /\ Len(Append(s, x)) = Len(s) + 1
           /\ Last(Append(s, x)) = x
           /\ \A i \in 1..Len(s) : Append(s, x)[i] = s[i]
           /\ DOMAIN Append(s, x) = 1..(Len(s) + 1)
           /\ Append(s, x)[Len(s) + 1] = x
BY DEF Last

(* The parts of the invariant that are about one request. *)
StackOK(r) ==
    phase[r] \in {"evaluating", "running"} =>
        /\ stack[r] = IF done[r] # <<>> THEN <<Result(r)>>
                      ELSE IF from[r] = None THEN <<>> ELSE <<Origin(r)>>
        /\ rest[r] \in Seq(Operations)
        /\ done[r] = <<>> => rest[r] # <<>>
        /\ phase[r] = "running" => /\ rest[r] # <<>> /\ Head(rest[r]).kind = "apply"
                                   /\ IsFunction(Target(r))
CursorOK(r) ==
    /\ from[r] # None => phase[from[r]] \in {"live", "released"}
    /\ phase[r] \in {"unused", "sent"} => done[r] = <<>>
    /\ phase[r] = "unused" => from[r] = None
    /\ phase[r] = "sent" => \E ops \in Chains :
         rest[r] = CursorOn(from[r], ops) /\ ops # <<>>
RefOK(r) ==
    /\ (ref[r] # None) <=> (phase[r] \in Holding \cup {"released"})
    /\ ref[r] # None => /\ done[r] # <<>>
                        /\ ref[r] <= lastId
                        /\ IsRegistered(ref[r]) => Lookup(ref[r]) = Result(r)
    /\ phase[r] \in Holding => IsRegistered(ref[r])
SoundOperation(op) ==
    /\ {op.target, op.result} \cap Handles \subseteq DOMAIN bound
    /\ op.kind = "get" /\ op.result \in Handles => bound[op.result].self = op.target
    /\ op.kind = "get" /\ op.result \in Methods => op.target \in Primitives
    /\ op.kind = "apply" => IsFunction(op.target) /\ op.self = SelfOf(op.target)
OperationsOK(r) == \A i \in DOMAIN done[r] : SoundOperation(done[r][i])
FollowedOK(r) ==
    \A i \in DOMAIN done[r] :
        Previous(r, i) # Undefined => done[r][i].target = Previous(r, i)
CountsExact == \A id \in Ids : CountOf(id) = Cardinality(Holders(id))

RequestOK(r) == StackOK(r) /\ CursorOK(r) /\ RefOK(r) /\ OperationsOK(r) /\ FollowedOK(r)
SharedOK == TypeOK /\ TablesAgree /\ CacheInverse /\ CountsExact

LEMMA ByRequest ==
    EvaluationSound <=> SharedOK /\ \A r \in Requests : RequestOK(r)
<1>1. OneRetainPerProxy /\ RefsFromReplies <=> CountsExact /\ \A r \in Requests : RefOK(r)
  BY DEF OneRetainPerProxy, RefsFromReplies, RefOK, CountsExact
<1> QED
  BY <1>1
  DEF EvaluationSound, SharedOK, RequestOK, StackHoldsLast, CursorsOnProxies, OperationsSound,
      ChainsFollowed, StackOK, CursorOK, OperationsOK, SoundOperation, FollowedOK

LEMMA ByRequestNext ==
    EvaluationSound' <=> SharedOK' /\ \A r \in Requests : RequestOK(r)'
<1>1. OneRetainPerProxy' /\ RefsFromReplies'
        <=> CountsExact' /\ \A r \in Requests : RefOK(r)'
  BY DEF OneRetainPerProxy, RefsFromReplies, RefOK, CountsExact, Ids
<1> QED
  BY <1>1
  DEF EvaluationSound, SharedOK, RequestOK, StackHoldsLast, CursorsOnProxies, OperationsSound,
      ChainsFollowed, StackOK, CursorOK, OperationsOK, SoundOperation, FollowedOK

-----------------------------------------------------------------------------

(* A step of request r leaves another request as it is, if what bind() has *)
(* made stays, ids keep their meaning, and a request whose proxy is there  *)
(* keeps its value.                                                        *)
BoundGrows ==
    /\ DOMAIN bound \subseteq DOMAIN bound'
    /\ \A h \in DOMAIN bound : bound'[h] = bound[h]

IdsKept ==
    /\ lastId' \in Nat /\ lastId <= lastId'
    /\ \A id \in DOMAIN map' : id \notin DOMAIN map => id = lastId + 1
    /\ \A id \in DOMAIN map' \cap DOMAIN map : map'[id] = map[id]

SettledKept(r) ==
    phase[r] \in {"live", "released"} =>
        phase'[r] \in {"live", "released"} /\ done'[r] = done[r] /\ ref'[r] = ref[r]

SameRequest(q) ==
    /\ phase'[q] = phase[q] /\ from'[q] = from[q] /\ rest'[q] = rest[q]
    /\ stack'[q] = stack[q] /\ done'[q] = done[q] /\ ref'[q] = ref[q]

LEMMA Frame ==
    ASSUME EvaluationSound, NEW r \in Requests, NEW q \in Requests, q # r,
           SameRequest(q), SettledKept(r), BoundGrows, IdsKept,
           \A p \in Requests \ {r} : SameRequest(p),
           phase[q] \in Holding => ref[q] \in DOMAIN map'
    PROVE  RequestOK(q)'
<1>0. SharedOK /\ RequestOK(q) /\ TypeOK
  BY ByRequest DEF SharedOK
<1> USE DEF SameRequest, RequestOK
<1>1. from[q] # None =>
        /\ from[q] \in Requests /\ phase[from[q]] \in {"live", "released"}
        /\ phase'[from[q]] \in {"live", "released"}
        /\ done'[from[q]] = done[from[q]] /\ ref'[from[q]] = ref[from[q]]
  BY <1>0 DEF CursorOK, SettledKept, TypeOK
<1>2. /\ Result(q)' = Result(q) /\ Origin(q)' = Origin(q)
      /\ \A i : Previous(q, i)' = Previous(q, i)
  BY <1>1 DEF Result, Origin, Previous
<1>3. Target(q)' = Target(q)
  BY DEF Target
<1>4. StackOK(q)'
  BY <1>0, <1>2, <1>3 DEF StackOK, IsFunction
<1>5. CursorOK(q)'
  <2>1. \A ops : CursorOn(from[q], ops)' = CursorOn(from[q], ops)
    BY <1>1 DEF CursorOn, Reference
  <2> QED
    BY <1>0, <1>1, <2>1 DEF CursorOK
<1>6. RefOK(q)'
  <2>1. ref[q] # None => ref[q] \in Nat /\ ref[q] # lastId + 1 /\ ref[q] <= lastId'
    <3>1. lastId \in Nat /\ (ref[q] # None => ref[q] \in Nat)
      BY <1>0, BoundsAssumption DEF SharedOK, TypeOK, RegistryTypeOK, Ids
    <3> QED
      BY <1>0, <3>1 DEF RefOK, IdsKept
  <2> QED
    BY <1>0, <1>2, <2>1 DEF RefOK, IsRegistered, Lookup, IdsKept
<1>7. OperationsOK(q)'
  BY <1>0 DEF OperationsOK, SoundOperation, BoundGrows, SelfOf, IsFunction
<1>8. FollowedOK(q)'
  BY <1>0, <1>2 DEF FollowedOK
<1> QED
  BY <1>4, <1>5, <1>6, <1>7, <1>8

-----------------------------------------------------------------------------

(* Steps that leave the registry alone. *)
LEMMA SameRegistry ==
    ASSUME EvaluationSound, UNCHANGED regVars
    PROVE  /\ TablesAgree' /\ RegistryTypeOK' /\ IdsKept
           /\ map' = map /\ lastId' = lastId
           /\ \A id : CountOf(id)' = CountOf(id)
<1>1. map' = map /\ counts' = counts /\ weakMap' = weakMap /\ lastId' = lastId
  BY DEF regVars
<1>2. TablesAgree /\ RegistryTypeOK
  BY DEF EvaluationSound, TypeOK
<1>3. lastId \in Nat
  BY <1>2, BoundsAssumption DEF RegistryTypeOK
<1> QED
  BY <1>1, <1>2, <1>3
  DEF TablesAgree, RegistryTypeOK, TablesInverse, EntriesRetained, IdsDrawn, IdsKept, Ids, CountOf

LEMMA SameHolders ==
    ASSUME UNCHANGED ref, \A q \in Requests : phase[q] \in Holding <=> phase'[q] \in Holding
    PROVE  \A id : Holders(id)' = Holders(id)
BY DEF Holders

(* A request that holds an id has it registered. *)
LEMMA HeldIsRegistered ==
    ASSUME EvaluationSound, NEW q \in Requests, phase[q] \in Holding
    PROVE  ref[q] \in DOMAIN map /\ ref[q] \in Ids
BY DEF EvaluationSound, OneRetainPerProxy, IsRegistered, TypeOK, RegistryTypeOK

(* What a step of r owes: the shared parts, its own part, and not to       *)
(* disturb what the others rest on.                                        *)
LEMMA StepOf ==
    ASSUME EvaluationSound, NEW r \in Requests,
           \A p \in Requests \ {r} : SameRequest(p),
           SettledKept(r), BoundGrows, IdsKept,
           \A p \in Requests \ {r} : phase[p] \in Holding => ref[p] \in DOMAIN map',
           SharedOK', RequestOK(r)'
    PROVE  EvaluationSound'
<1>1. ASSUME NEW q \in Requests, q # r PROVE RequestOK(q)'
  BY <1>1, Frame
<1> QED
  BY <1>1, ByRequestNext

(* A step that changes nothing but r's phase, and perhaps its list and     *)
(* what it starts at.                                                      *)
LEMMA PhaseStep ==
    ASSUME EvaluationSound, NEW r \in Requests, NEW to \in Phases,
           phase' = [phase EXCEPT ![r] = to],
           UNCHANGED <<regVars, programVars, cacheVars, done, ref>>,
           from' \in [Requests -> Requests \cup {None}],
           from'[r] = from[r] \/ done[r] = <<>>,
           rest' \in [Requests -> Seq(Operations \cup [kind : {"ref"}, key : Ids])],
           stack' \in [Requests -> Seq(Values)],
           \A q \in Requests \ {r} :
             rest'[q] = rest[q] /\ stack'[q] = stack[q] /\ from'[q] = from[q],
           phase[r] \in Holding <=> to \in Holding,
           phase[r] \in {"live", "released"} => to \in {"live", "released"},
           StackOK(r)', CursorOK(r)', RefOK(r)'
    PROVE  EvaluationSound'
<1>1. SharedOK /\ RequestOK(r)
  BY ByRequest
<1>2. bound' = bound /\ boundMethodCache' = boundMethodCache /\ props' = props
      /\ overwritten' = overwritten /\ done' = done /\ ref' = ref
  BY DEF programVars, cacheVars
<1>3. /\ TablesAgree' /\ RegistryTypeOK' /\ IdsKept /\ map' = map
      /\ \A id : CountOf(id)' = CountOf(id)
  BY SameRegistry
<1>4. TypeOK'
  BY <1>1, <1>2, <1>3 DEF SharedOK, TypeOK, Ids
<1>5. \A id : Holders(id)' = Holders(id)
  <2>1. \A q \in Requests : phase[q] \in Holding <=> phase'[q] \in Holding
    BY <1>1 DEF SharedOK, TypeOK
  <2> QED
    BY <1>2, <2>1, SameHolders
<1>6. SharedOK'
  BY <1>1, <1>2, <1>3, <1>4, <1>5 DEF SharedOK, CacheInverse, CountsExact, Ids
<1>7. BoundGrows /\ SettledKept(r)
  BY <1>1, <1>2 DEF BoundGrows, SettledKept, SharedOK, TypeOK
<1>8. \A p \in Requests \ {r} : SameRequest(p)
  BY <1>1, <1>2 DEF SameRequest, SharedOK, TypeOK
<1>9. \A p \in Requests \ {r} : phase[p] \in Holding => ref[p] \in DOMAIN map'
  BY <1>3, HeldIsRegistered
<1>10. OperationsOK(r)' /\ FollowedOK(r)'
  <2>1. OperationsOK(r)'
    BY <1>1, <1>2 DEF RequestOK, OperationsOK, SoundOperation, SelfOf, IsFunction
  <2>2. ASSUME done[r] = <<>> PROVE FollowedOK(r)'
    BY <1>2, <2>2 DEF FollowedOK
  <2>3. ASSUME from'[r] = from[r] PROVE FollowedOK(r)'
    <3>1. Result(r)' = Result(r) /\ Origin(r)' = Origin(r)
          /\ \A i : Previous(r, i)' = Previous(r, i)
      BY <1>2, <2>3 DEF Result, Origin, Previous
    <3> QED
      BY <1>1, <1>2, <3>1 DEF RequestOK, FollowedOK
  <2> QED
    BY <2>1, <2>2, <2>3
<1>11. RequestOK(r)'
  BY <1>10 DEF RequestOK
<1> QED
  BY <1>3, <1>6, <1>7, <1>8, <1>9, <1>11, StepOf

LEMMA Concatenated ==
    ASSUME NEW S, NEW s \in Seq(S), NEW t \in Seq(S)
    PROVE  s \o t \in Seq(S) /\ <<>> \o t = t
OBVIOUS

LEMMA HeadTail ==
    ASSUME NEW S, NEW x \in S, NEW t \in Seq(S)
    PROVE  /\ <<x>> \o t # <<>> /\ Head(<<x>> \o t) = x /\ Tail(<<x>> \o t) = t
           /\ (<<x>> \o t)[1] = x
OBVIOUS

Instructions == Operations \cup [kind : {"ref"}, key : Ids]

(* What a request under way consists of. *)
LEMMA CursorFacts ==
    ASSUME NEW c \in Requests \cup {None}, c # None => ref[c] \in Ids,
           NEW ops \in Chains
    PROVE  /\ CursorOn(c, ops) \in Seq(Instructions)
           /\ ops \in Seq(Operations)
           /\ c = None => CursorOn(c, ops) = ops
           /\ c # None => /\ CursorOn(c, ops) # <<>>
                          /\ Head(CursorOn(c, ops)) = Reference(ref[c])
                          /\ Tail(CursorOn(c, ops)) = ops
<1>1. ops \in Seq(Operations) /\ ops \in Seq(Instructions)
  BY ChainsAssumption DEF Instructions
<1>2. CASE c = None
  <2>1. CursorOn(c, ops) = <<>> \o ops
    BY <1>2 DEF CursorOn
  <2> QED
    BY <1>1, <1>2, <2>1, Concatenated
<1>3. CASE c # None
  <2>1. Reference(ref[c]) \in Instructions
    BY <1>3 DEF Reference, Instructions
  <2>2. CursorOn(c, ops) = <<Reference(ref[c])>> \o ops
    BY <1>3 DEF CursorOn
  <2>3. <<Reference(ref[c])>> \in Seq(Instructions)
    BY <2>1
  <2> QED
    BY <1>1, <1>3, <2>1, <2>2, <2>3, Concatenated, HeadTail
<1> QED
  BY <1>2, <1>3

LEMMA AwaitStep ==
    ASSUME EvaluationSound, NEW r \in Requests, NEW q \in Requests \cup {None},
           NEW ops \in Chains, Await(r, q, ops)
    PROVE  EvaluationSound'
<1>1. SharedOK /\ RequestOK(r) /\ TypeOK
  BY ByRequest DEF SharedOK
<1>2. /\ phase[r] = "unused" /\ from[r] = None /\ done[r] = <<>> /\ ref[r] = None
      /\ q # None => q \in Requests /\ phase[q] = "live" /\ q # r /\ ref[q] \in Ids
  <2>1. q # None => q \in Requests /\ phase[q] = "live" /\ q # r
    BY DEF Await
  <2> QED
    BY <1>1, <2>1, HeldIsRegistered DEF Await, RequestOK, CursorOK, RefOK, Holding
<1>3. ops # <<>>
  <2>1. CASE q = None
    BY <2>1, <1>2, CursorFacts DEF Await, Thenable
  <2>2. CASE q # None /\ ops = <<>>
    <3>1. CursorOn(q, ops) = <<Reference(ref[q])>>
      BY <2>2 DEF CursorOn
    <3> QED
      BY <3>1 DEF Await, Thenable, Reference
  <2> QED
    BY <2>1, <2>2
<1>4. CursorOn(q, ops) \in Seq(Instructions)
  BY <1>2, CursorFacts
<1>5. /\ phase' = [phase EXCEPT ![r] = "sent"]
      /\ from' = [from EXCEPT ![r] = q] /\ rest' = [rest EXCEPT ![r] = CursorOn(q, ops)]
      /\ stack' = stack /\ done' = done /\ ref' = ref
      /\ UNCHANGED <<regVars, programVars, cacheVars>>
  BY DEF Await
<1>6. /\ from' \in [Requests -> Requests \cup {None}]
      /\ rest' \in [Requests -> Seq(Operations \cup [kind : {"ref"}, key : Ids])]
      /\ stack' \in [Requests -> Seq(Values)]
      /\ phase'[r] = "sent" /\ from'[r] = q /\ rest'[r] = CursorOn(q, ops)
      /\ \A p \in Requests \ {r} : phase'[p] = phase[p]
  BY <1>1, <1>4, <1>5 DEF TypeOK, Instructions
<1>7. CursorOK(r)'
  <2>1. CursorOn(from[r], ops)' = CursorOn(q, ops)
    BY <1>5, <1>6 DEF CursorOn, Reference
  <2>2. q # None => phase'[q] \in {"live", "released"}
    BY <1>2, <1>6
  <2> QED
    BY <1>2, <1>3, <1>5, <1>6, <2>1, <2>2 DEF CursorOK
<1>8. RefOK(r)' /\ StackOK(r)'
  BY <1>2, <1>5, <1>6 DEF RefOK, StackOK, Holding
<1> QED
  BY <1>1, <1>2, <1>5, <1>6, <1>7, <1>8, PhaseStep DEF Phases, Holding, TypeOK

(* The exporter takes the request: the reference at its head, if there is  *)
(* one, names the object its proxy stands for.                             *)
LEMMA BeginStep ==
    ASSUME EvaluationSound, NEW r \in Requests, Begin(r)
    PROVE  EvaluationSound'
<1>1. SharedOK /\ RequestOK(r) /\ TypeOK
  BY ByRequest DEF SharedOK
<1>2. phase[r] = "sent" /\ done[r] = <<>> /\ ref[r] = None
  BY <1>1 DEF Begin, RequestOK, CursorOK, RefOK, Holding
<1>3. from[r] # None => /\ from[r] \in Requests /\ from[r] # r
                        /\ phase[from[r]] \in {"live", "released"}
                        /\ ref[from[r]] \in Ids
  <2>1. from[r] # None => /\ from[r] \in Requests /\ from[r] # r
                          /\ phase[from[r]] \in {"live", "released"}
    BY <1>1, <1>2 DEF RequestOK, CursorOK, TypeOK
  <2>2. from[r] # None => RequestOK(from[r])
    BY <2>1, ByRequest
  <2>3. from[r] # None => RefOK(from[r])
    BY <2>2 DEF RequestOK
  <2>4. from[r] # None => ref[from[r]] # None
    BY <2>1, <2>3 DEF RefOK, Holding
  <2>5. ref \in [Requests -> Ids \cup {None}]
    BY <1>1 DEF TypeOK
  <2> QED
    BY <2>1, <2>4, <2>5
<1>4. PICK ops \in Chains : rest[r] = CursorOn(from[r], ops) /\ ops # <<>>
  BY <1>1, <1>2 DEF RequestOK, CursorOK
<1>5. from[r] \in Requests \cup {None}
  BY <1>1 DEF TypeOK
<1>6. ops \in Seq(Operations)
  BY <1>3, <1>4, <1>5, CursorFacts
<1> DEFINE c == IF StartsAtReference(r) THEN <<Lookup(Named(r))>> ELSE <<>>
           l == IF StartsAtReference(r) THEN Tail(rest[r]) ELSE rest[r]
<1>7. /\ c = IF from[r] = None THEN <<>> ELSE <<Origin(r)>>
      /\ l = ops
      /\ from[r] # None => Origin(r) \in Objects
  <2>1. CASE from[r] = None
    <3>1. rest[r] = ops
      BY <1>3, <1>4, <1>5, <2>1, CursorFacts
    <3>2. Head(ops) \in Operations
      BY <1>4, <1>6
    <3>3. ~StartsAtReference(r)
      BY <3>1, <3>2 DEF StartsAtReference, Operations
    <3> QED
      BY <2>1, <3>1, <3>3
  <2>2. CASE from[r] # None
    <3>1. Head(rest[r]) = Reference(ref[from[r]]) /\ Tail(rest[r]) = ops
      BY <1>3, <1>4, <1>5, <2>2, CursorFacts
    <3>2. StartsAtReference(r) /\ Named(r) = ref[from[r]]
      BY <3>1 DEF StartsAtReference, Named, Reference
    <3>3. IsRegistered(ref[from[r]])
      BY <3>2 DEF Begin
    <3>4. RefOK(from[r]) /\ ref[from[r]] # None
      <4>1. RequestOK(from[r])
        BY <1>3, <2>2, ByRequest
      <4> QED
        BY <1>3, <2>2, <4>1, NoneAssumption DEF RequestOK, Ids
    <3>5. Lookup(ref[from[r]]) = Origin(r)
      BY <2>2, <3>3, <3>4 DEF RefOK, Origin
    <3>6. Origin(r) \in Objects
      BY <1>1, <3>3, <3>5 DEF TypeOK, RegistryTypeOK, IsRegistered, Lookup
    <3> QED
      BY <2>2, <3>1, <3>2, <3>5, <3>6
  <2> QED
    BY <2>1, <2>2
<1>8. /\ phase' = [phase EXCEPT ![r] = "evaluating"]
       /\ stack' = [stack EXCEPT ![r] = c]
       /\ rest' = [rest EXCEPT ![r] = l]
       /\ from' = from /\ done' = done /\ ref' = ref
       /\ UNCHANGED <<regVars, programVars, cacheVars>>
  BY DEF Begin
<1> HIDE DEF c, l
<1>9. /\ c \in Seq(Values)
       /\ l \in Seq(Operations \cup [kind : {"ref"}, key : Ids])
  <2>1. l \in Seq(Operations \cup [kind : {"ref"}, key : Ids])
    BY <1>6, <1>7
  <2>2. from[r] # None => Origin(r) \in Values
    BY <1>7 DEF Values
  <2> QED
    BY <1>7, <2>1, <2>2
<1>10. /\ stack' \in [Requests -> Seq(Values)]
       /\ rest' \in [Requests -> Seq(Operations \cup [kind : {"ref"}, key : Ids])]
       /\ stack'[r] = c /\ rest'[r] = l /\ phase'[r] = "evaluating"
       /\ \A p \in Requests \ {r} :
            phase'[p] = phase[p] /\ rest'[p] = rest[p] /\ stack'[p] = stack[p]
  BY <1>1, <1>8, <1>9 DEF TypeOK
<1>11. CursorOK(r)'
  BY <1>3, <1>8, <1>10 DEF CursorOK
<1>12. RefOK(r)'
  BY <1>2, <1>8, <1>10 DEF RefOK, Holding
<1>13. StackOK(r)'
  <2>1. Origin(r)' = Origin(r)
    BY <1>8 DEF Origin, Result
  <2> QED
    BY <1>2, <1>4, <1>6, <1>7, <1>8, <1>10, <2>1 DEF StackOK
<1> QED
  BY <1>1, <1>2, <1>8, <1>10, <1>11, <1>12, <1>13, PhaseStep DEF Phases, Holding, TypeOK

(* Steps that change nothing but the phase of r. *)
LEMMA PhaseOnly ==
    ASSUME EvaluationSound, NEW r \in Requests, NEW to \in Phases \ {"unused", "sent"},
           phase[r] \notin {"unused", "live", "released"},
           phase' = [phase EXCEPT ![r] = to],
           UNCHANGED <<regVars, programVars, cacheVars, from, rest, stack, done, ref>>,
           phase[r] \in Holding <=> to \in Holding,
           to # "released", to # "evaluating",
           to = "running" => /\ phase[r] = "evaluating" /\ rest[r] # <<>>
                             /\ Head(rest[r]).kind = "apply" /\ IsFunction(Target(r))
    PROVE  EvaluationSound'
<1>1. SharedOK /\ RequestOK(r) /\ TypeOK
  BY ByRequest DEF SharedOK
<1>2. /\ phase'[r] = to /\ \A p \in Requests \ {r} : phase'[p] = phase[p]
      /\ from' = from /\ rest' = rest /\ stack' = stack /\ done' = done /\ ref' = ref
      /\ map' = map /\ lastId' = lastId
  BY <1>1 DEF TypeOK, regVars
<1>3. from[r] # None => phase'[from[r]] \in {"live", "released"}
  BY <1>1, <1>2 DEF TypeOK, RequestOK, CursorOK
<1>4. CursorOK(r)'
  BY <1>2, <1>3 DEF CursorOK
<1>5. RefOK(r)'
  <2>1. Result(r)' = Result(r)
    BY <1>2 DEF Result
  <2> QED
    BY <1>1, <1>2, <2>1 DEF RequestOK, RefOK, IsRegistered, Lookup
<1>6. StackOK(r)'
  <2>1. Origin(r)' = Origin(r) /\ Result(r)' = Result(r) /\ Target(r)' = Target(r)
    BY <1>2 DEF Origin, Result, Target
  <2> QED
    BY <1>1, <1>2, <2>1 DEF RequestOK, StackOK, IsFunction
<1> QED
  BY <1>1, <1>2, <1>4, <1>5, <1>6, PhaseStep DEF TypeOK

LEMMA CallStep ==
    ASSUME EvaluationSound, NEW r \in Requests, Call(r)
    PROVE  EvaluationSound'
BY PhaseOnly DEF Call, Evaluating, Phases, Holding

LEMMA ReplyErrorStep ==
    ASSUME EvaluationSound, NEW r \in Requests, ReplyError(r)
    PROVE  EvaluationSound'
<1>1. phase[r] \in {"sent", "evaluating", "running"}
  BY DEF ReplyError, Fails, Evaluating
<1> QED
  BY <1>1, PhaseOnly DEF ReplyError, Phases, Ended, Holding

LEMMA ReplyPrimitiveStep ==
    ASSUME EvaluationSound, NEW r \in Requests, ReplyPrimitive(r)
    PROVE  EvaluationSound'
BY PhaseOnly DEF ReplyPrimitive, Returning, Phases, Ended, Holding

LEMMA ReceiveStep ==
    ASSUME EvaluationSound, NEW r \in Requests, Receive(r)
    PROVE  EvaluationSound'
<1>1. ~Thenable(<<Reference(ref[r])>>)
  BY DEF Thenable, Reference
<1> QED
  BY <1>1, PhaseOnly DEF Receive, Phases, Ended, Holding

-----------------------------------------------------------------------------

(* Operations. *)
LEMMA PushOne ==
    ASSUME NEW s, NEW v, s = <<>> \/ \E x : s = <<x>>
    PROVE  Append(Popped(s), v) = <<v>>
<1>1. Popped(s) = <<>>
  <2>1. ASSUME NEW x, s = <<x>> PROVE Popped(s) = <<>>
    BY <2>1 DEF Popped
  <2> QED
    BY <2>1 DEF Popped
<1> QED
  BY <1>1

(* What an operation finds on the stack: the root, or what came before.    *)
LEMMA TargetFacts ==
    ASSUME EvaluationSound, NEW r \in Requests, phase[r] \in {"evaluating", "running"}
    PROVE  /\ Target(r) = LET p == IF done[r] = <<>> THEN Origin(r) ELSE Result(r)
                          IN  IF p = Undefined THEN Root ELSE p
           /\ Target(r) \in Values
           /\ Target(r) \in Handles => Target(r) \in DOMAIN bound
           /\ stack[r] = <<>> \/ \E x : stack[r] = <<x>>
<1>1. SharedOK /\ RequestOK(r) /\ TypeOK
  BY ByRequest DEF SharedOK
<1>2. StackOK(r) /\ OperationsOK(r) /\ CursorOK(r)
  BY <1>1 DEF RequestOK
<1>3. Root \in Values /\ Root \notin Handles /\ Root # Undefined
  BY RootAssumption, ObjectsAssumption DEF Values, Bindable
<1>4. ASSUME NEW q \in Requests, done[q] # <<>>, OperationsOK(q)
      PROVE  /\ Result(q) \in Values
             /\ Result(q) \in Handles => Result(q) \in DOMAIN bound
  <2>1. done[q] \in Seq(Records) /\ Len(done[q]) \in DOMAIN done[q]
    BY <1>1, <1>4 DEF TypeOK
  <2>2. done[q][Len(done[q])] \in Records /\ SoundOperation(done[q][Len(done[q])])
    BY <1>4, <2>1 DEF OperationsOK
  <2> QED
    BY <2>2 DEF Result, Last, Records, SoundOperation
<1>5. /\ Origin(r) \in Values
      /\ Origin(r) \in Handles => Origin(r) \in DOMAIN bound
  <2>1. CASE from[r] = None
    BY <1>3, <2>1 DEF Origin
  <2>2. CASE from[r] # None
    <3>1. from[r] \in Requests /\ phase[from[r]] \in {"live", "released"}
      BY <1>1, <1>2, <2>2 DEF CursorOK, TypeOK
    <3>2. RequestOK(from[r])
      BY <3>1, ByRequest
    <3>3. RefOK(from[r]) /\ OperationsOK(from[r])
      BY <3>2 DEF RequestOK
    <3>4. done[from[r]] # <<>>
      BY <3>1, <3>3 DEF RefOK, Holding
    <3> QED
      BY <1>4, <2>2, <3>1, <3>3, <3>4 DEF Origin
  <2> QED
    BY <2>1, <2>2
<1>6. done[r] # <<>> =>
        /\ Result(r) \in Values
        /\ Result(r) \in Handles => Result(r) \in DOMAIN bound
  BY <1>2, <1>4
<1>7. stack[r] = IF done[r] # <<>> THEN <<Result(r)>>
                 ELSE IF from[r] = None THEN <<>> ELSE <<Origin(r)>>
  BY <1>2 DEF StackOK
<1>8. from[r] = None => Origin(r) = Root
  BY DEF Origin
<1>9. \A x : <<x>> # <<>> /\ Last(<<x>>) = x
  BY DEF Last
<1>10. Target(r) = LET p == IF done[r] = <<>> THEN Origin(r) ELSE Result(r)
                   IN  IF p = Undefined THEN Root ELSE p
  BY <1>7, <1>8, <1>9 DEF Target
<1> QED
  BY <1>3, <1>5, <1>6, <1>7, <1>10

Performed(r, self, v) ==
    [kind |-> Head(rest[r]).kind, key |-> Head(rest[r]).key,
     target |-> Target(r), self |-> self, result |-> v]

CacheTypeOK ==
    /\ DOMAIN boundMethodCache \subseteq Bindable \X Keys
    /\ boundMethodCache \in [DOMAIN boundMethodCache -> Handles]
    /\ DOMAIN bound \subseteq Handles
    /\ bound \in [DOMAIN bound -> [method : Methods, self : Bindable, key : Keys]]

(* Any operation, given what it does to the cache.                         *)
LEMMA PerformStep ==
    ASSUME EvaluationSound, NEW r \in Requests, NEW v \in Values, NEW self \in Values,
           NEW op, op = Performed(r, self, v),
           phase[r] \in {"evaluating", "running"}, rest[r] # <<>>,
           Perform(r, Target(r), self, v),
           phase' = [phase EXCEPT ![r] = "evaluating"],
           UNCHANGED <<regVars, programVars, from, ref>>,
           BoundGrows, CacheTypeOK', CacheInverse',
           SoundOperation(op)'
    PROVE  EvaluationSound'
<1>1. SharedOK /\ RequestOK(r) /\ TypeOK
  BY ByRequest DEF SharedOK
<1>2. StackOK(r) /\ CursorOK(r) /\ RefOK(r) /\ OperationsOK(r) /\ FollowedOK(r)
  BY <1>1 DEF RequestOK
<1>3. /\ rest[r] \in Seq(Operations) /\ Head(rest[r]) \in Operations
      /\ Tail(rest[r]) \in Seq(Operations) /\ ref[r] = None
  BY <1>2 DEF StackOK, RefOK, Holding
<1>4. /\ Target(r) = LET p == IF done[r] = <<>> THEN Origin(r) ELSE Result(r)
                     IN  IF p = Undefined THEN Root ELSE p
      /\ Target(r) \in Values
      /\ stack[r] = <<>> \/ \E x : stack[r] = <<x>>
  BY TargetFacts
<1> DEFINE d == Append(done[r], op)
<1>5. op \in Records /\ done[r] \in Seq(Records)
  BY <1>1, <1>3, <1>4 DEF Records, Operations, TypeOK, Performed
<1>6. /\ d \in Seq(Records) /\ d # <<>> /\ Len(d) = Len(done[r]) + 1
      /\ Last(d) = op /\ DOMAIN d = 1..(Len(done[r]) + 1)
      /\ \A i \in 1..Len(done[r]) : d[i] = done[r][i]
      /\ d[Len(done[r]) + 1] = op
  BY <1>5, AppendFacts
<1>7. Append(Popped(stack[r]), v) = <<v>>
  BY <1>4, PushOne
<1>8. /\ stack' = [stack EXCEPT ![r] = <<v>>]
      /\ rest' = [rest EXCEPT ![r] = Tail(rest[r])]
      /\ done' = [done EXCEPT ![r] = d]
      /\ phase' = [phase EXCEPT ![r] = "evaluating"]
      /\ from' = from /\ ref' = ref /\ props' = props /\ overwritten' = overwritten
  BY <1>7 DEF Perform, Push, programVars, Performed
<1>9. op.result = v /\ op.target = Target(r)
  BY DEF Performed
<1> HIDE DEF d
<1>10. /\ stack'[r] = <<v>> /\ rest'[r] = Tail(rest[r]) /\ done'[r] = d
       /\ phase'[r] = "evaluating"
       /\ \A p \in Requests \ {r} : SameRequest(p)
       /\ stack' \in [Requests -> Seq(Values)]
       /\ rest' \in [Requests -> Seq(Operations \cup [kind : {"ref"}, key : Ids])]
       /\ done' \in [Requests -> Seq(Records)]
       /\ phase' \in [Requests -> Phases]
  <2>1. Tail(rest[r]) \in Seq(Operations \cup [kind : {"ref"}, key : Ids])
    BY <1>3
  <2> QED
    BY <1>1, <1>6, <1>8, <2>1 DEF TypeOK, SameRequest, Phases
<1>11. /\ TablesAgree' /\ RegistryTypeOK' /\ IdsKept /\ map' = map
       /\ \A id : CountOf(id)' = CountOf(id)
  BY SameRegistry
<1>12. SharedOK'
  <2>1. TypeOK'
    BY <1>1, <1>8, <1>10, <1>11 DEF TypeOK, CacheTypeOK, Ids
  <2>2. \A id : Holders(id)' = Holders(id)
    <3>1. \A p \in Requests : phase[p] \in Holding <=> phase'[p] \in Holding
      BY <1>10 DEF SameRequest, Holding
    <3> QED
      BY <1>8, <3>1, SameHolders
  <2>3. CountsExact'
    BY <1>1, <1>11, <2>2 DEF SharedOK, CountsExact, Ids
  <2> QED
    BY <1>11, <2>1, <2>3 DEF SharedOK
<1>13. from[r] # None => /\ from[r] \in Requests /\ from[r] # r
                         /\ phase'[from[r]] \in {"live", "released"}
                         /\ done'[from[r]] = done[from[r]]
  BY <1>1, <1>2, <1>10 DEF CursorOK, TypeOK, SameRequest
<1>14. Origin(r)' = Origin(r) /\ Result(r)' = v
  <2>1. Result(r)' = v
    BY <1>6, <1>9, <1>10 DEF Result
  <2>2. CASE from[r] = None
    BY <1>8, <2>1, <2>2 DEF Origin
  <2>3. CASE from[r] # None
    BY <1>8, <1>13, <2>1, <2>3 DEF Origin, Result
  <2> QED
    BY <2>2, <2>3
<1>15. StackOK(r)'
  BY <1>3, <1>6, <1>10, <1>14 DEF StackOK
<1>16. CursorOK(r)'
  BY <1>8, <1>10, <1>13 DEF CursorOK
<1>17. RefOK(r)'
  BY <1>3, <1>8, <1>10 DEF RefOK, Holding
<1>18. OperationsOK(r)'
  <2>1. ASSUME NEW i \in 1..Len(done[r]) PROVE SoundOperation(done[r][i])'
    <3>1. PICK o : o = done[r][i]
      OBVIOUS
    <3>2. SoundOperation(o)
      BY <1>2, <1>5, <3>1 DEF OperationsOK
    <3>3. SoundOperation(o)'
      BY <3>2 DEF SoundOperation, BoundGrows, SelfOf, IsFunction
    <3>4. done'[r][i] = o
      BY <1>6, <1>10, <3>1
    <3> QED
      BY <3>3, <3>4
  <2>2. ASSUME NEW i, i = Len(done[r]) + 1 PROVE SoundOperation(done[r][i])'
    <3>1. done'[r][i] = op
      BY <1>6, <1>10, <2>2
    <3> QED
      BY <3>1
  <2>3. DOMAIN done'[r] = 1..(Len(done[r]) + 1) /\ Len(done[r]) \in Nat
    BY <1>5, <1>6, <1>10
  <2> QED
    BY <2>1, <2>2, <2>3 DEF OperationsOK
<1>19. FollowedOK(r)'
  <2>1. PICK n \in Nat : n = Len(done[r])
    BY <1>5
  <2>2. ASSUME NEW i \in 1..n
        PROVE  /\ Previous(r, i)' = Previous(r, i) /\ done'[r][i] = done[r][i]
    <3>1. i # 1 => i - 1 \in 1..n
      BY <2>1
    <3> QED
      BY <1>6, <1>10, <1>14, <2>1, <3>1 DEF Previous
  <2>3. Previous(r, n + 1)' = IF done[r] = <<>> THEN Origin(r) ELSE Result(r)
    <3>1. CASE done[r] = <<>>
      BY <1>14, <2>1, <3>1 DEF Previous
    <3>2. CASE done[r] # <<>>
      <4>1. n \in 1..n /\ n + 1 # 1 /\ (n + 1) - 1 = n
        BY <1>5, <2>1, <3>2
      <4> QED
        BY <1>6, <1>10, <2>1, <3>2, <4>1 DEF Previous, Result, Last
    <3> QED
      BY <3>1, <3>2
  <2>4. \A i \in 1..n :
          Previous(r, i)' # Undefined => done'[r][i].target = Previous(r, i)'
    BY <1>2, <1>5, <2>1, <2>2 DEF FollowedOK
  <2>5. Previous(r, n + 1)' # Undefined => done'[r][n + 1].target = Previous(r, n + 1)'
    BY <1>4, <1>6, <1>9, <1>10, <2>1, <2>3
  <2>6. \A i \in DOMAIN done'[r] : i \in 1..n \/ i = n + 1
    BY <1>6, <1>10, <2>1
  <2> QED
    BY <2>4, <2>5, <2>6 DEF FollowedOK
<1>20. RequestOK(r)'
  BY <1>15, <1>16, <1>17, <1>18, <1>19 DEF RequestOK
<1>21. \A p \in Requests \ {r} : phase[p] \in Holding => ref[p] \in DOMAIN map'
  BY <1>11, HeldIsRegistered
<1>22. SettledKept(r)
  BY DEF SettledKept
<1> QED
  BY <1>10, <1>11, <1>12, <1>20, <1>21, <1>22, StepOf

(* The operations that bind nothing. *)
LEMMA UncachedStep ==
    ASSUME EvaluationSound, NEW r \in Requests, NEW v \in Values, NEW self \in Values,
           phase[r] \in {"evaluating", "running"}, rest[r] # <<>>,
           Perform(r, Target(r), self, v),
           phase' = [phase EXCEPT ![r] = "evaluating"],
           UNCHANGED <<regVars, programVars, cacheVars, from, ref>>,
           SoundOperation(Performed(r, self, v))
    PROVE  EvaluationSound'
<1>1. PICK op : op = Performed(r, self, v)
  OBVIOUS
<1>2. bound' = bound /\ boundMethodCache' = boundMethodCache /\ props' = props
      /\ overwritten' = overwritten
  BY DEF cacheVars, programVars
<1>3. TypeOK /\ CacheInverse
  BY DEF EvaluationSound
<1>4. BoundGrows /\ CacheTypeOK' /\ CacheInverse'
  BY <1>2, <1>3 DEF BoundGrows, CacheTypeOK, TypeOK, CacheInverse
<1>5. SoundOperation(op)
  BY <1>1
<1>6. SoundOperation(op)'
  BY <1>2, <1>5 DEF SoundOperation, SelfOf, IsFunction
<1> QED
  BY <1>1, <1>4, <1>6, PerformStep

(* What a get has to do with. *)
LEMMA GettingFacts ==
    ASSUME EvaluationSound, NEW r \in Requests, NEW v \in Values, Getting(r, v)
    PROVE  /\ phase[r] = "evaluating" /\ rest[r] # <<>> /\ Head(rest[r]).kind = "get"
           /\ Head(rest[r]).key \in Keys
           /\ phase = [phase EXCEPT ![r] = "evaluating"]
           /\ v \notin Handles
           /\ IsFunction(v) => v \in Methods /\ Target(r) \in Bindable \cup Primitives
           /\ Target(r) \in Bindable => v = props[Target(r)][Head(rest[r]).key]
           /\ Target(r) \in Values
           /\ Target(r) \in Handles => Target(r) \in DOMAIN bound
<1>1. SharedOK /\ RequestOK(r) /\ TypeOK
  BY ByRequest DEF SharedOK
<1>2. phase[r] = "evaluating" /\ rest[r] # <<>> /\ Head(rest[r]).kind = "get"
  BY DEF Getting, Evaluating
<1>3. Head(rest[r]) \in Operations
  BY <1>1, <1>2 DEF RequestOK, StackOK
<1>4. Head(rest[r]).key \in Keys
  BY <1>2, <1>3 DEF Operations
<1>5. v = Property(Target(r), Head(rest[r]).key)
  BY DEF Getting
<1>6. Undefined \notin Objects /\ Primitives \cap Objects = {} /\ Handles \subseteq Objects
      /\ Methods \subseteq Objects /\ Methods \cap Handles = {} /\ Bindable \subseteq Objects
  BY ObjectsAssumption DEF Bindable
<1>7. CASE Target(r) \in Bindable
  <2>1. v = props[Target(r)][Head(rest[r]).key]
    BY <1>5, <1>7 DEF Property
  <2>2. v \in Values \ Handles
    BY <1>1, <1>4, <1>7, <2>1 DEF TypeOK
  <2> QED
    BY <1>1, <1>2, <1>4, <1>7, <2>1, <2>2, TargetFacts DEF IsFunction, TypeOK
<1>8. CASE Target(r) \in Primitives
  <2>1. v \in Methods \cup {Undefined}
    BY <1>4, <1>5, <1>6, <1>8, ProgramAssumption DEF Property
  <2> QED
    BY <1>1, <1>2, <1>4, <1>6, <1>8, <2>1, TargetFacts DEF IsFunction, TypeOK
<1>9. CASE Target(r) \notin Bindable \cup Primitives
  <2>1. v = Undefined
    BY <1>5, <1>9 DEF Property
  <2> QED
    BY <1>1, <1>2, <1>4, <1>6, <1>9, <2>1, TargetFacts DEF IsFunction, TypeOK
<1> QED
  BY <1>7, <1>8, <1>9

LEMMA GetValueStep ==
    ASSUME EvaluationSound, NEW r \in Requests, GetValue(r) \/ GetUnbound(r)
    PROVE  EvaluationSound'
<1>1. PICK v \in Values : /\ Getting(r, v) /\ GetDone(r, v)
                          /\ IsFunction(v) => Target(r) \in Primitives
                          /\ UNCHANGED cacheVars
  BY DEF GetValue, GetUnbound
<1>2. /\ phase[r] = "evaluating" /\ rest[r] # <<>> /\ Head(rest[r]).kind = "get"
      /\ phase = [phase EXCEPT ![r] = "evaluating"]
      /\ v \notin Handles
      /\ Target(r) \in Values
      /\ Target(r) \in Handles => Target(r) \in DOMAIN bound
  BY <1>1, GettingFacts
<1>3. SoundOperation(Performed(r, Target(r), v))
  BY <1>1, <1>2 DEF SoundOperation, Performed, IsFunction
<1>4. Perform(r, Target(r), Target(r), v) /\ UNCHANGED <<regVars, programVars, cacheVars, from, ref>>
      /\ phase' = [phase EXCEPT ![r] = "evaluating"]
  BY <1>1, <1>2 DEF GetDone
<1>5. PICK self \in Values : self = Target(r)
  BY <1>2
<1> QED
  BY <1>2, <1>3, <1>4, <1>5, UncachedStep

LEMMA GetCachedStep ==
    ASSUME EvaluationSound, NEW r \in Requests, GetCached(r)
    PROVE  EvaluationSound'
<1>1. PICK v \in Values, h \in Cached(r) :
        Getting(r, v) /\ GetDone(r, h) /\ Target(r) \notin Primitives /\ UNCHANGED cacheVars
  BY DEF GetCached
<1>2. /\ phase[r] = "evaluating" /\ rest[r] # <<>> /\ Head(rest[r]).kind = "get"
      /\ phase = [phase EXCEPT ![r] = "evaluating"]
      /\ Target(r) \in Values
      /\ Target(r) \in Handles => Target(r) \in DOMAIN bound
  BY <1>1, GettingFacts
<1>3. Entry(r) \in DOMAIN boundMethodCache /\ h = boundMethodCache[Entry(r)]
  BY <1>1 DEF Cached
<1>4. /\ h \in Handles /\ h \in DOMAIN bound /\ bound[h].self = Target(r)
      /\ h \in Values /\ h \notin Methods
  <2>1. TypeOK /\ CacheInverse
    BY DEF EvaluationSound
  <2> QED
    BY <1>3, <2>1, ObjectsAssumption DEF TypeOK, CacheInverse, Entry, Values, Bindable
<1>5. SoundOperation(Performed(r, Target(r), h))
  BY <1>2, <1>4 DEF SoundOperation, Performed
<1>6. Perform(r, Target(r), Target(r), h) /\ UNCHANGED <<regVars, programVars, cacheVars, from, ref>>
      /\ phase' = [phase EXCEPT ![r] = "evaluating"]
  BY <1>1, <1>2 DEF GetDone
<1>7. PICK self \in Values : self = Target(r)
  BY <1>2
<1> QED
  BY <1>2, <1>4, <1>5, <1>6, <1>7, UncachedStep

LEMMA CallReturnsStep ==
    ASSUME EvaluationSound, NEW r \in Requests, NEW v \in Values, CallReturns(r, v)
    PROVE  EvaluationSound'
<1>1. SharedOK /\ RequestOK(r) /\ TypeOK
  BY ByRequest DEF SharedOK
<1>2. /\ phase[r] = "running" /\ rest[r] # <<>> /\ Head(rest[r]).kind = "apply"
      /\ IsFunction(Target(r))
  BY <1>1 DEF CallReturns, RequestOK, StackOK
<1>3. Target(r) \in Handles => Target(r) \in DOMAIN bound
  BY <1>2, TargetFacts
<1>4. PICK self \in Values : self = SelfOf(Target(r))
  BY <1>1, <1>3, RootAssumption, ObjectsAssumption DEF SelfOf, TypeOK, Values, Bindable
<1>5. v \notin Handles
  <2>1. CodeOf(Target(r)) \in Methods
    BY <1>1, <1>2, <1>3 DEF CodeOf, TypeOK, IsFunction
  <2> QED
    BY <2>1, ProgramAssumption DEF CallReturns
<1>6. SoundOperation(Performed(r, self, v))
  BY <1>2, <1>3, <1>4, <1>5 DEF SoundOperation, Performed
<1> QED
  BY <1>2, <1>4, <1>6, UncachedStep DEF CallReturns

LEMMA ConstructStep ==
    ASSUME EvaluationSound, NEW r \in Requests, NEW o \in Things, Construct(r, o)
    PROVE  EvaluationSound'
<1>1. TypeOK
  BY DEF EvaluationSound
<1>2. /\ phase[r] = "evaluating" /\ rest[r] # <<>> /\ Head(rest[r]).kind = "construct"
      /\ phase' = [phase EXCEPT ![r] = "evaluating"]
  BY <1>1 DEF Construct, Evaluating, TypeOK
<1>3. o \in Values /\ o \notin Handles
  BY ObjectsAssumption DEF Values, Bindable
<1>4. Target(r) \in Handles => Target(r) \in DOMAIN bound
  BY <1>2, TargetFacts
<1>5. SoundOperation(Performed(r, o, o))
  BY <1>2, <1>3, <1>4 DEF SoundOperation, Performed
<1> QED
  BY <1>2, <1>3, <1>5, UncachedStep DEF Construct

(* A function is bound: the entry is new in the cache. *)
LEMMA GetBoundStep ==
    ASSUME EvaluationSound, NEW r \in Requests, GetBound(r)
    PROVE  EvaluationSound'
<1>1. PICK v \in Values, h \in Handles \ DOMAIN bound :
        /\ Getting(r, v) /\ IsFunction(v) /\ Target(r) \notin Primitives /\ Cached(r) = {}
        /\ bound' = Put(bound, h, [method |-> v, self |-> Target(r), key |-> Head(rest[r]).key])
        /\ boundMethodCache' = Put(boundMethodCache, Entry(r), h)
        /\ GetDone(r, h)
  BY DEF GetBound
<1>2. /\ phase[r] = "evaluating" /\ rest[r] # <<>> /\ Head(rest[r]).kind = "get"
      /\ phase = [phase EXCEPT ![r] = "evaluating"]
      /\ Head(rest[r]).key \in Keys
      /\ v \in Methods /\ Target(r) \in Bindable
      /\ v = props[Target(r)][Head(rest[r]).key]
      /\ Target(r) \in Values
      /\ Target(r) \in Handles => Target(r) \in DOMAIN bound
  BY <1>1, GettingFacts
<1>3. PICK self \in Bindable, k \in Keys, e \in Bindable \X Keys :
        self = Target(r) /\ k = Head(rest[r]).key /\ e = <<self, k>> /\ e = Entry(r)
  BY <1>2 DEF Entry
<1>4. e \notin DOMAIN boundMethodCache
  BY <1>1, <1>3 DEF Cached
<1>5. TypeOK /\ CacheInverse
  BY DEF EvaluationSound
<1>6. /\ bound' = [x \in DOMAIN bound' |-> bound'[x]]
      /\ DOMAIN bound' = DOMAIN bound \cup {h}
      /\ bound'[h] = [method |-> v, self |-> self, key |-> k]
      /\ \A x \in DOMAIN bound : bound'[x] = bound[x]
  BY <1>1, <1>3 DEF Put
<1>7. /\ boundMethodCache' = [x \in DOMAIN boundMethodCache' |-> boundMethodCache'[x]]
      /\ DOMAIN boundMethodCache' = DOMAIN boundMethodCache \cup {e}
      /\ boundMethodCache'[e] = h
      /\ \A x \in DOMAIN boundMethodCache : boundMethodCache'[x] = boundMethodCache[x]
  BY <1>1, <1>3, <1>4 DEF Put
<1>8. props' = props /\ overwritten' = overwritten /\ phase' = phase
      /\ UNCHANGED <<regVars, programVars, from, ref>> /\ Perform(r, Target(r), Target(r), h)
  BY <1>1 DEF GetDone, programVars
<1>9. BoundGrows
  BY <1>6 DEF BoundGrows
<1>10. CacheTypeOK'
  <2>1. DOMAIN boundMethodCache' \subseteq Bindable \X Keys
        /\ boundMethodCache' \in [DOMAIN boundMethodCache' -> Handles]
    BY <1>5, <1>7 DEF TypeOK
  <2>2. DOMAIN bound' \subseteq Handles
        /\ bound' \in [DOMAIN bound' -> [method : Methods, self : Bindable, key : Keys]]
    BY <1>2, <1>5, <1>6 DEF TypeOK
  <2> QED
    BY <2>1, <2>2 DEF CacheTypeOK
<1>11. CacheInverse'
  <2>1. ASSUME NEW x \in DOMAIN boundMethodCache'
        PROVE  LET y == boundMethodCache'[x] IN
               /\ y \in DOMAIN bound'
               /\ bound'[y].self = x[1] /\ bound'[y].key = x[2]
               /\ x \in overwritten' \/ bound'[y].method = props'[x[1]][x[2]]
    <3>1. CASE x = e
      BY <1>2, <1>3, <1>6, <1>7, <1>8, <3>1
    <3>2. CASE x \in DOMAIN boundMethodCache
      BY <1>5, <1>6, <1>7, <1>8, <3>2 DEF CacheInverse
    <3> QED
      BY <1>7, <3>1, <3>2
  <2>2. ASSUME NEW y \in DOMAIN bound'
        PROVE  /\ <<bound'[y].self, bound'[y].key>> \in DOMAIN boundMethodCache'
               /\ boundMethodCache'[<<bound'[y].self, bound'[y].key>>] = y
    <3>1. CASE y = h
      BY <1>3, <1>6, <1>7, <3>1
    <3>2. CASE y \in DOMAIN bound
      BY <1>5, <1>6, <1>7, <3>2 DEF CacheInverse
    <3> QED
      BY <1>6, <3>1, <3>2
  <2> QED
    BY <2>1, <2>2 DEF CacheInverse
<1>12. PICK op : op = Performed(r, self, h)
  OBVIOUS
<1>13. SoundOperation(op)'
  <2>1. op.kind = "get" /\ op.target = self /\ op.result = h
    BY <1>2, <1>3, <1>12 DEF Performed
  <2>2. self \notin Handles /\ h \notin Methods
    BY ObjectsAssumption DEF Bindable
  <2> QED
    BY <1>6, <2>1, <2>2 DEF SoundOperation
<1>14. self \in Values /\ h \in Values
  BY ObjectsAssumption DEF Bindable, Values
<1>15. Perform(r, Target(r), self, h)
  BY <1>3, <1>8
<1>16. phase' = [phase EXCEPT ![r] = "evaluating"]
  BY <1>2, <1>8
<1> QED
  BY <1>2, <1>8, <1>9, <1>10, <1>11, <1>12, <1>13, <1>14, <1>15, <1>16, PerformStep

-----------------------------------------------------------------------------

(* A step that changes none of what a request is made of, for r's part.    *)
LEMMA SameOperations ==
    ASSUME EvaluationSound, NEW r \in Requests,
           UNCHANGED <<cacheVars, from, done>>
    PROVE  OperationsOK(r)' /\ FollowedOK(r)' /\ Result(r)' = Result(r)
<1>1. RequestOK(r)
  BY ByRequest
<1>2. bound' = bound /\ from' = from /\ done' = done
  BY DEF cacheVars
<1>3. Result(r)' = Result(r) /\ \A i : Previous(r, i)' = Previous(r, i)
  BY <1>2 DEF Result, Origin, Previous
<1> QED
  BY <1>1, <1>2, <1>3 DEF RequestOK, OperationsOK, SoundOperation, FollowedOK, SelfOf, IsFunction

(* The result is registered: the reply's id is one more retain for it.     *)
LEMMA ReplyReferenceStep ==
    ASSUME EvaluationSound, NEW r \in Requests, ReplyReference(r)
    PROVE  EvaluationSound'
<1>1. SharedOK /\ RequestOK(r) /\ TypeOK /\ TablesAgree
  BY ByRequest DEF SharedOK
<1>2. PICK v \in Objects : Returning(r, v) /\ Register(v)
                           /\ ref' = [ref EXCEPT ![r] = RegisteredId(v)]
                           /\ phase' = [phase EXCEPT ![r] = "answered"]
                           /\ UNCHANGED <<programVars, cacheVars, from, rest, stack, done>>
  BY DEF ReplyReference
<1>3. PICK id : id = RegisteredId(v)
  OBVIOUS
<1>4. TablesAgree'
  BY <1>1, <1>2, RegisterAgrees
<1>5. /\ id \in Ids /\ id \in DOMAIN map' /\ map'[id] = v
      /\ \A x \in Ids : CountOf(x)' = IF x = id THEN CountOf(x) + 1 ELSE CountOf(x)
      /\ \A x \in DOMAIN map : x \in DOMAIN map' /\ map'[x] = map[x]
      /\ \A x \in DOMAIN map' \ DOMAIN map : x = lastId + 1
  BY <1>1, <1>2, <1>3, RegisterEffect
<1>6. lastId \in Nat /\ lastId' \in Nat /\ lastId <= lastId' /\ id <= lastId'
  <2>1. lastId \in Nat /\ lastId' \in Nat
    BY <1>1, <1>4, BoundsAssumption DEF TablesAgree, RegistryTypeOK
  <2>2. lastId' = lastId \/ lastId' = lastId + 1
    BY <1>2 DEF Register, RegisterAgain, RegisterNew
  <2> QED
    BY <1>4, <1>5, <2>1, <2>2 DEF TablesAgree, IdsDrawn
<1>7. IdsKept
  BY <1>5, <1>6 DEF IdsKept
<1>8. /\ phase[r] = "evaluating" /\ rest[r] = <<>> /\ stack[r] # <<>> /\ v = Last(stack[r])
      /\ done[r] # <<>> /\ v = Result(r) /\ ref[r] = None
  <2>1. phase[r] = "evaluating" /\ rest[r] = <<>> /\ stack[r] # <<>> /\ v = Last(stack[r])
    BY <1>2 DEF Returning
  <2>2. StackOK(r) /\ RefOK(r)
    BY <1>1 DEF RequestOK
  <2>3. done[r] # <<>> /\ stack[r] = <<Result(r)>> /\ ref[r] = None
    BY <2>1, <2>2 DEF StackOK, RefOK, Holding
  <2> QED
    BY <2>1, <2>3 DEF Last
<1>9. /\ phase'[r] = "answered" /\ ref'[r] = id
      /\ \A p \in Requests \ {r} : SameRequest(p)
      /\ phase' \in [Requests -> Phases] /\ ref' \in [Requests -> Ids \cup {None}]
      /\ bound' = bound /\ boundMethodCache' = boundMethodCache
      /\ props' = props /\ overwritten' = overwritten
      /\ from' = from /\ rest' = rest /\ stack' = stack /\ done' = done
  BY <1>1, <1>2, <1>3, <1>5 DEF TypeOK, SameRequest, Phases, cacheVars, programVars
<1>10. CountsExact'
  <2>1. r \notin Holders(id)
    BY <1>8 DEF Holders, Holding
  <2>2. Holders(id)' = Holders(id) \cup {r}
    BY <1>9 DEF Holders, Holding, SameRequest
  <2>3. \A x \in Ids \ {id} : Holders(x)' = Holders(x)
    BY <1>8, <1>9 DEF Holders, Holding, SameRequest
  <2>4. Cardinality(Holders(id) \cup {r}) = Cardinality(Holders(id)) + 1
    BY <2>1, HoldersFinite, FS_AddElement
  <2>5. \A x \in Ids : CountOf(x) = Cardinality(Holders(x))
    BY <1>1 DEF SharedOK, CountsExact
  <2>6. \A x \in Ids : CountOf(x)' = Cardinality(Holders(x)')
    BY <1>5, <2>2, <2>3, <2>4, <2>5
  <2> QED
    BY <2>6 DEF CountsExact, Ids
<1>11. SharedOK'
  <2>1. RegistryTypeOK'
    BY <1>4 DEF TablesAgree
  <2>2. TypeOK'
    BY <1>1, <1>9, <2>1 DEF TypeOK, Ids
  <2>3. CacheInverse'
    BY <1>1, <1>9 DEF SharedOK, CacheInverse
  <2> QED
    BY <1>4, <1>10, <2>2, <2>3 DEF SharedOK
<1>12. OperationsOK(r)' /\ FollowedOK(r)' /\ Result(r)' = Result(r)
  BY <1>2, SameOperations
<1>13. RefOK(r)'
  BY <1>5, <1>6, <1>8, <1>9, <1>12, NoneAssumption DEF RefOK, Holding, IsRegistered, Lookup, Ids
<1>14. CursorOK(r)'
  <2>1. CursorOK(r) /\ from[r] \in Requests \cup {None}
    BY <1>1 DEF RequestOK, TypeOK
  <2> QED
    BY <1>8, <1>9, <2>1 DEF CursorOK, SameRequest
<1>15. RequestOK(r)'
  BY <1>9, <1>12, <1>13, <1>14 DEF RequestOK, StackOK
<1>16. BoundGrows /\ SettledKept(r)
  BY <1>8, <1>9 DEF BoundGrows, SettledKept
<1>17. \A p \in Requests \ {r} : phase[p] \in Holding => ref[p] \in DOMAIN map'
  BY <1>5, HeldIsRegistered
<1> QED
  BY <1>7, <1>9, <1>11, <1>15, <1>16, <1>17, StepOf

(* One retain less; an id that others hold stays registered.               *)
LEMMA ReleaseStep ==
    ASSUME EvaluationSound, NEW r \in Requests, Release(r)
    PROVE  EvaluationSound'
<1>1. SharedOK /\ RequestOK(r) /\ TypeOK /\ TablesAgree
  BY ByRequest DEF SharedOK
<1>2. /\ phase[r] = "live" /\ phase' = [phase EXCEPT ![r] = "released"]
      /\ Delete(ref[r])
      /\ UNCHANGED <<programVars, cacheVars, from, rest, stack, done, ref>>
  BY DEF Release
<1>3. ref[r] \in DOMAIN map /\ ref[r] \in Ids
  BY <1>2, HeldIsRegistered DEF Holding
<1>4. PICK id \in Ids : id = ref[r] /\ id \in DOMAIN map
  BY <1>3
<1>5. TablesAgree'
  BY <1>1, <1>2, <1>4, DeleteAgrees
<1>6. /\ \A x \in Ids : CountOf(x)' = IF x = id THEN CountOf(x) - 1 ELSE CountOf(x)
      /\ \A x \in DOMAIN map : CountOf(x) > 1 \/ x # id => x \in DOMAIN map'
      /\ \A x \in DOMAIN map' : x \in DOMAIN map /\ map'[x] = map[x]
  BY <1>1, <1>2, <1>4, DeleteEffect
<1>7. lastId' = lastId /\ lastId \in Nat
  BY <1>1, <1>2, BoundsAssumption
  DEF Delete, DeleteRetain, DeleteEntry, TablesAgree, RegistryTypeOK
<1>8. IdsKept
  BY <1>6, <1>7 DEF IdsKept
<1>9. /\ phase'[r] = "released"
      /\ \A p \in Requests \ {r} : SameRequest(p)
      /\ phase' \in [Requests -> Phases]
      /\ bound' = bound /\ boundMethodCache' = boundMethodCache
      /\ props' = props /\ overwritten' = overwritten
      /\ from' = from /\ rest' = rest /\ stack' = stack /\ done' = done /\ ref' = ref
  BY <1>1, <1>2 DEF TypeOK, SameRequest, Phases, Ended, cacheVars, programVars
<1>10. CountsExact'
  <2>1. r \in Holders(id)
    BY <1>2, <1>4 DEF Holders, Holding
  <2>2. Holders(id)' = Holders(id) \ {r}
    BY <1>9 DEF Holders, Holding, SameRequest
  <2>3. \A x \in Ids \ {id} : Holders(x)' = Holders(x)
    BY <1>4, <1>9 DEF Holders, Holding, SameRequest
  <2>4. Cardinality(Holders(id) \ {r}) = Cardinality(Holders(id)) - 1
    BY <2>1, HoldersFinite, FS_RemoveElement
  <2>5. \A x \in Ids : CountOf(x) = Cardinality(Holders(x))
    BY <1>1 DEF SharedOK, CountsExact
  <2>6. \A x \in Ids : CountOf(x)' = Cardinality(Holders(x)')
    BY <1>6, <2>2, <2>3, <2>4, <2>5
  <2> QED
    BY <2>6 DEF CountsExact, Ids
<1>11. SharedOK'
  <2>1. RegistryTypeOK'
    BY <1>5 DEF TablesAgree
  <2>2. TypeOK'
    BY <1>1, <1>9, <2>1 DEF TypeOK, Ids
  <2>3. CacheInverse'
    BY <1>1, <1>9 DEF SharedOK, CacheInverse
  <2> QED
    BY <1>5, <1>10, <2>2, <2>3 DEF SharedOK
<1>12. OperationsOK(r)' /\ FollowedOK(r)' /\ Result(r)' = Result(r)
  BY <1>2, SameOperations
<1>13. RefOK(r)'
  <2>1. RefOK(r)
    BY <1>1 DEF RequestOK
  <2> QED
    BY <1>2, <1>6, <1>7, <1>9, <1>12, <2>1 DEF RefOK, Holding, IsRegistered, Lookup
<1>14. CursorOK(r)'
  <2>1. CursorOK(r) /\ from[r] \in Requests \cup {None}
    BY <1>1 DEF RequestOK, TypeOK
  <2> QED
    BY <1>2, <1>9, <2>1 DEF CursorOK, SameRequest
<1>15. RequestOK(r)'
  BY <1>9, <1>12, <1>13, <1>14 DEF RequestOK, StackOK
<1>16. BoundGrows /\ SettledKept(r)
  BY <1>9 DEF BoundGrows, SettledKept
<1>17. ASSUME NEW p \in Requests, p # r, phase[p] \in Holding PROVE ref[p] \in DOMAIN map'
  <2>1. ref[p] \in DOMAIN map /\ ref[p] \in Ids
    BY <1>17, HeldIsRegistered
  <2>2. CASE ref[p] = id
    <3>1. p \in Holders(id) /\ r \in Holders(id)
      BY <1>2, <1>4, <1>17, <2>2 DEF Holders, Holding
    <3>2. Cardinality(Holders(id)) > 1
      BY <1>17, <3>1, HoldersFinite, AtLeastTwo
    <3>3. CountOf(id) = Cardinality(Holders(id))
      BY <1>1, <1>4 DEF SharedOK, CountsExact
    <3> QED
      BY <1>6, <2>1, <2>2, <3>2, <3>3
  <2>3. CASE ref[p] # id
    BY <1>6, <2>1, <2>3
  <2> QED
    BY <2>2, <2>3
<1> QED
  BY <1>8, <1>9, <1>11, <1>15, <1>16, <1>17, StepOf

(* Steps of the program, and steps of others.                              *)
LEMMA SameRequests ==
    ASSUME EvaluationSound, UNCHANGED <<regVars, cacheVars, requestVars>>
    PROVE  /\ \A q \in Requests : RequestOK(q)'
           /\ TablesAgree' /\ RegistryTypeOK' /\ CountsExact'
<1>1. SharedOK
  BY ByRequest
<1>2. /\ phase' = phase /\ from' = from /\ rest' = rest /\ stack' = stack
      /\ done' = done /\ ref' = ref
      /\ bound' = bound /\ boundMethodCache' = boundMethodCache
  BY DEF cacheVars, requestVars
<1>3. /\ TablesAgree' /\ RegistryTypeOK' /\ map' = map /\ lastId' = lastId
      /\ \A id : CountOf(id)' = CountOf(id)
  BY SameRegistry
<1>4. ASSUME NEW q \in Requests PROVE RequestOK(q)'
  <2>1. RequestOK(q)
    BY ByRequest
  <2>2. OperationsOK(q)' /\ FollowedOK(q)' /\ Result(q)' = Result(q)
    BY <1>2, SameOperations DEF cacheVars
  <2>3. Origin(q)' = Origin(q) /\ Target(q)' = Target(q)
    BY <1>2 DEF Origin, Result, Target
  <2>4. StackOK(q)'
    BY <1>2, <2>1, <2>2, <2>3 DEF RequestOK, StackOK, IsFunction
  <2>5. \A ops : CursorOn(from[q], ops)' = CursorOn(from[q], ops)
    BY <1>2 DEF CursorOn, Reference
  <2>6. CursorOK(q)'
    BY <1>2, <2>1, <2>5 DEF RequestOK, CursorOK
  <2>7. RefOK(q)'
    BY <1>2, <1>3, <2>1, <2>2 DEF RequestOK, RefOK, IsRegistered, Lookup
  <2> QED
    BY <2>2, <2>4, <2>6, <2>7 DEF RequestOK
<1>5. CountsExact'
  <2>1. \A id : Holders(id)' = Holders(id)
    BY <1>2 DEF Holders
  <2> QED
    BY <1>1, <1>3, <2>1 DEF SharedOK, CountsExact, Ids
<1> QED
  BY <1>3, <1>4, <1>5

LEMMA AssignStep ==
    ASSUME EvaluationSound, NEW a \in Assignments, Assign(a[1], a[2], a[3])
    PROVE  EvaluationSound'
<1>1. TypeOK /\ CacheInverse
  BY DEF EvaluationSound
<1>2. a[1] \in Bindable /\ a[2] \in Keys /\ a[3] \in Values \ Handles
  BY ProgramAssumption
<1>3. /\ props' = [props EXCEPT ![a[1]][a[2]] = a[3]]
      /\ overwritten' = IF <<a[1], a[2]>> \in DOMAIN boundMethodCache
                        THEN overwritten \cup {<<a[1], a[2]>>} ELSE overwritten
      /\ UNCHANGED <<regVars, cacheVars, requestVars>>
  BY DEF Assign
<1>4. /\ \A q \in Requests : RequestOK(q)'
      /\ TablesAgree' /\ RegistryTypeOK' /\ CountsExact'
  BY <1>3, SameRequests
<1>5. props' \in [Bindable -> [Keys -> Values \ Handles]]
  BY <1>1, <1>2, <1>3 DEF TypeOK
<1>6. TypeOK'
  BY <1>1, <1>2, <1>3, <1>4, <1>5 DEF TypeOK, requestVars, cacheVars, regVars, Ids
<1>7. bound' = bound /\ boundMethodCache' = boundMethodCache
  BY <1>3 DEF cacheVars
<1>8. CacheInverse'
  <2>1. ASSUME NEW e \in DOMAIN boundMethodCache
        PROVE  e \in overwritten' \/ bound[boundMethodCache[e]].method = props'[e[1]][e[2]]
    <3>1. e \in Bindable \X Keys
      BY <1>1 DEF TypeOK
    <3>2. PICK t \in Bindable, k \in Keys : e = <<t, k>>
      BY <3>1
    <3>3. CASE t = a[1] /\ k = a[2]
      BY <1>3, <3>2, <3>3
    <3>4. CASE t # a[1] \/ k # a[2]
      <4>1. props'[t][k] = props[t][k]
        BY <1>1, <1>2, <1>3, <3>2, <3>4 DEF TypeOK
      <4>2. e \in overwritten => e \in overwritten'
        BY <1>3
      <4> QED
        BY <1>1, <3>2, <4>1, <4>2 DEF CacheInverse
    <3> QED
      BY <3>3, <3>4
  <2> QED
    BY <1>1, <1>7, <2>1 DEF CacheInverse
<1> QED
  BY <1>4, <1>6, <1>8, ByRequestNext DEF SharedOK

LEMMA StutterStep ==
    ASSUME EvaluationSound, UNCHANGED vars
    PROVE  EvaluationSound'
<1>1. SharedOK
  BY ByRequest
<1>2. /\ \A q \in Requests : RequestOK(q)'
      /\ TablesAgree' /\ RegistryTypeOK' /\ CountsExact'
  BY SameRequests DEF vars
<1>3. TypeOK' /\ CacheInverse'
  BY <1>1, <1>2 DEF SharedOK, TypeOK, CacheInverse, vars, programVars, cacheVars, requestVars, Ids
<1> QED
  BY <1>2, <1>3, ByRequestNext DEF SharedOK

LEMMA InitSound == Init => EvaluationSound
<1> SUFFICES ASSUME Init PROVE EvaluationSound
  OBVIOUS
<1>1. TablesAgree
  BY InitAgrees DEF Init
<1>2. TypeOK
  <2>1. RegistryTypeOK
    BY <1>1 DEF TablesAgree
  <2> QED
    BY <2>1, ProgramAssumption DEF Init, TypeOK, Phases, NoEntries
<1>3. CacheInverse
  BY DEF Init, CacheInverse, NoEntries
<1>4. CountsExact
  <2>1. \A id : Holders(id) = {} /\ CountOf(id) = 0
    BY DEF Init, RegistryInit, NoEntries, Holders, Holding, CountOf
  <2> QED
    BY <2>1, FS_EmptySet DEF CountsExact
<1>5. ASSUME NEW r \in Requests PROVE RequestOK(r)
  <2>1. phase[r] = "unused" /\ from[r] = None /\ done[r] = <<>> /\ ref[r] = None
    BY DEF Init
  <2> QED
    BY <2>1 DEF RequestOK, StackOK, CursorOK, RefOK, OperationsOK, FollowedOK, Holding
<1> QED
  BY <1>1, <1>2, <1>3, <1>4, <1>5, ByRequest DEF SharedOK

LEMMA StepSound == EvaluationSound /\ [Next]_vars => EvaluationSound'
<1> SUFFICES ASSUME EvaluationSound, Next \/ UNCHANGED vars PROVE EvaluationSound'
  OBVIOUS
<1>1. ASSUME NEW r \in Requests, NEW q \in Requests \cup {None}, NEW ops \in Chains,
             Await(r, q, ops)
      PROVE  EvaluationSound'
  BY <1>1, AwaitStep
<1>2. ASSUME NEW r \in Requests, Evaluate(r) PROVE EvaluationSound'
  BY <1>2, BeginStep, GetValueStep, GetCachedStep, GetBoundStep, CallStep, CallReturnsStep,
     ConstructStep, ReplyErrorStep, ReplyReferenceStep, ReplyPrimitiveStep DEF Evaluate
<1>3. ASSUME NEW r \in Requests, Receive(r) \/ Release(r) PROVE EvaluationSound'
  BY <1>3, ReceiveStep, ReleaseStep
<1>4. ASSUME NEW a \in Assignments, Assign(a[1], a[2], a[3]) PROVE EvaluationSound'
  BY <1>4, AssignStep
<1> QED
  BY <1>1, <1>2, <1>3, <1>4, StutterStep DEF Next

(* In every reachable state the stacks, the cursors, the cache and the     *)
(* registry owe each other what EvaluationSound says.                      *)
THEOREM Sound == Spec => []EvaluationSound
BY InitSound, StepSound, PTL DEF Spec

(* A chain of traps means what it says: each operation works on the result *)
(* of the one before, unless that is undefined, whatever else the exporter *)
(* executes in between (exported.ts:302-311).                              *)
THEOREM ChainsMean == Spec => []ChainsFollowed
<1>1. EvaluationSound => ChainsFollowed
  BY DEF EvaluationSound
<1> QED
  BY <1>1, Sound, PTL

(* A method that is read from an object and then called runs on it.        *)
THEOREM MethodsKeepTheirObject == Spec => []MethodsRunOnTheirObject
<1>1. EvaluationSound => MethodsRunOnTheirObject
  <2> SUFFICES ASSUME EvaluationSound, NEW r \in Requests, NEW i \in CallsOfMethods(r),
                      done[r][i - 1].target \notin Primitives
               PROVE  done[r][i].self = done[r][i - 1].target
    BY DEF MethodsRunOnTheirObject
  <2>1. done[r] \in Seq(Records)
    BY DEF EvaluationSound, TypeOK
  <2>2. /\ i \in DOMAIN done[r] /\ i - 1 \in DOMAIN done[r] /\ i # 1
        /\ done[r][i].kind = "apply" /\ done[r][i - 1].kind = "get"
        /\ IsFunction(done[r][i - 1].result)
    BY <2>1 DEF CallsOfMethods
  <2>3. RequestOK(r)
    BY ByRequest
  <2>4. SoundOperation(done[r][i]) /\ SoundOperation(done[r][i - 1])
    BY <2>2, <2>3 DEF RequestOK, OperationsOK
  <2>5. done[r][i - 1].result # Undefined
    BY <2>2, ObjectsAssumption DEF IsFunction
  <2>6. done[r][i].target = done[r][i - 1].result
    BY <2>2, <2>3, <2>5 DEF RequestOK, FollowedOK, Previous
  <2>7. done[r][i - 1].result \in Handles
    BY <2>2, <2>4 DEF SoundOperation, IsFunction
  <2> QED
    BY <2>2, <2>4, <2>6, <2>7 DEF SoundOperation, SelfOf
<1> QED
  BY <1>1, Sound, PTL

(* Two proxies for the same method of the same object hold the same id.    *)
THEOREM Deduplicated == Spec => []MethodsDeduplicated
<1>1. EvaluationSound => MethodsDeduplicated
  <2> SUFFICES ASSUME EvaluationSound, NEW q \in Requests, NEW r \in Requests,
                      phase[q] \in Holding, phase[r] \in Holding,
                      Result(q) \in Handles, Result(r) \in Handles,
                      bound[Result(q)].self = bound[Result(r)].self,
                      bound[Result(q)].key = bound[Result(r)].key
               PROVE  ref[q] = ref[r]
    BY DEF MethodsDeduplicated
  <2>1. CacheInverse /\ TablesAgree /\ OneRetainPerProxy
    BY DEF EvaluationSound
  <2>2. ASSUME NEW p \in Requests, phase[p] \in Holding, Result(p) \in Handles
        PROVE  /\ Result(p) \in DOMAIN bound
               /\ ref[p] \in DOMAIN map /\ map[ref[p]] = Result(p)
    <3>1. RequestOK(p) /\ done[p] \in Seq(Records)
      BY ByRequest DEF EvaluationSound, TypeOK
    <3>2. done[p] # <<>>
      BY <2>2, <3>1, HeldIsRegistered, NoneAssumption DEF RequestOK, RefOK
    <3>3. Len(done[p]) \in DOMAIN done[p]
      BY <3>1, <3>2
    <3>4. SoundOperation(done[p][Len(done[p])])
      BY <3>1, <3>3 DEF RequestOK, OperationsOK
    <3> QED
      BY <2>1, <2>2, <3>4 DEF SoundOperation, Result, Last, OneRetainPerProxy, IsRegistered, Lookup
  <2>3. Result(q) = Result(r)
    <3>1. \A h \in DOMAIN bound : boundMethodCache[<<bound[h].self, bound[h].key>>] = h
      BY <2>1 DEF CacheInverse
    <3>2. Result(q) \in DOMAIN bound /\ Result(r) \in DOMAIN bound
      BY <2>2
    <3> HIDE DEF Result
    <3> QED
      BY <3>1, <3>2
  <2> QED
    BY <2>1, <2>2, <2>3 DEF TablesAgree, TablesInverse
<1> QED
  BY <1>1, Sound, PTL

(* Each await that ends in a proxy has taken one retain.                   *)
THEOREM OneRetainEach == Spec => []OneRetainPerProxy
<1>1. EvaluationSound => OneRetainPerProxy
  BY DEF EvaluationSound
<1> QED
  BY <1>1, Sound, PTL

LEMMA PerformLengthens ==
    ASSUME TypeOK, NEW r \in Requests, NEW t, NEW self, NEW v, Perform(r, t, self, v),
           NEW q \in Requests, Len(done'[q]) > Len(done[q])
    PROVE  /\ q = r
           /\ Last(done'[q]).kind = Head(rest[r]).kind /\ Last(done'[q]).key = Head(rest[r]).key
           /\ Last(done'[q]).target = t /\ Last(done'[q]).result = v
<1> DEFINE op == [kind |-> Head(rest[r]).kind, key |-> Head(rest[r]).key,
                  target |-> t, self |-> self, result |-> v]
<1>1. done' = [done EXCEPT ![r] = Append(done[r], op)]
  BY DEF Perform
<1>2. q # r => done'[q] = done[q]
  BY <1>1 DEF TypeOK
<1>3. done[q] \in Seq(Records) /\ Len(done[q]) \in Nat
  BY DEF TypeOK
<1>4. q = r
  BY <1>2, <1>3
<1>5. done'[q] = Append(done[q], op)
  BY <1>1, <1>4 DEF TypeOK
<1> HIDE DEF op
<1>6. \A s \in Seq(Records) : Last(Append(s, op)) = op
  BY DEF Last
<1>7. Last(done'[q]) = op
  BY <1>3, <1>5, <1>6
<1> QED
  BY <1>4, <1>7 DEF op

(* A get returns the function that the property has at that moment, unless *)
(* it was assigned after it had been cached.                               *)
THEOREM Current == Spec => ReadsCurrent
<1> DEFINE Reads(r) ==
      Len(done'[r]) > Len(done[r]) =>
        LET op == Last(done'[r]) IN
        op.kind = "get" /\ op.result \in Handles =>
          \/ bound'[op.result].method = props[op.target][op.key]
          \/ <<op.target, op.key>> \in overwritten
<1>1. ASSUME EvaluationSound, [Next]_vars PROVE \A q \in Requests : Reads(q)
  <2> SUFFICES ASSUME NEW q \in Requests, Len(done'[q]) > Len(done[q]),
                      Last(done'[q]).kind = "get", Last(done'[q]).result \in Handles
               PROVE  LET op == Last(done'[q]) IN
                      \/ bound'[op.result].method = props[op.target][op.key]
                      \/ <<op.target, op.key>> \in overwritten
    OBVIOUS
  <2>1. TypeOK /\ CacheInverse /\ Len(done[q]) \in Nat
    BY <1>1 DEF EvaluationSound, TypeOK
  <2>2. done' # done
    BY <2>1
  <2>3. PICK r \in Requests :
          \/ GetValue(r) \/ GetUnbound(r) \/ GetCached(r) \/ GetBound(r)
          \/ (\E v \in Values : CallReturns(r, v)) \/ (\E o \in Things : Construct(r, o))
    BY <1>1, <2>2
    DEF Next, Evaluate, Await, Begin, Call, ReplyError, ReplyReference, ReplyPrimitive,
        Receive, Release, Assign, vars, requestVars
  <2>4. CASE GetValue(r) \/ GetUnbound(r)
    <3>1. PICK v \in Values : Getting(r, v) /\ GetDone(r, v)
      BY <2>4 DEF GetValue, GetUnbound
    <3>2. Last(done'[q]).result = v
      BY <2>1, <3>1, PerformLengthens DEF GetDone
    <3> QED
      BY <1>1, <3>1, <3>2, GettingFacts
  <2>5. CASE GetCached(r)
    <3>1. PICK v \in Values, h \in Cached(r) :
            Getting(r, v) /\ GetDone(r, h) /\ UNCHANGED cacheVars
      BY <2>5 DEF GetCached
    <3>2. /\ Last(done'[q]).result = h /\ Last(done'[q]).target = Target(r)
          /\ Last(done'[q]).key = Head(rest[r]).key
      BY <2>1, <3>1, PerformLengthens DEF GetDone
    <3>3. Entry(r) \in DOMAIN boundMethodCache /\ h = boundMethodCache[Entry(r)]
      BY <3>1 DEF Cached
    <3> QED
      BY <2>1, <3>1, <3>2, <3>3 DEF CacheInverse, Entry, cacheVars
  <2>6. CASE GetBound(r)
    <3>1. PICK v \in Values, h \in Handles \ DOMAIN bound :
            /\ Getting(r, v) /\ IsFunction(v) /\ Target(r) \notin Primitives
            /\ bound' = Put(bound, h, [method |-> v, self |-> Target(r), key |-> Head(rest[r]).key])
            /\ GetDone(r, h)
      BY <2>6 DEF GetBound
    <3>2. /\ Last(done'[q]).result = h /\ Last(done'[q]).target = Target(r)
          /\ Last(done'[q]).key = Head(rest[r]).key
      BY <2>1, <3>1, PerformLengthens DEF GetDone
    <3>3. v = props[Target(r)][Head(rest[r]).key]
      BY <1>1, <3>1, GettingFacts
    <3> QED
      BY <3>1, <3>2, <3>3 DEF Put
  <2>7. CASE \E v \in Values : CallReturns(r, v)
    <3>1. PICK v \in Values : CallReturns(r, v)
      BY <2>7
    <3>2. Last(done'[q]).kind = Head(rest[r]).kind
      BY <2>1, <3>1, PerformLengthens DEF CallReturns
    <3>3. RequestOK(r)
      BY <1>1, ByRequest
    <3> QED
      BY <3>1, <3>2, <3>3 DEF RequestOK, StackOK, CallReturns
  <2>8. CASE \E o \in Things : Construct(r, o)
    <3>1. PICK o \in Things : Construct(r, o)
      BY <2>8
    <3>2. Last(done'[q]).kind = Head(rest[r]).kind
      BY <2>1, <3>1, PerformLengthens DEF Construct
    <3> QED
      BY <3>1, <3>2 DEF Construct, Evaluating
  <2> QED
    BY <2>3, <2>4, <2>5, <2>6, <2>7, <2>8
<1> DEFINE AllRead == \A r \in Requests : Reads(r)
<1>2. EvaluationSound /\ [Next]_vars => [AllRead]_vars
  BY <1>1
<1> QED
  BY <1>2, Sound, PTL DEF Spec, ReadsCurrent

(* Evaluating chains uses the registry as its contract asks: a step is at  *)
(* most one register or delete, so with it the registry still is a ledger  *)
(* of retains, and an id names one object or bound method for good.        *)
THEOREM RegistryKept == Spec => KeepsLedger /\ IdsNeverRebound
<1>1. Init => RegistryInit
  BY DEF Init
<1>2. EvaluationSound /\ [Next]_vars => [RegistryNext]_regVars
  <2> SUFFICES ASSUME EvaluationSound, Next, regVars' # regVars
               PROVE  RegistryNext
    BY DEF vars
  <2>1. CASE \E r \in Requests : ReplyReference(r)
    BY <2>1 DEF ReplyReference, RegistryNext
  <2>2. CASE \E r \in Requests : Release(r)
    <3>1. PICK r \in Requests : Release(r)
      BY <2>2
    <3>2. Delete(ref[r]) /\ phase[r] = "live"
      BY <3>1 DEF Release
    <3>3. ref[r] \in Ids
      BY <3>2 DEF EvaluationSound, RefsFromReplies, TypeOK, Holding
    <3> QED
      BY <3>2, <3>3 DEF RegistryNext
  <2> QED
    BY <2>1, <2>2 DEF Next, Await, Evaluate, Begin, GetValue, GetUnbound, GetCached, GetBound,
                      GetDone, Call, CallReturns, Construct, ReplyError, ReplyPrimitive,
                      Receive, Assign
<1>3. Spec => RegistrySpec
  BY <1>1, <1>2, Sound, PTL DEF Spec, RegistrySpec
<1> QED
  BY <1>3, ImplementsLedger, NeverRebound
=============================================================================

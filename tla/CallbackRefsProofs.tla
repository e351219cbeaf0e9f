------------------------- MODULE CallbackRefsProofs -------------------------
(***************************************************************************)
(* CallbacksSound holds for any number of cursors, stubs, calls and        *)
(* objects: the references that go from the importer to the exporter mean  *)
(* what was handed over, and their retains are counted.                    *)
(*                                                                         *)
(* A step does two things at most, and each has its lemmas: it registers a *)
(* value or handles a release (what the registry and the sources owe each  *)
(* other, SourcesSound), and it moves a call (what calls owe their stubs,  *)
(* CallsSound).  The arguments of calls and the registry of the exporter,  *)
(* ArgsSound, are touched by two steps only; what is proved of registries  *)
(* is cited for the exporter's through ArgRegistry.                        *)
(***************************************************************************)
EXTENDS CallbackRefs, ObjectRegistryProofs, FiniteSetTheorems

ArgRegistry == INSTANCE ObjectRegistryProofs WITH
    Objects <- Arguments,
    map <- argMap, counts <- argCounts, weakMap <- argWeakMap, lastId <- argLastId

(* The part of the invariant about the registry and its sources. *)
SourcesSound ==
    /\ TablesAgree
    /\ given \in [Sources -> Objects \cup {None}]
    /\ id \in [Sources -> Ids \cup {None}]
    /\ stub \in [Stubs -> Cursors \cup {None}]
    /\ freed \subseteq Stubs
    /\ RetainsExact
    /\ IdsMean
    /\ \A s \in Stubs : stub[s] # None => id[Source("argument", stub[s])] # None
    /\ \A s \in freed : stub[s] # None

(* What no step takes back: an id that was given, the stubs made, an id    *)
(* that was freed.                                                         *)
Lasting ==
    /\ \A x \in Sources : id[x] # None => id'[x] = id[x] /\ given'[x] = given[x]
    /\ \A s \in Stubs : stub[s] # None => stub'[s] = stub[s]
    /\ \A i \in Ids : i <= lastId /\ ~IsRegistered(i) => ~IsRegistered(i)'

(* The part about calls. *)
CallsSound ==
    /\ phase \in [Calls -> Phases]
    /\ op \in [Calls -> {"apply", "get"}]
    /\ onStub \in [Calls -> Stubs \cup {None}]
    /\ arg \in [Calls -> Arguments \cup {None}]
    /\ ran \in [Calls -> [fn : Functions, self : Callbacks \cup {None}] \cup {None}]
    /\ \A k \in Calls : phase[k] # "unused" => onStub[k] # None /\ stub[onStub[k]] # None
    /\ \A k \in Calls : phase[k] = "unused" <=> arg[k] = None
    /\ \A k \in Calls : phase[k] \in {"unused", "sent"} =>
         /\ ran[k] = None
         /\ id[Source("property", k)] = None /\ id[Source("result", k)] = None
    /\ \A k \in Calls : phase[k] = "running" =>
         ran[k] # None /\ id[Source("result", k)] = None
    /\ CallsReachTheirCallback
    /\ \A k \in Calls : phase[k] = "missed" => ~IsRegistered(IdOf(k))

(* The part about their arguments. *)
ArgsSound ==
    /\ Exporter!TablesAgree
    /\ argId \in [Calls -> Ids \cup {None}]
    /\ returned \subseteq Calls
    /\ \A k \in Calls : argId[k] = None <=> arg[k] = None
    /\ \A k \in returned : ran[k] # None
    /\ ArgumentsExact

LEMMA ThreeParts == CallbacksSound <=> SourcesSound /\ CallsSound /\ ArgsSound
BY DEF CallbacksSound, SourcesSound, CallsSound, ArgsSound, TypeOK, TablesAgree, Made

-----------------------------------------------------------------------------

(* Sources are named apart, one for each trap, property read and result.   *)
LEMMA SourceNames ==
    /\ \A c \in Cursors : Source("argument", c) \in Sources
    /\ \A k \in Calls : Source("property", k) \in Sources /\ Source("result", k) \in Sources
    /\ \A c, d : Source("argument", c) = Source("argument", d) => c = d
    /\ \A c, d : Source("property", c) = Source("property", d) => c = d
    /\ \A c, d : Source("result", c) = Source("result", d) => c = d
    /\ \A c, d : Source("argument", c) # Source("property", d)
    /\ \A c, d : Source("argument", c) # Source("result", d)
    /\ \A c, d : Source("property", c) # Source("result", d)
    /\ \A c : Source("argument", c).of = "argument"
    /\ \A c : Source("property", c).of = "property" /\ Source("result", c).of = "result"
BY DEF Source, Sources

LEMMA NamesDiffer == None \notin Ids /\ None \notin Nat /\ None \notin Objects /\ None \notin Cursors
BY NamesAssumption DEF Ids

(* The sources are finitely many: pairs of a word and a name. *)
LEMMA SourcesFinite == IsFiniteSet(Sources)
<1> DEFINE Words == {"argument", "property", "result"}
           Names == Cursors \cup Calls
           Pairs == Words \X Names
           Pair(x) == <<x.of, x.by>>
<1>1. IsFiniteSet(Words) /\ IsFiniteSet(Names) /\ IsFiniteSet(Pairs)
  <2>1. IsFiniteSet({"argument"} \cup {"property"} \cup {"result"})
    BY FS_Singleton, FS_Union
  <2>2. Words = {"argument"} \cup {"property"} \cup {"result"}
    OBVIOUS
  <2>3. IsFiniteSet(Words)
    BY <2>1, <2>2
  <2>4. IsFiniteSet(Names)
    BY NamesAssumption, FS_Union
  <2> QED
    BY <2>3, <2>4, FS_Product
<1> HIDE DEF Words, Names
<1> DEFINE F == [p \in Pairs |-> [of |-> p[1], by |-> p[2]]]
<1>2. Sources \subseteq Range(F)
  <2> SUFFICES ASSUME NEW x \in Sources PROVE \E p \in Pairs : F[p] = x
    BY DEF Range
  <2>1. x.of \in Words /\ x.by \in Names /\ x = [of |-> x.of, by |-> x.by]
    BY DEF Sources, Words, Names
  <2>2. <<x.of, x.by>> \in Pairs
    BY <2>1
  <2>3. F[<<x.of, x.by>>] = x
    BY <2>1, <2>2
  <2> QED
    BY <2>2, <2>3
<1>3. IsFiniteSet(Range(F))
  <2>1. F \in Surjection(Pairs, Range(F))
    BY DEF Surjection, Range
  <2> QED
    BY <1>1, <2>1, FS_Surjection
<1> QED
  BY <1>2, <1>3, FS_Subset

LEMMA CountsAreNumbers ==
    ASSUME SourcesSound, NEW i
    PROVE  /\ IsFiniteSet(Retainers(i)) /\ Cardinality(Retainers(i)) \in Nat
           /\ IsFiniteSet(Releases(i)) /\ Cardinality(Releases(i)) \in Nat
<1>1. IsFiniteSet(Retainers(i))
  BY SourcesFinite, FS_Subset DEF Retainers
<1>2. IsFiniteSet(Releases(i))
  BY NamesAssumption, FS_Subset DEF Releases, SourcesSound
<1> QED
  BY <1>1, <1>2, FS_CardinalityType

-----------------------------------------------------------------------------
(* What the registry and the sources owe each other. *)

(* A source that registers its value takes one more retain on one id.      *)
LEMMA CreateValueStep ==
    ASSUME SourcesSound, NEW x \in Sources, NEW o \in Objects,
           id[x] = None, x.of = "argument" => o \in Callbacks,
           CreateValue(x, o), UNCHANGED stubVars
    PROVE  SourcesSound' /\ Lasting
<1> USE DEF SourcesSound
<1> DEFINE i == RegisteredId(o)
<1>1. /\ i \in Ids /\ i \in DOMAIN map' /\ map'[i] = o
      /\ \A y \in DOMAIN map : y \in DOMAIN map' /\ map'[y] = map[y]
      /\ \A y \in DOMAIN map' \ DOMAIN map : y = lastId + 1 /\ y = i
      /\ \A y \in Ids : CountOf(y)' = IF y = i THEN CountOf(y) + 1 ELSE CountOf(y)
  BY RegisterEffect DEF CreateValue
<1>2. TablesAgree'
  BY RegisterAgrees DEF CreateValue
<1>3. lastId \in Nat /\ lastId' \in Nat /\ lastId <= lastId' /\ i <= lastId'
  <2>1. lastId \in Nat /\ lastId' \in Nat
    BY <1>2, BoundsAssumption DEF TablesAgree, RegistryTypeOK
  <2>2. lastId <= lastId'
    BY <2>1 DEF CreateValue, Register, RegisterAgain, RegisterNew
  <2>3. i <= lastId'
    BY <1>1, <1>2 DEF TablesAgree, IdsDrawn
  <2> QED
    BY <2>1, <2>2, <2>3
<1>4. given' = [given EXCEPT ![x] = o] /\ id' = [id EXCEPT ![x] = i]
  BY DEF CreateValue
<1>5. stub' = stub /\ freed' = freed
  BY DEF stubVars
<1> HIDE DEF i
<1>6. /\ given' \in [Sources -> Objects \cup {None}]
      /\ id' \in [Sources -> Ids \cup {None}]
      /\ stub' \in [Stubs -> Cursors \cup {None}]
      /\ freed' \subseteq Stubs
  BY <1>1, <1>4, <1>5
<1>7. Lasting
  <2>1. \A y \in Sources : id[y] # None => id'[y] = id[y] /\ given'[y] = given[y]
    BY <1>4
  <2>2. ASSUME NEW y \in Ids, y <= lastId, y \notin DOMAIN map PROVE y \notin DOMAIN map'
    <3>1. y \in Nat /\ y # lastId + 1
      BY <2>2, <1>3 DEF Ids
    <3> QED
      BY <3>1, <2>2, <1>1
  <2> QED
    BY <2>1, <2>2, <1>5 DEF Lasting, IsRegistered
<1>8. RetainsExact'
  <2> SUFFICES ASSUME NEW y \in Ids
               PROVE  CountOf(y)' =
                        IF Cardinality(Retainers(y)') > Cardinality(Releases(y)')
                        THEN Cardinality(Retainers(y)') - Cardinality(Releases(y)') ELSE 0
    BY DEF RetainsExact, Ids
  <2>1. Releases(y)' = Releases(y)
    BY <1>4, <1>5, SourceNames, NamesDiffer DEF Releases
  <2>2. CASE y = i
    <3>1. Retainers(y)' = Retainers(y) \cup {x} /\ x \notin Retainers(y)
      BY <2>2, <1>4, NamesDiffer DEF Retainers
    <3>2. Cardinality(Retainers(y) \cup {x}) = Cardinality(Retainers(y)) + 1
      BY <3>1, CountsAreNumbers, FS_AddElement
    <3>3. CountOf(y)' = CountOf(y) + 1
      BY <1>1, <2>2
    <3>4. Cardinality(Releases(y)) <= Cardinality(Retainers(y))
      <4>1. CASE y \in DOMAIN map
        <5>1. CountOf(y) >= 1 /\ CountOf(y) \in Nat
          BY <4>1 DEF CountOf, TablesAgree, EntriesRetained, RegistryTypeOK
        <5> QED
          BY <5>1, CountsAreNumbers DEF RetainsExact
      <4>2. CASE y \notin DOMAIN map
        <5>1. y = lastId + 1
          BY <4>2, <2>2, <1>1
        <5>2. Releases(y) = {}
          BY <5>1, <1>3, SourceNames, NamesDiffer DEF Releases, IdsMean, Ids
        <5> QED
          BY <5>2, FS_EmptySet, CountsAreNumbers
      <4> QED
        BY <4>1, <4>2
    <3> QED
      BY <2>1, <2>2, <3>1, <3>2, <3>3, <3>4, CountsAreNumbers DEF RetainsExact
  <2>3. CASE y # i
    <3>1. Retainers(y)' = Retainers(y)
      BY <2>3, <1>4, NamesDiffer DEF Retainers
    <3>2. CountOf(y)' = CountOf(y)
      BY <2>3, <1>1
    <3> QED
      BY <2>1, <3>1, <3>2 DEF RetainsExact
  <2> QED
    BY <2>2, <2>3
<1>9. IdsMean'
  <2> SUFFICES ASSUME NEW y \in Sources, id'[y] # None
               PROVE  /\ id'[y] <= lastId' /\ given'[y] \in Objects
                      /\ id'[y] \in DOMAIN map' => map'[id'[y]] = given'[y]
                      /\ y.of = "argument" => given'[y] \in Callbacks
    BY DEF IdsMean, IsRegistered, Lookup
  <2>1. CASE y = x
    BY <2>1, <1>1, <1>3, <1>4
  <2>2. CASE y # x
    <3>1. /\ id'[y] = id[y] /\ given'[y] = given[y] /\ id[y] \in Ids
          /\ id[y] <= lastId /\ given[y] \in Objects
          /\ id[y] \in DOMAIN map => map[id[y]] = given[y]
          /\ y.of = "argument" => given[y] \in Callbacks
      BY <2>2, <1>4 DEF IdsMean, IsRegistered, Lookup
    <3>2. id[y] <= lastId' /\ id[y] # lastId + 1
      BY <3>1, <1>3 DEF Ids
    <3>3. id[y] \in DOMAIN map' => id[y] \in DOMAIN map
      BY <3>2, <1>1
    <3> QED
      BY <3>1, <3>2, <3>3, <1>1
  <2> QED
    BY <2>1, <2>2
<1>10. /\ \A s \in Stubs : stub'[s] # None => id'[Source("argument", stub'[s])] # None
       /\ \A s \in freed' : stub'[s] # None
  <2>1. \A s \in Stubs : stub[s] # None => Source("argument", stub[s]) \in Sources
    BY SourceNames
  <2> QED
    BY <1>5, <1>7, <2>1 DEF Lasting
<1> QED
  BY <1>2, <1>6, <1>7, <1>8, <1>9, <1>10

(* Nothing happens to a registry that is left alone, whichever stubs are   *)
(* made.                                                                   *)
LEMMA NoValueStep ==
    ASSUME SourcesSound, NoValue, freed' = freed,
           stub' \in [Stubs -> Cursors \cup {None}],
           \A s \in Stubs : stub[s] # None => stub'[s] = stub[s],
           \A s \in Stubs : stub'[s] # None => id[Source("argument", stub'[s])] # None
    PROVE  SourcesSound' /\ Lasting
<1> USE DEF SourcesSound
<1>1. /\ map' = map /\ counts' = counts /\ weakMap' = weakMap /\ lastId' = lastId
      /\ given' = given /\ id' = id
  BY DEF NoValue, regVars, sourceVars
<1>2. TablesAgree'
  BY <1>1 DEF TablesAgree, RegistryTypeOK, TablesInverse, EntriesRetained, IdsDrawn, Ids
<1>3. IdsMean' /\ Lasting
  BY <1>1 DEF IdsMean, Lasting, IsRegistered, Lookup
<1>4. \A i : Retainers(i)' = Retainers(i) /\ Releases(i)' = Releases(i)
  BY <1>1 DEF Retainers, Releases
<1>5. \A i : CountOf(i)' = CountOf(i)
  BY <1>1 DEF CountOf
<1>6. RetainsExact'
  BY <1>4, <1>5 DEF RetainsExact, Ids
<1> QED
  BY <1>1, <1>2, <1>3, <1>6

(* A release takes one retain off the id of its stub, if there is any.     *)
LEMMA PeerReleaseStep ==
    ASSUME SourcesSound, NEW s \in Stubs, PeerRelease(s)
    PROVE  SourcesSound' /\ Lasting
<1> USE DEF SourcesSound
<1> DEFINE i == id[Source("argument", stub[s])]
<1>1. /\ stub[s] # None /\ s \notin freed /\ freed' = freed \cup {s}
      /\ given' = given /\ id' = id /\ stub' = stub
      /\ Delete(i)
  BY DEF PeerRelease, sourceVars
<1>2. i \in Ids
  BY <1>1, SourceNames
<1>3. TablesAgree'
  BY <1>1, <1>2, DeleteAgrees
<1>4. lastId' = lastId
  BY <1>1 DEF Delete, DeleteRetain, DeleteEntry
<1>5. /\ \A y \in DOMAIN map' : y \in DOMAIN map /\ map'[y] = map[y]
      /\ \A y \in Ids : CountOf(y) \in Nat
      /\ \A y \in Ids : CountOf(y)' =
           IF y = i /\ CountOf(y) > 0 THEN CountOf(y) - 1 ELSE CountOf(y)
  <2>0. \A y \in Ids : CountOf(y) \in Nat /\ (CountOf(y) > 0 <=> y \in DOMAIN map)
    BY DEF CountOf, TablesAgree, RegistryTypeOK, EntriesRetained
  <2>1. CASE i \in DOMAIN map
    BY <2>1, <2>0, <1>1, DeleteEffect
  <2>2. CASE i \notin DOMAIN map
    <3>1. UNCHANGED regVars
      BY <2>2, <1>1, <1>2, DeleteUnknown
    <3>2. map' = map /\ counts' = counts
      BY <3>1 DEF regVars
    <3>3. \A y : CountOf(y)' = CountOf(y)
      BY <3>2 DEF CountOf
    <3> QED
      BY <3>2, <3>3, <2>0, <2>2
  <2> QED
    BY <2>1, <2>2
<1> HIDE DEF i
<1>6. IdsMean' /\ Lasting
  BY <1>1, <1>4, <1>5 DEF IdsMean, Lasting, IsRegistered, Lookup
<1>7. RetainsExact'
  <2> SUFFICES ASSUME NEW y \in Ids
               PROVE  CountOf(y)' =
                        IF Cardinality(Retainers(y)') > Cardinality(Releases(y)')
                        THEN Cardinality(Retainers(y)') - Cardinality(Releases(y)') ELSE 0
    BY DEF RetainsExact, Ids
  <2>1. Retainers(y)' = Retainers(y)
    BY <1>1 DEF Retainers
  <2>2. CountOf(y) = IF Cardinality(Retainers(y)) > Cardinality(Releases(y))
                     THEN Cardinality(Retainers(y)) - Cardinality(Releases(y)) ELSE 0
    BY DEF RetainsExact
  <2>3. CASE y = i
    <3>1. Releases(y)' = Releases(y) \cup {s} /\ s \notin Releases(y)
      BY <2>3, <1>1 DEF Releases, i
    <3>2. Cardinality(Releases(y) \cup {s}) = Cardinality(Releases(y)) + 1
      BY <3>1, CountsAreNumbers, FS_AddElement
    <3>3. CountOf(y)' = IF CountOf(y) > 0 THEN CountOf(y) - 1 ELSE CountOf(y)
      BY <1>5, <2>3
    <3> QED
      BY <2>1, <2>2, <3>1, <3>2, <3>3, CountsAreNumbers
  <2>4. CASE y # i
    <3>1. Releases(y)' = Releases(y)
      BY <2>4, <1>1 DEF Releases, i
    <3>2. CountOf(y)' = CountOf(y)
      BY <2>4, <1>5
    <3> QED
      BY <2>1, <2>2, <3>1, <3>2
  <2> QED
    BY <2>3, <2>4
<1> QED
  BY <1>1, <1>3, <1>6, <1>7

-----------------------------------------------------------------------------
(* What calls owe their stubs. *)

(* What a call is for does not change while it is under way.               *)
LEMMA SameCall ==
    ASSUME SourcesSound, CallsSound, Lasting, UNCHANGED <<op, onStub>>,
           NEW d \in Calls, phase[d] # "unused"
    PROVE  /\ IdOf(d)' = IdOf(d) /\ IdOf(d) \in Ids /\ IdOf(d) <= lastId
           /\ Handed(d) \in Callbacks
           /\ IsRegistered(IdOf(d)) => Lookup(IdOf(d)) = Handed(d)
           /\ Callee(d)' = Callee(d) /\ Self(d)' = Self(d)
           /\ ~IsRegistered(IdOf(d)) => ~IsRegistered(IdOf(d))'
<1> DEFINE s == onStub[d]
           x == Source("argument", stub[s])
<1>1. s \in Stubs /\ stub[s] # None /\ stub[s] \in Cursors
  BY DEF CallsSound, SourcesSound
<1>2. /\ x \in Sources /\ id[x] # None /\ id[x] \in Ids
      /\ id[x] <= lastId /\ given[x] \in Callbacks
      /\ IsRegistered(id[x]) => Lookup(id[x]) = given[x]
  BY <1>1, SourceNames DEF SourcesSound, IdsMean
<1>3. /\ onStub'[d] = s /\ stub'[s] = stub[s] /\ op'[d] = op[d]
      /\ id'[x] = id[x] /\ given'[x] = given[x]
  BY <1>1, <1>2 DEF Lasting
<1>4. IdOf(d) = id[x] /\ IdOf(d)' = id[x] /\ Handed(d) = given[x] /\ Handed(d)' = given[x]
  BY <1>3 DEF IdOf, Handed
<1>5. Callee(d)' = Callee(d) /\ Self(d)' = Self(d)
  BY <1>3, <1>4 DEF Callee, Self
<1>6. ~IsRegistered(IdOf(d)) => ~IsRegistered(IdOf(d))'
  <2>1. id[x] \notin DOMAIN map => id[x] \notin DOMAIN map'
    BY <1>2 DEF Lasting, IsRegistered
  <2> QED
    BY <2>1, <1>4 DEF IsRegistered
<1> QED
  BY <1>2, <1>4, <1>5, <1>6

(* A call moves on, and the others stay.                                   *)
LEMMA MoveCall ==
    ASSUME SourcesSound, CallsSound, Lasting,
           NEW k \in Calls, NEW to \in {"running", "answered", "failed", "missed"},
           NEW r \in [fn : Functions, self : Callbacks \cup {None}] \cup {None},
           phase[k] \in {"sent", "running"},
           phase' = [phase EXCEPT ![k] = to],
           ran' = [ran EXCEPT ![k] = r],
           phase[k] = "running" => r = ran[k],
           UNCHANGED <<op, onStub, arg>>,
           \A d \in Calls : d # k =>
               /\ id'[Source("property", d)] = id[Source("property", d)]
               /\ id'[Source("result", d)] = id[Source("result", d)],
           to = "running" => r # None /\ id'[Source("result", k)] = None,
           r # None => r = [fn |-> Callee(k), self |-> Self(k)],
           to = "answered" => (r # None <=> Callee(k) \in Functions),
           to = "missed" => ~IsRegistered(IdOf(k))
    PROVE  CallsSound'
<1> USE DEF CallsSound
<1>1. op' = op /\ onStub' = onStub /\ arg' = arg
  OBVIOUS
<1>2. \A d \in Calls : d # k => phase'[d] = phase[d] /\ ran'[d] = ran[d]
  OBVIOUS
<1>3. phase'[k] = to /\ ran'[k] = r /\ phase[k] # "unused" /\ to # "unused" /\ to # "sent"
  OBVIOUS
<1>4. /\ phase' \in [Calls -> Phases]
      /\ ran' \in [Calls -> [fn : Functions, self : Callbacks \cup {None}] \cup {None}]
  BY DEF Phases
<1>5. \A d \in Calls : phase'[d] # "unused" => onStub'[d] # None /\ stub'[onStub'[d]] # None
  BY <1>1, <1>2, <1>3 DEF Lasting
<1>6. /\ \A d \in Calls : phase'[d] = "unused" <=> arg'[d] = None
      /\ \A d \in Calls : phase'[d] \in {"unused", "sent"} =>
           /\ ran'[d] = None
           /\ id'[Source("property", d)] = None /\ id'[Source("result", d)] = None
      /\ \A d \in Calls : phase'[d] = "running" =>
           ran'[d] # None /\ id'[Source("result", d)] = None
  BY <1>1, <1>2, <1>3
<1>7. CallsReachTheirCallback'
  <2> SUFFICES ASSUME NEW d \in Calls
               PROVE  /\ ran'[d] # None => ran'[d] = [fn |-> Callee(d)', self |-> Self(d)']
                      /\ phase'[d] = "answered" =>
                           (ran'[d] # None <=> Callee(d)' \in Functions)
    BY DEF CallsReachTheirCallback
  <2>1. CASE d = k
    <3>1. Callee(d)' = Callee(d) /\ Self(d)' = Self(d)
      BY <1>1, <1>3, <2>1, SameCall
    <3> QED
      BY <3>1, <2>1, <1>3
  <2>2. CASE d # k /\ phase[d] = "unused"
    BY <2>2, <1>2
  <2>3. CASE d # k /\ phase[d] # "unused"
    <3>1. Callee(d)' = Callee(d) /\ Self(d)' = Self(d)
      BY <1>1, <2>3, SameCall
    <3> QED
      BY <3>1, <2>3, <1>2 DEF CallsReachTheirCallback
  <2> QED
    BY <2>1, <2>2, <2>3
<1>8. \A d \in Calls : phase'[d] = "missed" => ~IsRegistered(IdOf(d))'
  <2> SUFFICES ASSUME NEW d \in Calls, phase'[d] = "missed" PROVE ~IsRegistered(IdOf(d))'
    OBVIOUS
  <2>1. phase[d] # "unused" /\ ~IsRegistered(IdOf(d))
    BY <1>2, <1>3
  <2> QED
    BY <2>1, <1>1, SameCall
<1> QED
  BY <1>1, <1>4, <1>5, <1>6, <1>7, <1>8

(* Calls do not notice what the registry does for others.                  *)
LEMMA LeaveCalls ==
    ASSUME SourcesSound, CallsSound, Lasting, UNCHANGED callVars,
           \A d \in Calls :
               /\ id'[Source("property", d)] = id[Source("property", d)]
               /\ id'[Source("result", d)] = id[Source("result", d)]
    PROVE  CallsSound'
<1> USE DEF CallsSound
<1>1. phase' = phase /\ op' = op /\ onStub' = onStub /\ arg' = arg /\ ran' = ran
  BY DEF callVars
<1>2. \A d \in Calls : phase[d] # "unused" => stub'[onStub[d]] # None
  BY DEF Lasting
<1>3. CallsReachTheirCallback'
  <2> SUFFICES ASSUME NEW d \in Calls
               PROVE  /\ ran[d] # None => ran[d] = [fn |-> Callee(d)', self |-> Self(d)']
                      /\ phase[d] = "answered" =>
                           (ran[d] # None <=> Callee(d)' \in Functions)
    BY <1>1 DEF CallsReachTheirCallback
  <2>1. CASE phase[d] = "unused"
    BY <2>1
  <2>2. CASE phase[d] # "unused"
    <3>1. Callee(d)' = Callee(d) /\ Self(d)' = Self(d)
      BY <1>1, <2>2, SameCall
    <3> QED
      BY <3>1 DEF CallsReachTheirCallback
  <2> QED
    BY <2>1, <2>2
<1>4. \A d \in Calls : phase[d] = "missed" => ~IsRegistered(IdOf(d))'
  BY <1>1, SameCall
<1> QED
  BY <1>1, <1>2, <1>3, <1>4

(* A new call of a stub. *)
LEMMA CallStubStep ==
    ASSUME SourcesSound, CallsSound, Lasting,
           NEW k \in Calls, NEW s \in Stubs, NEW o \in {"apply", "get"}, NEW a \in Arguments,
           CallStub(k, s, o, a)
    PROVE  CallsSound'
<1> USE DEF CallsSound
<1>1. /\ phase[k] = "unused" /\ phase' = [phase EXCEPT ![k] = "sent"]
      /\ op' = [op EXCEPT ![k] = o] /\ onStub' = [onStub EXCEPT ![k] = s]
      /\ arg' = [arg EXCEPT ![k] = a]
      /\ stub[s] # None /\ a # None /\ s # None
      /\ map' = map /\ given' = given /\ id' = id /\ stub' = stub
      /\ ran' = ran
  BY NamesAssumption DEF CallStub, Advance, regVars, sourceVars, stubVars
<1>2. \A d \in Calls : d # k => /\ phase'[d] = phase[d] /\ op'[d] = op[d] /\ arg'[d] = arg[d]
                               /\ onStub'[d] = onStub[d]
  BY <1>1
<1>3. phase'[k] = "sent" /\ op'[k] = o /\ arg'[k] = a /\ onStub'[k] = s
      /\ ran[k] = None
  BY <1>1
<1>4. /\ phase' \in [Calls -> Phases] /\ op' \in [Calls -> {"apply", "get"}]
      /\ onStub' \in [Calls -> Stubs \cup {None}]
      /\ arg' \in [Calls -> Arguments \cup {None}]
  BY <1>1 DEF Phases
<1>5. \A d \in Calls : d # k /\ phase[d] # "unused" =>
        /\ IdOf(d)' = IdOf(d) /\ Callee(d)' = Callee(d) /\ Self(d)' = Self(d)
  BY <1>1, <1>2 DEF IdOf, Callee, Self, Handed
<1>6. CallsReachTheirCallback'
  <2> SUFFICES ASSUME NEW d \in Calls
               PROVE  /\ ran[d] # None => ran[d] = [fn |-> Callee(d)', self |-> Self(d)']
                      /\ phase'[d] = "answered" =>
                           (ran[d] # None <=> Callee(d)' \in Functions)
    BY <1>1 DEF CallsReachTheirCallback
  <2>1. CASE d = k \/ phase[d] = "unused"
    BY <2>1, <1>2, <1>3
  <2>2. CASE d # k /\ phase[d] # "unused"
    BY <2>2, <1>2, <1>5 DEF CallsReachTheirCallback
  <2> QED
    BY <2>1, <2>2
<1>7. \A d \in Calls : phase'[d] = "missed" => ~IsRegistered(IdOf(d))'
  <2> SUFFICES ASSUME NEW d \in Calls, phase'[d] = "missed" PROVE ~IsRegistered(IdOf(d))'
    OBVIOUS
  <2>1. d # k /\ phase[d] = "missed" /\ IdOf(d)' = IdOf(d)
    BY <1>2, <1>3, <1>5
  <2> QED
    BY <2>1, <1>1 DEF IsRegistered
<1>8. /\ \A d \in Calls : phase'[d] # "unused" => onStub'[d] # None /\ stub'[onStub'[d]] # None
      /\ \A d \in Calls : phase'[d] = "unused" <=> arg'[d] = None
      /\ \A d \in Calls : phase'[d] \in {"unused", "sent"} =>
           /\ ran'[d] = None
           /\ id'[Source("property", d)] = None /\ id'[Source("result", d)] = None
      /\ \A d \in Calls : phase'[d] = "running" =>
           ran'[d] # None /\ id'[Source("result", d)] = None
  BY <1>1, <1>2, <1>3
<1> QED
  BY <1>1, <1>4, <1>6, <1>7, <1>8

-----------------------------------------------------------------------------
(* The arguments of calls, in the registry of the exporter. *)

(* The exporter's registry is a registry like the other.                   *)
LEMMA SameTables == ArgRegistry!TablesAgree <=> Exporter!TablesAgree
BY DEF ArgRegistry!TablesAgree, Exporter!TablesAgree,
       ArgRegistry!RegistryTypeOK, Exporter!RegistryTypeOK,
       ArgRegistry!TablesInverse, Exporter!TablesInverse,
       ArgRegistry!EntriesRetained, Exporter!EntriesRetained,
       ArgRegistry!IdsDrawn, Exporter!IdsDrawn, ArgRegistry!Ids, Exporter!Ids

(* And so are its operations, whichever instance names them.               *)
LEMMA SameRegistry ==
    /\ ArgRegistry!TablesAgree <=> Exporter!TablesAgree
    /\ ArgRegistry!RegistryInit <=> Exporter!RegistryInit
    /\ \A a : ArgRegistry!Register(a) <=> Exporter!Register(a)
    /\ \A i : ArgRegistry!Delete(i) <=> Exporter!Delete(i)
    /\ \A a : ArgRegistry!RegisteredId(a) = Exporter!RegisteredId(a)
    /\ \A i : ArgRegistry!CountOf(i) = Exporter!CountOf(i)
    /\ ArgRegistry!Ids = Ids /\ Exporter!Ids = Ids
<1>1. ArgRegistry!TablesAgree <=> Exporter!TablesAgree
  BY SameTables
<1>2. ArgRegistry!RegistryInit <=> Exporter!RegistryInit
  BY DEF ArgRegistry!RegistryInit, Exporter!RegistryInit,
         ArgRegistry!NoEntries, Exporter!NoEntries
<1>3. \A a : ArgRegistry!Register(a) <=> Exporter!Register(a)
  BY DEF ArgRegistry!Register, Exporter!Register,
         ArgRegistry!RegisterAgain, Exporter!RegisterAgain,
         ArgRegistry!RegisterNew, Exporter!RegisterNew,
         ArgRegistry!Put, Exporter!Put, ArgRegistry!CountOf, Exporter!CountOf
<1>4. \A i : ArgRegistry!Delete(i) <=> Exporter!Delete(i)
  BY DEF ArgRegistry!Delete, Exporter!Delete,
         ArgRegistry!DeleteRetain, Exporter!DeleteRetain,
         ArgRegistry!DeleteEntry, Exporter!DeleteEntry,
         ArgRegistry!Drop, Exporter!Drop, ArgRegistry!Restrict, Exporter!Restrict,
         ArgRegistry!CountOf, Exporter!CountOf
<1>5. \A a : ArgRegistry!RegisteredId(a) = Exporter!RegisteredId(a)
  BY DEF ArgRegistry!RegisteredId, Exporter!RegisteredId
<1>6. \A i : ArgRegistry!CountOf(i) = Exporter!CountOf(i)
  BY DEF ArgRegistry!CountOf, Exporter!CountOf
<1>7. ArgRegistry!Ids = Ids /\ Exporter!Ids = Ids
  BY DEF ArgRegistry!Ids, Exporter!Ids, Ids
<1> QED
  BY <1>1, <1>2, <1>3, <1>4, <1>5, <1>6, <1>7

(* What registering an argument does.                                      *)
LEMMA ArgumentRegistered ==
    ASSUME Exporter!TablesAgree, NEW a \in Arguments, Exporter!Register(a)
    PROVE  /\ Exporter!TablesAgree'
           /\ Exporter!RegisteredId(a) \in Ids
           /\ Exporter!RegisteredId(a) \in DOMAIN argMap'
           /\ argMap'[Exporter!RegisteredId(a)] = a
           /\ \A x \in DOMAIN argMap : x \in DOMAIN argMap' /\ argMap'[x] = argMap[x]
           /\ \A x \in Ids : Exporter!CountOf(x)' =
                IF x = Exporter!RegisteredId(a) THEN Exporter!CountOf(x) + 1
                ELSE Exporter!CountOf(x)
<1>1. ArgRegistry!TablesAgree /\ ArgRegistry!Register(a)
  BY SameRegistry
<1>2. ArgRegistry!TablesAgree'
  BY <1>1, ArgRegistry!RegisterAgrees, BoundsAssumption DEF ArgRegistry!RegisterAgrees
<1>3. /\ ArgRegistry!RegisteredId(a) \in ArgRegistry!Ids
      /\ ArgRegistry!RegisteredId(a) \in DOMAIN argMap'
      /\ argMap'[ArgRegistry!RegisteredId(a)] = a
      /\ \A x \in DOMAIN argMap : x \in DOMAIN argMap' /\ argMap'[x] = argMap[x]
      /\ \A x \in ArgRegistry!Ids : ArgRegistry!CountOf(x)' =
           IF x = ArgRegistry!RegisteredId(a) THEN ArgRegistry!CountOf(x) + 1
           ELSE ArgRegistry!CountOf(x)
  BY <1>1, ArgRegistry!RegisterEffect, BoundsAssumption DEF ArgRegistry!RegisterEffect
<1>4. Exporter!TablesAgree'
  BY <1>2, SameTables, PTL
<1>5. \A x : ArgRegistry!CountOf(x)' = Exporter!CountOf(x)'
  BY DEF ArgRegistry!CountOf, Exporter!CountOf
<1> QED
  BY <1>3, <1>4, <1>5, SameRegistry

(* What the release of a registered argument does.                         *)
LEMMA ArgumentReleased ==
    ASSUME Exporter!TablesAgree, NEW i \in DOMAIN argMap, Exporter!Delete(i)
    PROVE  /\ Exporter!TablesAgree'
           /\ \A x \in Ids : Exporter!CountOf(x)' =
                IF x = i THEN Exporter!CountOf(x) - 1 ELSE Exporter!CountOf(x)
           /\ \A x \in DOMAIN argMap :
                Exporter!CountOf(x) > 1 \/ x # i => x \in DOMAIN argMap'
           /\ \A x \in DOMAIN argMap' : argMap'[x] = argMap[x]
<1>1. ArgRegistry!TablesAgree /\ ArgRegistry!Delete(i) /\ i \in ArgRegistry!Ids
  BY SameRegistry DEF ArgRegistry!TablesAgree, ArgRegistry!RegistryTypeOK
<1>2. ArgRegistry!TablesAgree'
  BY <1>1, ArgRegistry!DeleteAgrees, BoundsAssumption DEF ArgRegistry!DeleteAgrees
<1>3. /\ \A x \in ArgRegistry!Ids : ArgRegistry!CountOf(x)' =
           IF x = i THEN ArgRegistry!CountOf(x) - 1 ELSE ArgRegistry!CountOf(x)
      /\ \A x \in DOMAIN argMap :
           ArgRegistry!CountOf(x) > 1 \/ x # i => x \in DOMAIN argMap'
      /\ \A x \in DOMAIN argMap' : argMap'[x] = argMap[x]
  BY <1>1, ArgRegistry!DeleteEffect, BoundsAssumption DEF ArgRegistry!DeleteEffect
<1>4. Exporter!TablesAgree'
  BY <1>2, SameTables, PTL
<1>5. \A x : ArgRegistry!CountOf(x)' = Exporter!CountOf(x)'
  BY DEF ArgRegistry!CountOf, Exporter!CountOf
<1> QED
  BY <1>3, <1>4, <1>5, SameRegistry

(* The calls that were sent with an id and have not given it back.         *)
UnderId(i) == {k \in Unreturned : argId[k] = i}

(* They are finitely many.                                                 *)
LEMMA UnderIdFinite ==
    ASSUME NEW i
    PROVE  IsFiniteSet(UnderId(i)) /\ Cardinality(UnderId(i)) \in Nat
<1>1. UnderId(i) \subseteq Calls
  BY DEF UnderId, Unreturned
<1> QED
  BY <1>1, NamesAssumption, FS_Subset, FS_CardinalityType

(* Arguments do not notice how their calls move.                           *)
LEMMA LeaveArgs ==
    ASSUME ArgsSound, UNCHANGED <<arg, argVars>>, \A k \in Calls : ran[k] # None => ran'[k] # None
    PROVE  ArgsSound'
<1> USE DEF ArgsSound
<1>1. /\ argMap' = argMap /\ argCounts' = argCounts /\ argWeakMap' = argWeakMap
      /\ argLastId' = argLastId /\ argId' = argId /\ returned' = returned /\ arg' = arg
  BY DEF argVars, exporterVars
<1>2. Exporter!TablesAgree'
  BY <1>1 DEF Exporter!TablesAgree, Exporter!RegistryTypeOK, Exporter!TablesInverse,
              Exporter!EntriesRetained, Exporter!IdsDrawn, Exporter!Ids
<1>3. ArgumentsExact'
  BY <1>1 DEF ArgumentsExact, Unreturned, Exporter!IsRegistered, Exporter!Lookup,
              Exporter!CountOf, Ids
<1> QED
  BY <1>1, <1>2, <1>3 DEF Ids

(* A new call of a stub: one more retain on the id of its argument.        *)
LEMMA CallStubArgs ==
    ASSUME CallsSound, ArgsSound,
           NEW k \in Calls, NEW s \in Stubs, NEW o \in {"apply", "get"}, NEW a \in Arguments,
           CallStub(k, s, o, a)
    PROVE  ArgsSound'
<1> USE DEF ArgsSound
<1> DEFINE i == Exporter!RegisteredId(a)
<1>1. /\ arg' = [arg EXCEPT ![k] = a] /\ argId' = [argId EXCEPT ![k] = i]
      /\ returned' = returned /\ ran' = ran /\ Exporter!Register(a)
      /\ arg \in [Calls -> Arguments \cup {None}]
      /\ arg[k] = None /\ argId[k] = None /\ ran[k] = None /\ a # None
  BY NamesAssumption DEF CallStub, Advance, CallsSound
<1>2. /\ Exporter!TablesAgree'
      /\ i \in Ids /\ i \in DOMAIN argMap' /\ argMap'[i] = a
      /\ \A x \in DOMAIN argMap : x \in DOMAIN argMap' /\ argMap'[x] = argMap[x]
      /\ \A x \in Ids : Exporter!CountOf(x)' =
           IF x = i THEN Exporter!CountOf(x) + 1 ELSE Exporter!CountOf(x)
  BY <1>1, ArgumentRegistered
<1> HIDE DEF i
<1>3. i # None
  BY <1>2, NamesDiffer
<1>4. Unreturned' = Unreturned \cup {k} /\ k \notin Unreturned /\ k \notin returned
  BY <1>1 DEF Unreturned
<1>5. \A d \in Unreturned' :
        Exporter!IsRegistered(argId[d])' /\ Exporter!Lookup(argId[d])' = arg'[d]
  <2> SUFFICES ASSUME NEW d \in Unreturned'
               PROVE  argId'[d] \in DOMAIN argMap' /\ argMap'[argId'[d]] = arg'[d]
    BY DEF Exporter!IsRegistered, Exporter!Lookup
  <2>1. CASE d = k
    BY <2>1, <1>1, <1>2
  <2>2. CASE d \in Unreturned /\ d # k
    <3>1. argId'[d] = argId[d] /\ arg'[d] = arg[d]
      BY <2>2, <1>1 DEF Unreturned
    <3>2. argId[d] \in DOMAIN argMap /\ argMap[argId[d]] = arg[d]
      BY <2>2 DEF ArgumentsExact, Exporter!IsRegistered, Exporter!Lookup
    <3> QED
      BY <3>1, <3>2, <1>2
  <2> QED
    BY <2>1, <2>2, <1>4
<1>6. \A x \in Ids : Exporter!CountOf(x)' = Cardinality(UnderId(x)')
  <2> SUFFICES ASSUME NEW x \in Ids PROVE Exporter!CountOf(x)' = Cardinality(UnderId(x)')
    OBVIOUS
  <2>1. Exporter!CountOf(x) = Cardinality(UnderId(x))
    BY DEF ArgumentsExact, UnderId
  <2>2. CASE x = i
    <3>1. UnderId(x)' = UnderId(x) \cup {k} /\ k \notin UnderId(x)
      BY <2>2, <1>1, <1>4 DEF UnderId, Unreturned
    <3>2. Cardinality(UnderId(x) \cup {k}) = Cardinality(UnderId(x)) + 1
      BY <3>1, UnderIdFinite, FS_AddElement
    <3> QED
      BY <2>1, <2>2, <3>1, <3>2, <1>2
  <2>3. CASE x # i
    <3>1. UnderId(x)' = UnderId(x)
      BY <2>3, <1>1, <1>4 DEF UnderId, Unreturned
    <3> QED
      BY <2>1, <2>3, <3>1, <1>2
  <2> QED
    BY <2>2, <2>3
<1>7. ArgumentsExact'
  BY <1>5, <1>6 DEF ArgumentsExact, UnderId, Ids
<1>8. /\ argId' \in [Calls -> Ids \cup {None}]
      /\ \A d \in Calls : argId'[d] = None <=> arg'[d] = None
  BY <1>1, <1>2, <1>3
<1> QED
  BY <1>1, <1>2, <1>7, <1>8 DEF Ids

(* A release takes one retain off the id of the argument it is for.        *)
LEMMA FinalizeArgs ==
    ASSUME CallsSound, ArgsSound, NEW k \in Calls, Finalize(k)
    PROVE  ArgsSound'
<1> USE DEF ArgsSound
<1> DEFINE i == argId[k]
<1>1. /\ ran[k] # None /\ k \notin returned /\ returned' = returned \cup {k}
      /\ Exporter!Delete(i)
      /\ arg' = arg /\ ran' = ran /\ argId' = argId
  BY DEF Finalize, callVars
<1>2. arg[k] # None /\ k \in Unreturned
  BY <1>1 DEF CallsSound, Unreturned
<1>3. i \in Ids /\ i \in DOMAIN argMap
  BY <1>2 DEF ArgumentsExact, Exporter!IsRegistered
<1>4. /\ Exporter!TablesAgree'
      /\ \A x \in Ids : Exporter!CountOf(x)' =
           IF x = i THEN Exporter!CountOf(x) - 1 ELSE Exporter!CountOf(x)
      /\ \A x \in DOMAIN argMap : Exporter!CountOf(x) > 1 \/ x # i => x \in DOMAIN argMap'
      /\ \A x \in DOMAIN argMap' : argMap'[x] = argMap[x]
  BY <1>1, <1>3, ArgumentReleased
<1>5. Unreturned' = Unreturned \ {k}
  BY <1>1 DEF Unreturned
<1>6. /\ k \in UnderId(i)
      /\ \A x \in Ids : UnderId(x)' = IF x = i THEN UnderId(i) \ {k} ELSE UnderId(x)
  BY <1>1, <1>2, <1>5 DEF UnderId
<1>7. Cardinality(UnderId(i) \ {k}) = Cardinality(UnderId(i)) - 1
  BY <1>6, UnderIdFinite, FS_RemoveElement
<1>8. \A x \in Ids : Exporter!CountOf(x) = Cardinality(UnderId(x))
  BY DEF ArgumentsExact, UnderId
<1> HIDE DEF i
<1>9. \A x \in Ids : Exporter!CountOf(x)' = Cardinality(UnderId(x)')
  BY <1>4, <1>6, <1>7, <1>8
<1>10. \A d \in Unreturned' :
         Exporter!IsRegistered(argId[d])' /\ Exporter!Lookup(argId[d])' = arg'[d]
  <2> SUFFICES ASSUME NEW d \in Unreturned, d # k
               PROVE  argId[d] \in DOMAIN argMap' /\ argMap'[argId[d]] = arg[d]
    BY <1>1, <1>5 DEF Exporter!IsRegistered, Exporter!Lookup
  <2>1. argId[d] \in DOMAIN argMap /\ argMap[argId[d]] = arg[d]
    BY DEF ArgumentsExact, Exporter!IsRegistered, Exporter!Lookup
  <2>2. ASSUME argId[d] = i PROVE Exporter!CountOf(i) > 1
    <3>1. d \in UnderId(i) \ {k}
      BY <2>2 DEF UnderId
    <3>2. IsFiniteSet(UnderId(i) \ {k}) /\ Cardinality(UnderId(i) \ {k}) # 0
      BY <3>1, UnderIdFinite, FS_Subset, FS_EmptySet
    <3>3. Cardinality(UnderId(i) \ {k}) \in Nat /\ Cardinality(UnderId(i)) \in Nat
      BY <3>2, UnderIdFinite, FS_CardinalityType
    <3> QED
      BY <3>2, <3>3, <1>3, <1>7, <1>8
  <2>3. argId[d] \in DOMAIN argMap'
    BY <2>1, <2>2, <1>4
  <2> QED
    BY <2>1, <2>3, <1>4
<1>11. ArgumentsExact'
  BY <1>9, <1>10 DEF ArgumentsExact, UnderId, Ids
<1> QED
  BY <1>1, <1>4, <1>11 DEF Ids

(* Only CallStub and Finalize touch an argument.                           *)
LEMMA StepArgs ==
    ASSUME SourcesSound, CallsSound, ArgsSound, [Next]_vars
    PROVE  ArgsSound'
<1>1. ASSUME NEW k \in Calls, NEW s \in Stubs, NEW o \in {"apply", "get"},
             NEW a \in Arguments, CallStub(k, s, o, a)
      PROVE  ArgsSound'
  BY <1>1, CallStubArgs
<1>2. ASSUME NEW k \in Calls, Finalize(k) PROVE ArgsSound'
  BY <1>2, FinalizeArgs
<1>3. CASE \/ UNCHANGED vars
           \/ \E c \in Cursors, o \in Callbacks : Trap(c, o)
           \/ \E s \in Stubs : PeerRelease(s) \/ \E c \in Cursors : Hydrate(s, c)
           \/ \E k \in Calls : Refuse(k)
  <2>1. UNCHANGED <<arg, ran, argVars>>
    BY <1>3 DEF vars, callVars, Trap, PeerRelease, Hydrate, Refuse
  <2> QED
    BY <2>1, LeaveArgs
<1>4. ASSUME NEW k \in Calls, Handle(k) PROVE ArgsSound'
  <2>1. UNCHANGED <<arg, argVars>>
    BY <1>4 DEF Handle, Miss, RunTarget, PassOver, RunMethod, PassOverProperty, NoMethod,
                Return, Throw, End, Run
  <2>2. CASE RunTarget(k) \/ RunMethod(k)
    <3>1. PICK r \in [fn : Functions, self : Callbacks \cup {None}] :
            ran' = [ran EXCEPT ![k] = r]
      <4>1. CASE RunTarget(k)
        BY <4>1 DEF RunTarget, Run
      <4>2. CASE RunMethod(k)
        BY <4>2 DEF RunMethod, Run
      <4> QED
        BY <2>2, <4>1, <4>2
    <3>2. r # None
      BY NamesAssumption
    <3>3. \A d \in Calls : ran[d] # None => ran'[d] # None
      BY <3>1, <3>2 DEF CallsSound
    <3> QED
      BY <2>1, <3>3, LeaveArgs
  <2>3. CASE ~(RunTarget(k) \/ RunMethod(k))
    <3>1. ran' = ran
      BY <2>3, <1>4 DEF Handle, Miss, PassOver, PassOverProperty, NoMethod, Return, Throw, End
    <3> QED
      BY <2>1, <3>1, LeaveArgs
  <2> QED
    BY <2>2, <2>3
<1> QED
  BY <1>1, <1>2, <1>3, <1>4 DEF Next

-----------------------------------------------------------------------------

LEMMA InitSound == Init => CallbacksSound
<1> SUFFICES ASSUME Init PROVE SourcesSound /\ CallsSound /\ ArgsSound
  BY ThreeParts
<1>1. TablesAgree
  BY InitAgrees DEF Init
<1>2. RetainsExact
  <2>1. \A i \in Ids : Retainers(i) = {} /\ Releases(i) = {} /\ CountOf(i) = 0
    BY NamesDiffer DEF Init, RegistryInit, NoEntries, CountOf, Retainers, Releases
  <2> QED
    BY <2>1, FS_EmptySet DEF RetainsExact
<1>3. ArgumentsExact
  <2>1. Unreturned = {} /\ \A i : UnderId(i) = {}
    BY NamesAssumption DEF Init, Unreturned, UnderId
  <2>2. \A i : Exporter!CountOf(i) = 0
    BY DEF Init, Exporter!RegistryInit, Exporter!NoEntries, Exporter!CountOf
  <2> QED
    BY <2>1, <2>2, FS_EmptySet DEF ArgumentsExact, UnderId
<1>4. Exporter!TablesAgree
  <2>1. ArgRegistry!RegistryInit
    BY SameRegistry DEF Init
  <2> QED
    BY <2>1, ArgRegistry!InitAgrees, BoundsAssumption, SameRegistry DEF ArgRegistry!InitAgrees
<1>5. SourcesSound
  BY <1>1, <1>2, SourceNames DEF SourcesSound, Init, IdsMean
<1>6. CallsSound
  BY SourceNames DEF CallsSound, Init, Phases, CallsReachTheirCallback
<1>7. ArgsSound
  BY <1>3, <1>4 DEF ArgsSound, Init
<1> QED
  BY <1>5, <1>6, <1>7

(* Every step keeps the registry of callbacks and the calls in order.      *)
LEMMA StepCalls ==
    ASSUME SourcesSound, CallsSound, [Next]_vars
    PROVE  SourcesSound' /\ CallsSound'
<1>0. ASSUME NEW k \in Calls, NoValue, UNCHANGED stubVars PROVE SourcesSound' /\ Lasting
  BY <1>0, NoValueStep DEF stubVars, SourcesSound
<1>1. ASSUME NEW c \in Cursors, NEW o \in Callbacks, Trap(c, o)
      PROVE  SourcesSound' /\ CallsSound'
  <2>1. Source("argument", c) \in Sources /\ o \in Objects /\ Source("argument", c).of = "argument"
    BY SourceNames, ObjectsAssumption
  <2>2. SourcesSound' /\ Lasting
    BY <1>1, <2>1, CreateValueStep DEF Trap
  <2>3. \A d \in Calls : /\ id'[Source("property", d)] = id[Source("property", d)]
                         /\ id'[Source("result", d)] = id[Source("result", d)]
    BY <1>1, SourceNames DEF Trap, CreateValue, SourcesSound
  <2>4. UNCHANGED <<callVars, argVars>>
    BY <1>1 DEF Trap
  <2> QED
    BY <2>2, <2>3, <2>4, LeaveCalls
<1>2. ASSUME NEW s \in Stubs, NEW c \in Cursors, Hydrate(s, c)
      PROVE  SourcesSound' /\ CallsSound'
  <2>1. SourcesSound' /\ Lasting
    BY <1>2, NoValueStep DEF Hydrate, NoValue, SourcesSound
  <2> QED
    BY <1>2, <2>1, LeaveCalls DEF Hydrate, sourceVars
<1>3. ASSUME NEW s \in Stubs, PeerRelease(s)
      PROVE  SourcesSound' /\ CallsSound'
  <2>1. SourcesSound' /\ Lasting
    BY <1>3, PeerReleaseStep
  <2> QED
    BY <1>3, <2>1, LeaveCalls DEF PeerRelease, sourceVars
<1>4. ASSUME NEW k \in Calls, NEW s \in Stubs, NEW o \in {"apply", "get"},
             NEW a \in Arguments, CallStub(k, s, o, a)
      PROVE  SourcesSound' /\ CallsSound'
  <2>1. NoValue /\ UNCHANGED stubVars
    BY <1>4 DEF CallStub, NoValue
  <2> QED
    BY <1>4, <1>0, <2>1, CallStubStep
<1>5. ASSUME NEW k \in Calls, Refuse(k) \/ Miss(k) \/ PassOver(k) \/ NoMethod(k)
      PROVE  SourcesSound' /\ CallsSound'
  <2>1. NoValue /\ UNCHANGED <<stubVars, op, onStub, arg, ran, argVars>> /\ phase[k] = "sent"
    BY <1>5 DEF Refuse, Miss, PassOver, NoMethod, End, Advance
  <2>2. id' = id /\ ran' = [ran EXCEPT ![k] = None]
    BY <2>1 DEF CallsSound, NoValue, sourceVars
  <2>3. SourcesSound' /\ Lasting
    BY <1>0, <2>1
  <2>4. CASE Refuse(k) \/ NoMethod(k)
    <3>1. phase' = [phase EXCEPT ![k] = "failed"]
      BY <2>4 DEF Refuse, NoMethod, End, Advance
    <3> QED
      BY <2>1, <2>2, <2>3, <3>1, MoveCall
  <2>5. CASE Miss(k)
    <3>1. phase' = [phase EXCEPT ![k] = "missed"] /\ ~IsRegistered(IdOf(k))
      BY <2>5 DEF Miss, End, Advance
    <3> QED
      BY <2>1, <2>2, <2>3, <3>1, MoveCall
  <2>6. CASE PassOver(k)
    <3>1. PICK t \in Things : Found(k, "apply", t) /\ End(k, "answered")
      BY <2>6 DEF PassOver
    <3>2. phase' = [phase EXCEPT ![k] = "answered"] /\ op[k] = "apply"
          /\ IsRegistered(IdOf(k)) /\ t = Lookup(IdOf(k))
      BY <3>1 DEF End, Advance, Found
    <3>3. t = Handed(k)
      BY <3>2, <2>1, <2>3, SameCall
    <3>4. Callee(k) \notin Functions
      BY <3>2, <3>3, ObjectsAssumption DEF Callee
    <3> QED
      BY <2>1, <2>2, <2>3, <3>2, <3>4, MoveCall
  <2> QED
    BY <1>5, <2>4, <2>5, <2>6
<1>6. ASSUME NEW k \in Calls, RunTarget(k)
      PROVE  SourcesSound' /\ CallsSound'
  <2>1. PICK t \in Functions : Found(k, "apply", t) /\ Run(k, t, None) /\ NoValue
    BY <1>6 DEF RunTarget
  <2> DEFINE r == [fn |-> t, self |-> None]
  <2>2. /\ phase[k] = "sent" /\ phase' = [phase EXCEPT ![k] = "running"]
        /\ ran' = [ran EXCEPT ![k] = r] /\ UNCHANGED <<stubVars, op, onStub, arg, argVars>>
        /\ id' = id /\ op[k] = "apply" /\ IsRegistered(IdOf(k)) /\ t = Lookup(IdOf(k))
    BY <2>1 DEF Run, Advance, Found, NoValue, sourceVars
  <2>3. SourcesSound' /\ Lasting
    BY <1>0, <2>1, <2>2
  <2>4. t = Handed(k)
    BY <2>2, <2>3, SameCall
  <2>5. r = [fn |-> Callee(k), self |-> Self(k)]
    BY <2>2, <2>4 DEF Callee, Self
  <2>6. r \in [fn : Functions, self : Callbacks \cup {None}] /\ r # None
    BY NamesAssumption
  <2>7. id'[Source("result", k)] = None
    BY <2>2 DEF CallsSound
  <2> HIDE DEF r
  <2> QED
    BY <2>2, <2>3, <2>5, <2>6, <2>7, MoveCall
<1>7. ASSUME NEW k \in Calls, RunMethod(k)
      PROVE  SourcesSound' /\ CallsSound'
  <2>1. PICK t \in Callbacks, h \in Handles :
          /\ Found(k, "get", t) /\ Property[t] \in Functions
          /\ CreateValue(Source("property", k), h)
          /\ Run(k, Property[t], t)
    BY <1>7 DEF RunMethod
  <2> DEFINE r == [fn |-> Property[t], self |-> t]
             x == Source("property", k)
  <2>2. /\ phase[k] = "sent" /\ phase' = [phase EXCEPT ![k] = "running"]
        /\ ran' = [ran EXCEPT ![k] = r] /\ UNCHANGED <<stubVars, op, onStub, arg, argVars>>
        /\ op[k] = "get" /\ IsRegistered(IdOf(k)) /\ t = Lookup(IdOf(k))
    BY <2>1 DEF Run, Advance, Found
  <2>3. x \in Sources /\ id[x] = None /\ x.of # "argument" /\ h \in Objects
    BY <2>2, SourceNames, ObjectsAssumption DEF CallsSound
  <2>4. SourcesSound' /\ Lasting
    BY <2>1, <2>2, <2>3, CreateValueStep
  <2>5. t = Handed(k)
    BY <2>2, <2>4, SameCall
  <2>6. r = [fn |-> Callee(k), self |-> Self(k)]
    BY <2>2, <2>5 DEF Callee, Self
  <2>7. r \in [fn : Functions, self : Callbacks \cup {None}] /\ r # None
    BY <2>1, NamesAssumption
  <2>8. /\ \A d \in Calls : d # k =>
             /\ id'[Source("property", d)] = id[Source("property", d)]
             /\ id'[Source("result", d)] = id[Source("result", d)]
        /\ id'[Source("result", k)] = None
    BY <2>1, <2>2, SourceNames DEF CreateValue, SourcesSound, CallsSound
  <2> HIDE DEF r, x
  <2> QED
    BY <2>2, <2>4, <2>6, <2>7, <2>8, MoveCall
<1>8. ASSUME NEW k \in Calls, PassOverProperty(k)
      PROVE  SourcesSound' /\ CallsSound'
  <2>1. PICK t \in Callbacks :
          /\ Found(k, "get", t) /\ Property[t] \in Things
          /\ CreateValue(Source("property", k), Property[t])
          /\ End(k, "answered")
    BY <1>8 DEF PassOverProperty
  <2> DEFINE x == Source("property", k)
  <2>2. /\ phase[k] = "sent" /\ phase' = [phase EXCEPT ![k] = "answered"]
        /\ UNCHANGED <<stubVars, op, onStub, arg, ran, argVars>>
        /\ op[k] = "get" /\ IsRegistered(IdOf(k)) /\ t = Lookup(IdOf(k))
    BY <2>1 DEF End, Advance, Found
  <2>3. /\ x \in Sources /\ id[x] = None /\ x.of # "argument" /\ Property[t] \in Objects
        /\ ran' = [ran EXCEPT ![k] = None]
    BY <2>1, <2>2, SourceNames, ObjectsAssumption DEF CallsSound, Callbacks
  <2>4. SourcesSound' /\ Lasting
    BY <2>1, <2>2, <2>3, CreateValueStep
  <2>5. t = Handed(k)
    BY <2>2, <2>4, SameCall
  <2>6. Callee(k) \notin Functions
    BY <2>1, <2>2, <2>5, ObjectsAssumption DEF Callee
  <2>7. \A d \in Calls : d # k =>
             /\ id'[Source("property", d)] = id[Source("property", d)]
             /\ id'[Source("result", d)] = id[Source("result", d)]
    BY <2>1, SourceNames DEF CreateValue, SourcesSound
  <2> HIDE DEF x
  <2> QED
    BY <2>2, <2>3, <2>4, <2>6, <2>7, MoveCall
<1>9. ASSUME NEW k \in Calls, Throw(k) \/ \E v \in Callbacks \cup {Plain} : Return(k, v)
      PROVE  SourcesSound' /\ CallsSound'
  <2> DEFINE x == Source("result", k)
  <2>1. /\ phase[k] = "running" /\ UNCHANGED <<stubVars, op, onStub, arg, ran, argVars>>
        /\ \E to \in {"answered", "failed"} : phase' = [phase EXCEPT ![k] = to]
        /\ NoValue \/ \E v \in Callbacks : CreateValue(x, v)
    BY <1>9 DEF Throw, Return, Advance
  <2>2. PICK to \in {"answered", "failed"} : phase' = [phase EXCEPT ![k] = to]
    BY <2>1
  <2>3. x \in Sources /\ id[x] = None /\ x.of # "argument"
    BY <2>1, SourceNames DEF CallsSound
  <2>4. /\ SourcesSound' /\ Lasting
        /\ \A d \in Calls : d # k =>
             /\ id'[Source("property", d)] = id[Source("property", d)]
             /\ id'[Source("result", d)] = id[Source("result", d)]
    <3>1. CASE NoValue
      BY <3>1, <2>1, <1>0 DEF NoValue, sourceVars
    <3>2. CASE \E v \in Callbacks : CreateValue(x, v)
      <4>1. PICK v \in Callbacks : CreateValue(x, v)
        BY <3>2
      <4>2. v \in Objects
        BY ObjectsAssumption
      <4>3. id' = [id EXCEPT ![x] = RegisteredId(v)]
        BY <4>1 DEF CreateValue
      <4> QED
        BY <4>1, <4>2, <4>3, <2>1, <2>3, CreateValueStep, SourceNames DEF SourcesSound
    <3> QED
      BY <3>1, <3>2, <2>1
  <2> DEFINE r == ran[k]
  <2>5. /\ r \in [fn : Functions, self : Callbacks \cup {None}] \cup {None}
        /\ r # None /\ r = [fn |-> Callee(k), self |-> Self(k)]
        /\ ran' = [ran EXCEPT ![k] = r]
    BY <2>1 DEF CallsSound, CallsReachTheirCallback
  <2>6. Callee(k) \in Functions
    BY <2>5
  <2> QED
    BY <2>1, <2>2, <2>4, <2>5, <2>6, MoveCall
<1>10. ASSUME NEW k \in Calls, Finalize(k)
       PROVE  SourcesSound' /\ CallsSound'
  <2>1. NoValue /\ UNCHANGED <<stubVars, callVars>> /\ id' = id
    BY <1>10 DEF Finalize, NoValue, sourceVars
  <2> QED
    BY <1>0, <2>1, LeaveCalls
<1>11. CASE UNCHANGED vars
  <2>1. NoValue /\ UNCHANGED stubVars /\ UNCHANGED <<callVars, argVars>> /\ id' = id
    BY <1>11 DEF vars, NoValue, sourceVars
  <2>2. SourcesSound' /\ Lasting
    BY <2>1, NoValueStep DEF stubVars, SourcesSound
  <2> QED
    BY <2>1, <2>2, LeaveCalls
<1> QED
  BY <1>1, <1>2, <1>3, <1>4, <1>5, <1>6, <1>7, <1>8, <1>9, <1>10, <1>11 DEF Next, Handle

LEMMA StepSound == CallbacksSound /\ [Next]_vars => CallbacksSound'
<1> SUFFICES ASSUME CallbacksSound, [Next]_vars PROVE CallbacksSound'
  OBVIOUS
<1>1. SourcesSound /\ CallsSound /\ ArgsSound
  BY ThreeParts
<1>2. SourcesSound' /\ CallsSound' /\ ArgsSound'
  BY <1>1, StepCalls, StepArgs
<1> QED
  BY <1>2, ThreeParts, PTL

(* In every reachable state the tables of both registries agree, every     *)
(* retain of the importer has its source, every id means what was handed   *)
(* over under it, and the exporter's retains are the arguments that no     *)
(* proxy gave back.                                                        *)
THEOREM Sound == Spec => []CallbacksSound
BY InitSound, StepSound, PTL DEF Spec

(* A call of a stub runs the very callback that was handed over, on the    *)
(* object it was read from.                                                *)
THEOREM ReachTheirCallback == Spec => []CallsReachTheirCallback
<1>1. CallbacksSound => CallsReachTheirCallback
  BY DEF CallbacksSound
<1> QED
  BY <1>1, Sound, PTL

(* A call misses only when its id has had as many releases as retains.     *)
THEOREM MissesAreLate == Spec => []MissedOnlyWhenReleased
<1>1. CallbacksSound => MissedOnlyWhenReleased
  <2> SUFFICES ASSUME SourcesSound, CallsSound, NEW k \in Calls, phase[k] = "missed"
               PROVE  Cardinality(Releases(IdOf(k))) >= Cardinality(Retainers(IdOf(k)))
    BY ThreeParts DEF MissedOnlyWhenReleased
  <2> DEFINE i == IdOf(k)
  <2>1. i \notin DOMAIN map
    BY DEF CallsSound, IsRegistered
  <2>2. i \in Ids
    BY SourceNames DEF IdOf, CallsSound, SourcesSound
  <2>3. CountOf(i) = 0
    BY <2>1 DEF CountOf, SourcesSound, TablesAgree, EntriesRetained
  <2> HIDE DEF i
  <2>4. Cardinality(Releases(i)) >= Cardinality(Retainers(i))
    BY <2>2, <2>3, CountsAreNumbers DEF SourcesSound, RetainsExact
  <2> QED
    BY <2>4 DEF i
<1> QED
  BY <1>1, Sound, PTL

(* The id a call was sent with names its argument at the exporter until    *)
(* the call's own proxy is released, and the exporter's registry has as    *)
(* many retains of each id as calls that have not given it back.           *)
THEOREM ArgumentsStay == Spec => []ArgumentsExact
<1>1. CallbacksSound => ArgumentsExact
  BY DEF CallbacksSound
<1> QED
  BY <1>1, Sound, PTL

(* Both registries are used as registries, however stubs, calls and        *)
(* collections interleave: nothing but registrations and releases of drawn *)
(* ids.  Each is then a ledger: a step adds or takes one retain of one     *)
(* callback at the importer, or of one argument at the exporter, never     *)
(* below zero; and an id of either names one object for good.              *)
THEOREM LedgersKept ==
    Spec => /\ KeepsLedger /\ IdsNeverRebound
            /\ ArgRegistry!KeepsLedger /\ ArgRegistry!IdsNeverRebound
<1>1. Init => RegistryInit /\ ArgRegistry!RegistryInit
  BY SameRegistry DEF Init
<1>2. CallbacksSound /\ [Next]_vars => [RegistryNext]_regVars
  <2> SUFFICES ASSUME CallbacksSound, Next, regVars' # regVars
               PROVE  RegistryNext
    BY DEF vars
  <2>0. \A s \in Stubs : stub[s] # None => id[Source("argument", stub[s])] \in Ids
    BY ThreeParts, SourceNames DEF SourcesSound
  <2>1. CASE \E x, o : o \in Objects /\ CreateValue(x, o)
    BY <2>1 DEF CreateValue, RegistryNext
  <2>2. CASE \E s \in Stubs : PeerRelease(s)
    BY <2>0, <2>2 DEF PeerRelease, RegistryNext
  <2>3. CASE \E c \in Cursors, o \in Callbacks : Trap(c, o)
    BY <2>1, <2>3, ObjectsAssumption DEF Trap
  <2>4. CASE \E s \in Stubs, c \in Cursors : Hydrate(s, c)
    BY <2>4 DEF Hydrate
  <2>5. CASE \E k \in Calls : Handle(k)
    <3>1. PICK k \in Calls : Handle(k)
      BY <2>5
    <3>2. CASE RunMethod(k) \/ PassOverProperty(k)
      BY <2>1, <3>2, ObjectsAssumption DEF RunMethod, PassOverProperty, Callbacks
    <3>3. CASE \E v \in Callbacks \cup {Plain} : Return(k, v)
      BY <2>1, <3>3, ObjectsAssumption DEF Return, NoValue
    <3> QED
      BY <3>1, <3>2, <3>3 DEF Handle, Miss, RunTarget, PassOver, NoMethod, Throw, NoValue
  <2> QED
    BY <2>2, <2>3, <2>4, <2>5 DEF Next, CallStub, Refuse, Finalize, NoValue
<1>3. CallbacksSound /\ [Next]_vars => [ArgRegistry!RegistryNext]_(ArgRegistry!regVars)
  <2> SUFFICES ASSUME CallbacksSound, Next, ~UNCHANGED exporterVars
               PROVE  ArgRegistry!RegistryNext
    BY DEF vars, argVars, exporterVars, ArgRegistry!regVars
  <2>1. CASE \E k \in Calls, s \in Stubs, o \in {"apply", "get"}, a \in Arguments :
               CallStub(k, s, o, a)
    BY <2>1, SameRegistry DEF CallStub, ArgRegistry!RegistryNext
  <2>2. CASE \E k \in Calls : Finalize(k)
    <3>1. PICK k \in Calls : Finalize(k)
      BY <2>2
    <3>2. argId[k] \in Ids
      <4>1. CallsSound /\ ArgsSound
        BY ThreeParts
      <4>2. arg[k] # None
        BY <3>1, <4>1 DEF Finalize, CallsSound
      <4> QED
        BY <4>1, <4>2 DEF ArgsSound
    <3> QED
      BY <3>1, <3>2, SameRegistry DEF Finalize, ArgRegistry!RegistryNext
  <2>3. \A k \in Calls : Handle(k) => UNCHANGED exporterVars
    BY DEF Handle, Miss, RunTarget, PassOver, RunMethod, PassOverProperty, NoMethod, Return,
           Throw, End, Run, argVars
  <2> QED
    BY <2>1, <2>2, <2>3 DEF Next, Trap, Hydrate, PeerRelease, Refuse, argVars
<1>4. Spec => RegistrySpec
  BY <1>1, <1>2, Sound, PTL DEF Spec, RegistrySpec
<1>5. Spec => ArgRegistry!RegistrySpec
  BY <1>1, <1>3, Sound, PTL DEF Spec, ArgRegistry!RegistrySpec
<1>6. ArgRegistry!RegistrySpec => ArgRegistry!KeepsLedger /\ ArgRegistry!IdsNeverRebound
  BY ArgRegistry!ImplementsLedger, ArgRegistry!NeverRebound, BoundsAssumption
  DEF ArgRegistry!ImplementsLedger, ArgRegistry!NeverRebound
<1> QED
  BY <1>4, <1>5, <1>6, ImplementsLedger, NeverRebound
=============================================================================

------------------------- MODULE RefProtocolProofs --------------------------
(***************************************************************************)
(* The reference counts of RefProtocol are exact, for any number of calls, *)
(* connections and objects, whether or not connections close.              *)
(***************************************************************************)
EXTENDS RefProtocol, ObjectRegistryProofs, FiniteSetTheorems

LEMMA HoldersFinite ==
    ASSUME NEW id
    PROVE  IsFiniteSet(Holders(id)) /\ Cardinality(Holders(id)) \in Nat
BY CallsAssumption, FS_Subset, FS_CardinalityType DEF Holders

(* A set with two members has at least two. *)
LEMMA AtLeastTwo ==
    ASSUME NEW S, IsFiniteSet(S), NEW x \in S, NEW y \in S, x # y
    PROVE  Cardinality(S) > 1
<1>1. /\ IsFiniteSet(S \ {x}) /\ Cardinality(S \ {x}) = Cardinality(S) - 1
  BY FS_RemoveElement
<1>2. /\ Cardinality((S \ {x}) \ {y}) = Cardinality(S \ {x}) - 1
      /\ IsFiniteSet((S \ {x}) \ {y})
  BY <1>1, FS_RemoveElement
<1>3. Cardinality(S) \in Nat /\ Cardinality((S \ {x}) \ {y}) \in Nat
  BY <1>2, FS_CardinalityType
<1> QED
  BY <1>1, <1>2, <1>3

(* Two disjoint sets have their members together. *)
LEMMA DisjointUnion ==
    ASSUME NEW S, IsFiniteSet(S), NEW T, IsFiniteSet(T), S \cap T = {}
    PROVE  Cardinality(S \cup T) = Cardinality(S) + Cardinality(T)
<1>1. Cardinality(S \cap T) = 0
  BY FS_EmptySet
<1>2. Cardinality(S) \in Nat /\ Cardinality(T) \in Nat
  BY FS_CardinalityType
<1>3. Cardinality(S \cup T) = Cardinality(S) + Cardinality(T) - Cardinality(S \cap T)
  BY FS_Union
<1> QED
  BY <1>1, <1>2, <1>3

(* A phase change that keeps everything else, and keeps the call holding   *)
(* or not holding, keeps the counts exact.                                 *)
LEMMA QuietStep ==
    ASSUME RefsSound, NEW c \in Calls, NEW to \in Phases,
           phase' = [phase EXCEPT ![c] = to],
           phase[c] \in Holding <=> to \in Holding,
           phase[c] = "released" <=> to = "released",
           phase[c] \in {"live", "dropped", "releasing"} =>
               to \in {"live", "dropped", "releasing", "lost"},
           phase[c] # "lost" /\ phase[c] # "released",
           UNCHANGED <<regVars, conn, ref, object, open>>,
           \/ target' = target
           \/ \E t \in Calls : phase[t] = "live" /\ t # c /\ target' = [target EXCEPT ![c] = t]
           \/ target' = [target EXCEPT ![c] = Root]
    PROVE  RefsSound'
<1> USE DEF RefsSound
<1>1. \A id : Holders(id)' = Holders(id)
  BY DEF Holders, TypeOK
<1>2. map' = map /\ counts' = counts /\ weakMap' = weakMap /\ lastId' = lastId
  BY DEF regVars
<1>3. TypeOK'
  BY <1>2 DEF TypeOK, RegistryTypeOK, Ids
<1>4. TablesAgree'
  BY <1>2 DEF TablesAgree, RegistryTypeOK, TablesInverse, EntriesRetained, IdsDrawn, Ids
<1>5. RetainsExact'
  BY <1>1, <1>2 DEF RetainsExact, CountOf, Ids
<1>6. ProxyReachesItsObject' /\ StaleIdNeverMisleads'
  BY <1>2 DEF ProxyReachesItsObject, StaleIdNeverMisleads, IsRegistered, Lookup, TypeOK
<1>7. RefsFromReplies'
  BY <1>2, RootAssumption DEF RefsFromReplies, TypeOK, Holding, InHand, LostForGood
<1> QED
  BY <1>3, <1>4, <1>5, <1>6, <1>7

(* A call that starts to hold a reference to the object it registers.      *)
LEMMA RegisterStep ==
    ASSUME RefsSound, NEW c \in Calls, NEW o \in Objects,
           NEW to \in {"answered", "pinned"},
           phase[c] \in {"unused", "executing"},
           phase' = [phase EXCEPT ![c] = to],
           Register(o),
           ref' = [ref EXCEPT ![c] = RegisteredId(o)],
           object' = [object EXCEPT ![c] = o],
           UNCHANGED <<target, conn, open>>
    PROVE  RefsSound'
<1> USE DEF RefsSound
<1> DEFINE i == RegisteredId(o)
<1>1. /\ i \in Ids /\ i \in DOMAIN map' /\ map'[i] = o
      /\ \A x \in DOMAIN map : x \in DOMAIN map' /\ map'[x] = map[x]
      /\ \A x \in DOMAIN map' \ DOMAIN map : x = lastId + 1 /\ x = i
  BY RegisterEffect
<1>2. \A x \in Ids : CountOf(x)' = IF x = i THEN CountOf(x) + 1 ELSE CountOf(x)
  BY RegisterEffect
<1>3. TablesAgree'
  BY RegisterAgrees
<1>4. ref[c] = None /\ i # None
  BY <1>1, NoneAssumption DEF RefsFromReplies, Holding, InHand, LostForGood, Ids
<1>5. lastId \in Nat /\ lastId' \in Nat /\ lastId <= lastId' /\ i <= lastId'
  <2>1. lastId \in Nat /\ lastId' \in Nat
    BY <1>3, BoundsAssumption DEF TablesAgree, RegistryTypeOK
  <2>2. lastId <= lastId'
    BY <2>1 DEF Register, RegisterAgain, RegisterNew
  <2>3. i <= lastId'
    BY <1>1, <1>3 DEF TablesAgree, IdsDrawn
  <2> QED
    BY <2>1, <2>2, <2>3
<1> HIDE DEF i
<1>6. TypeOK'
  <2>1. RegistryTypeOK'
    BY <1>3 DEF TablesAgree
  <2>2. ref' \in [Calls -> Ids \cup {None}]
    BY <1>1 DEF i, TypeOK
  <2> QED
    BY <2>1, <2>2 DEF TypeOK, Phases, Holding, InHand, LostForGood
<1>7. RetainsExact'
  <2> SUFFICES ASSUME NEW x \in Ids
               PROVE  CountOf(x)' = Cardinality(Holders(x)')
    BY DEF RetainsExact, Ids
  <2>1. CountOf(x) = Cardinality(Holders(x))
    BY DEF RetainsExact
  <2>2. CASE x = i
    <3>1. Holders(x)' = Holders(x) \cup {c} /\ c \notin Holders(x)
      BY <1>1, <1>4, <2>2 DEF Holders, TypeOK, Holding, InHand, LostForGood, i
    <3> QED
      <4>1. Cardinality(Holders(x) \cup {c}) = Cardinality(Holders(x)) + 1
        BY <3>1, HoldersFinite, FS_AddElement
      <4> QED
        BY <3>1, <4>1, <2>1, <2>2, <1>2
  <2>3. CASE x # i
    <3>1. Holders(x)' = Holders(x)
      BY <1>1, <1>4, <2>3, NoneAssumption DEF Holders, TypeOK, Holding, InHand, LostForGood, i, Ids
    <3> QED
      BY <3>1, <2>1, <2>3, <1>2
  <2> QED
    BY <2>2, <2>3
<1>8. ProxyReachesItsObject'
  <2> SUFFICES ASSUME NEW d \in Calls, phase'[d] \in Holding
               PROVE  ref'[d] \in DOMAIN map' /\ map'[ref'[d]] = object'[d]
    BY DEF ProxyReachesItsObject, IsRegistered, Lookup
  <2>1. CASE d = c
    BY <2>1, <1>1 DEF TypeOK, i
  <2>2. CASE d # c
    BY <2>2, <1>1 DEF TypeOK, ProxyReachesItsObject, IsRegistered, Lookup
  <2> QED
    BY <2>1, <2>2
<1>9. StaleIdNeverMisleads'
  <2> SUFFICES ASSUME NEW d \in Calls, ref'[d] # None, ref'[d] \in DOMAIN map'
               PROVE  map'[ref'[d]] = object'[d]
    BY DEF StaleIdNeverMisleads, IsRegistered, Lookup
  <2>1. CASE d = c
    BY <2>1, <1>1 DEF TypeOK, i
  <2>2. CASE d # c
    <3>1. ref'[d] = ref[d] /\ object'[d] = object[d] /\ ref[d] <= lastId
      BY <2>2 DEF TypeOK, RefsFromReplies
    <3>2. ref[d] # lastId + 1
      BY <3>1, <1>5, NoneAssumption DEF TypeOK, Ids
    <3> QED
      BY <3>1, <3>2, <1>1 DEF StaleIdNeverMisleads, IsRegistered, Lookup
  <2> QED
    BY <2>1, <2>2
<1>10. RefsFromReplies'
  <2>1. \A d \in Calls : ref'[d] # None => ref'[d] <= lastId'
    <3> SUFFICES ASSUME NEW d \in Calls, ref'[d] # None PROVE ref'[d] <= lastId'
      OBVIOUS
    <3>1. CASE d = c
      BY <3>1, <1>5 DEF TypeOK, i
    <3>2. CASE d # c
      <4>1. ref'[d] = ref[d] /\ ref[d] \in Nat /\ ref[d] <= lastId
        BY <3>2 DEF TypeOK, RefsFromReplies, Ids
      <4> QED
        BY <4>1, <1>5
    <3> QED
      BY <3>1, <3>2
  <2>2. \A d \in Calls : (ref'[d] # None) <=> (phase'[d] \in Holding \cup {"released"})
    BY <1>4 DEF TypeOK, RefsFromReplies, Holding, InHand, LostForGood, i
  <2>3. \A d \in Calls : target'[d] # Root =>
          phase'[target'[d]] \in {"live", "dropped", "releasing", "lost", "released"}
    BY DEF TypeOK, RefsFromReplies
  <2> QED
    BY <2>1, <2>2, <2>3 DEF RefsFromReplies
<1> QED
  BY <1>3, <1>6, <1>7, <1>8, <1>9, <1>10

(* A release gives up exactly the reference of its own call.               *)
LEMMA HandleReleaseStep ==
    ASSUME RefsSound, NEW c \in Calls, HandleRelease(c)
    PROVE  RefsSound'
<1> USE DEF RefsSound
<1> DEFINE i == ref[c]
<1>1. /\ phase[c] = "releasing" /\ phase' = [phase EXCEPT ![c] = "released"]
      /\ Delete(i) /\ UNCHANGED <<target, conn, ref, object, open>>
  BY DEF HandleRelease, Advance
<1>2. i \in DOMAIN map /\ i \in Ids /\ i # None
  BY <1>1, NoneAssumption
  DEF ProxyReachesItsObject, IsRegistered, Holding, InHand, LostForGood, TablesAgree, RegistryTypeOK, Ids
<1>3. /\ \A x \in Ids : CountOf(x)' = IF x = i THEN CountOf(x) - 1 ELSE CountOf(x)
      /\ \A x \in DOMAIN map : CountOf(x) > 1 \/ x # i => x \in DOMAIN map'
      /\ \A x \in DOMAIN map' : x \in DOMAIN map /\ map'[x] = map[x]
  BY <1>1, <1>2, DeleteEffect
<1>4. TablesAgree'
  BY <1>1, <1>2, DeleteAgrees
<1>5. lastId' = lastId
  BY <1>1 DEF Delete, DeleteRetain, DeleteEntry
<1>6. TypeOK'
  BY <1>1, <1>4 DEF TypeOK, Phases, TablesAgree, Ids
<1>7. RetainsExact'
  <2> SUFFICES ASSUME NEW x \in Ids
               PROVE  CountOf(x)' = Cardinality(Holders(x)')
    BY DEF RetainsExact, Ids
  <2>1. CountOf(x) = Cardinality(Holders(x))
    BY DEF RetainsExact
  <2>2. CASE x = i
    <3>1. Holders(x)' = Holders(x) \ {c} /\ c \in Holders(x)
      BY <1>1, <2>2 DEF Holders, TypeOK, Holding, InHand, LostForGood
    <3> QED
      BY <3>1, <2>1, <2>2, <1>3, HoldersFinite, FS_RemoveElement
  <2>3. CASE x # i
    <3>1. Holders(x)' = Holders(x)
      BY <1>1, <2>3 DEF Holders, TypeOK, Holding, InHand, LostForGood
    <3> QED
      BY <3>1, <2>1, <2>3, <1>3
  <2> QED
    BY <2>2, <2>3
<1>8. ProxyReachesItsObject'
  <2> SUFFICES ASSUME NEW d \in Calls, phase'[d] \in Holding
               PROVE  ref[d] \in DOMAIN map' /\ map'[ref[d]] = object[d]
    BY <1>1 DEF ProxyReachesItsObject, IsRegistered, Lookup
  <2>1. d # c /\ phase[d] \in Holding
    BY <1>1 DEF TypeOK, Holding, InHand, LostForGood
  <2>2. ref[d] \in DOMAIN map /\ map[ref[d]] = object[d]
    BY <2>1 DEF ProxyReachesItsObject, IsRegistered, Lookup
  <2>3. CASE ref[d] # i
    BY <2>2, <2>3, <1>3
  <2>4. CASE ref[d] = i
    <3>1. c \in Holders(i) /\ d \in Holders(i)
      BY <2>1, <2>4, <1>1 DEF Holders, Holding, InHand, LostForGood
    <3>2. Cardinality(Holders(i)) > 1
      BY <3>1, <2>1, HoldersFinite, AtLeastTwo
    <3>3. CountOf(i) > 1
      BY <3>2, <1>2 DEF RetainsExact
    <3> QED
      BY <3>3, <2>2, <2>4, <1>3
  <2> QED
    BY <2>3, <2>4
<1>9. StaleIdNeverMisleads'
  BY <1>1, <1>3 DEF StaleIdNeverMisleads, IsRegistered, Lookup
<1>10. RefsFromReplies'
  BY <1>1, <1>5 DEF RefsFromReplies, TypeOK, Holding, InHand, LostForGood
<1> QED
  BY <1>4, <1>6, <1>7, <1>8, <1>9, <1>10

LEMMA InitRefsSound == Init => RefsSound
<1> SUFFICES ASSUME Init PROVE RefsSound
  OBVIOUS
<1>1. TablesAgree
  BY InitAgrees DEF Init
<1>2. TypeOK
  BY <1>1 DEF Init, TypeOK, TablesAgree, Phases
<1>3. RetainsExact
  <2>1. \A id \in Ids : Holders(id) = {}
    BY DEF Init, Holders, Holding, InHand, LostForGood
  <2>2. \A id \in Ids : CountOf(id) = 0
    BY DEF Init, RegistryInit, NoEntries, CountOf
  <2> QED
    BY <2>1, <2>2, FS_EmptySet DEF RetainsExact
<1> QED
  BY <1>1, <1>2, <1>3
  DEF Init, RefsSound, ProxyReachesItsObject, StaleIdNeverMisleads, RefsFromReplies, Holding, InHand, LostForGood

LEMMA StepRefsSound == RefsSound /\ [Next]_vars => RefsSound'
<1> SUFFICES ASSUME RefsSound, [Next]_vars PROVE RefsSound'
  OBVIOUS
<1> USE DEF Advance
<1>1. ASSUME NEW c \in Calls, NEW t \in Calls \cup {Root}, MakeCursor(c, t)
      PROVE  RefsSound'
  BY <1>1, QuietStep DEF MakeCursor, Phases, Holding, InHand, LostForGood
<1>2. ASSUME NEW c \in Calls,
             \/ Send(c) \/ Fail(c) \/ FindTarget(c) \/ MissTarget(c) \/ ReturnValue(c)
      PROVE  RefsSound'
  BY <1>2, QuietStep DEF Send, Fail, FindTarget, MissTarget, ReturnValue, Phases, Holding, InHand, LostForGood
<1>3. ASSUME NEW c \in Calls,
             \/ ReceiveReference(c) \/ LoseReply(c) \/ DropProxy(c)
             \/ Finalize(c) \/ LoseRelease(c)
      PROVE  RefsSound'
  BY <1>3, QuietStep DEF ReceiveReference, LoseReply, DropProxy, Finalize, LoseRelease, Phases, Holding, InHand, LostForGood
<1>4. ASSUME NEW c \in Calls, NEW o \in Objects, ReturnObject(c, o) \/ LocalGet(c, o)
      PROVE  RefsSound'
  BY <1>4, RegisterStep DEF ReturnObject, LocalGet
<1>5. ASSUME NEW c \in Calls, HandleRelease(c) PROVE RefsSound'
  BY <1>5, HandleReleaseStep
<1>6. ASSUME UNCHANGED <<regVars, callVars>>, open' \in [Connections -> BOOLEAN]
      PROVE  RefsSound'
  <2>1. /\ map' = map /\ counts' = counts /\ weakMap' = weakMap /\ lastId' = lastId
        /\ phase' = phase /\ target' = target /\ conn' = conn /\ ref' = ref
        /\ object' = object
    BY <1>6 DEF regVars, callVars
  <2>2. TablesAgree' /\ RegistryTypeOK'
    BY <2>1 DEF RefsSound, TablesAgree, RegistryTypeOK, TablesInverse, EntriesRetained,
                IdsDrawn, Ids
  <2>3. \A id : Holders(id)' = Holders(id) /\ CountOf(id)' = CountOf(id)
    BY <2>1 DEF Holders, CountOf
  <2> QED
    BY <1>6, <2>1, <2>2, <2>3
    DEF RefsSound, TypeOK, RetainsExact, ProxyReachesItsObject, StaleIdNeverMisleads,
        RefsFromReplies, IsRegistered, Lookup, Ids
<1>7. ASSUME NEW k \in Connections, Close(k) PROVE RefsSound'
  BY <1>7, <1>6 DEF Close, RefsSound, TypeOK
<1>8. CASE UNCHANGED vars
  BY <1>8, <1>6 DEF vars, RefsSound, TypeOK
<1> QED
  BY <1>1, <1>2, <1>3, <1>4, <1>5, <1>7, <1>8 DEF Next

(* The registry and the phases of calls stay in step. *)
THEOREM Sound == Spec => []RefsSound
BY InitRefsSound, StepRefsSound, PTL DEF Spec

(* The counts are exactly the references outstanding, a reference reaches  *)
(* its own object, and a released id reaches nothing or that object.       *)
THEOREM CountsExact ==
    Spec => [](RetainsExact /\ ProxyReachesItsObject /\ StaleIdNeverMisleads)
<1>1. RefsSound => RetainsExact /\ ProxyReachesItsObject /\ StaleIdNeverMisleads
  BY DEF RefsSound
<1> QED
  BY <1>1, InitRefsSound, StepRefsSound, PTL DEF Spec

(* A call is answered "missing reference" only after the exporter has      *)
(* handled the release of the proxy it was made on and of every other      *)
(* proxy for the same id.                                                  *)
THEOREM MissesAreLate == Spec => MissedOnlyWhenReleased
<1> DEFINE Late == \A c \in Calls : phase[c] = "sent" /\ phase'[c] = "missing" =>
                     phase[target[c]] = "released" /\ Holders(ref[target[c]]) = {}
<1>1. RefsSound /\ [Next]_vars => [Late]_vars
  <2> SUFFICES ASSUME RefsSound, Next, NEW c \in Calls,
                      phase[c] = "sent", phase'[c] = "missing"
               PROVE  phase[target[c]] = "released" /\ Holders(ref[target[c]]) = {}
    OBVIOUS
  <2> DEFINE t == target[c]
             i == ref[t]
  <2>1. ~HasTarget(c)
    BY DEF Next, MakeCursor, Send, Fail, FindTarget, MissTarget, ReturnObject, LocalGet,
           ReturnValue, ReceiveReference, LoseReply, DropProxy, Finalize, LoseRelease, HandleRelease, Close, Advance,
           callVars, RefsSound, TypeOK
  <2>2. t \in Calls /\ i \notin DOMAIN map
    BY <2>1 DEF HasTarget, IsRegistered, RefsSound, TypeOK
  <2>3. phase[t] \notin Holding
    BY <2>2 DEF RefsSound, ProxyReachesItsObject, IsRegistered
  <2>4. phase[t] = "released" /\ i # None
    BY <2>1, <2>2, <2>3 DEF RefsSound, RefsFromReplies, Holding, InHand, LostForGood, HasTarget
  <2>5. i \in Ids /\ CountOf(i) = 0
    BY <2>2, <2>4 DEF RefsSound, TypeOK, CountOf, TablesAgree, EntriesRetained
  <2>6. Holders(i) = {}
    BY <2>5, HoldersFinite, FS_EmptySet DEF RefsSound, RetainsExact
  <2> QED
    BY <2>4, <2>6
<1> QED
  BY <1>1, InitRefsSound, StepRefsSound, PTL DEF Spec, MissedOnlyWhenReleased

(* A reference on its way or in use reaches its own object. *)
THEOREM ProxiesReach == Spec => []ProxyReachesItsObject
<1>1. RefsSound => ProxyReachesItsObject
  BY DEF RefsSound
<1> QED
  BY <1>1, Sound, PTL

(* A released id never reaches a stranger. *)
THEOREM StaleIdsHarmless == Spec => []StaleIdNeverMisleads
<1>1. RefsSound => StaleIdNeverMisleads
  BY DEF RefsSound
<1> QED
  BY <1>1, Sound, PTL

(* An entry has a retain, and a retain a reference.                        *)
LEMMA EntriesHeld ==
    ASSUME RefsSound, NEW id \in DOMAIN map
    PROVE  Holders(id) # {}
<1>1. id \in Ids /\ CountOf(id) >= 1
  BY DEF RefsSound, TablesAgree, RegistryTypeOK, EntriesRetained, CountOf
<1>2. Cardinality(Holders(id)) # 0
  BY <1>1 DEF RefsSound, RetainsExact
<1> QED
  BY <1>2, FS_EmptySet

(* What snapshot() reports: its entries are the ids held, and its loop     *)
(* over the counts reaches every reference in hand and every lost one      *)
(* once, over all connections.                                             *)
THEOREM SnapshotCounts == Spec => []SnapshotExact
<1>1. RefsSound => SnapshotExact
  <2> SUFFICES ASSUME RefsSound
               PROVE  SnapshotExact
    OBVIOUS
  <2> DEFINE Upto(n) == {c \in Calls : phase[c] \in Holding /\ ref[c] \in 1..n}
             Summed(n) == n <= MaxIds => RetainsUpTo[n] = Cardinality(Upto(n))
             S == {n \in Nat : Summed(n)}
  <2>1. /\ RetainsUpTo[0] = 0
        /\ \A n \in 1..MaxIds : RetainsUpTo[n] = RetainsUpTo[n - 1] + CountOf(n)
    BY RetainsUpToStep DEF RefsSound, TypeOK
  <2>2. \A n \in Nat : IsFiniteSet(Upto(n))
    BY CallsAssumption, FS_Subset
  <2>3. Summed(0)
    <3>1. Upto(0) = {}
      OBVIOUS
    <3> QED
      BY <2>1, <3>1, FS_EmptySet
  <2>4. ASSUME NEW n \in Nat, Summed(n)
        PROVE  Summed(n + 1)
    <3> HAVE n + 1 <= MaxIds
    <3>1. RetainsUpTo[n] = Cardinality(Upto(n))
      BY <2>4, BoundsAssumption
    <3>2. RetainsUpTo[n + 1] = RetainsUpTo[n] + Cardinality(Holders(n + 1))
      BY <2>1, BoundsAssumption DEF RefsSound, RetainsExact, Ids
    <3>3. Upto(n + 1) = Upto(n) \cup Holders(n + 1) /\ Upto(n) \cap Holders(n + 1) = {}
      BY DEF Holders
    <3> HIDE DEF Upto
    <3>4. Cardinality(Upto(n + 1)) = Cardinality(Upto(n)) + Cardinality(Holders(n + 1))
      BY <3>3, <2>2, HoldersFinite, DisjointUnion
    <3> QED
      BY <3>1, <3>2, <3>4
  <2>5. TotalRetains = Cardinality(Upto(MaxIds))
    <3>1. 0 \in S /\ \A n \in Nat : n \in S => n + 1 \in S
      <4> HIDE DEF Summed
      <4> QED
        BY <2>3, <2>4
    <3>2. \A n \in Nat : n \in S
      <4> HIDE DEF S
      <4> QED
        BY <3>1, Induction
    <3> QED
      BY <3>2, BoundsAssumption DEF TotalRetains
  <2>6. Upto(MaxIds) = References(InHand) \cup References(LostForGood)
    BY DEF RefsSound, TypeOK, RefsFromReplies, Ids, References, Holding
  <2>7. Cardinality(References(InHand) \cup References(LostForGood))
          = Cardinality(References(InHand)) + Cardinality(References(LostForGood))
    <3>1. IsFiniteSet(References(InHand)) /\ IsFiniteSet(References(LostForGood))
      BY CallsAssumption, FS_Subset DEF References
    <3>2. References(InHand) \cap References(LostForGood) = {}
      BY DEF References, InHand, LostForGood
    <3> QED
      BY <3>1, <3>2, DisjointUnion
  <2>8. DOMAIN map = {ref[c] : c \in References(Holding)}
    BY EntriesHeld DEF References, Holders, RefsSound, ProxyReachesItsObject, IsRegistered
  <2> QED
    BY <2>5, <2>6, <2>7, <2>8 DEF SnapshotExact, TotalEntries
<1> QED
  BY <1>1, Sound, PTL

(* The calls of all connections use the shared registry as its contract    *)
(* asks: whatever they do, one step is at most one register or delete.  So *)
(* with them, too, the registry is a ledger of retains, and an id names    *)
(* one object for good.                                                    *)
THEOREM RegistryKept == Spec => KeepsLedger /\ IdsNeverRebound
<1>1. Init => RegistryInit
  BY DEF Init
<1>2. RefsSound /\ [Next]_vars => [RegistryNext]_regVars
  <2> SUFFICES ASSUME RefsSound, Next, regVars' # regVars
               PROVE  RegistryNext
    BY DEF vars
  <2>1. CASE \E c \in Calls, o \in Objects : ReturnObject(c, o) \/ LocalGet(c, o)
    BY <2>1 DEF ReturnObject, LocalGet, RegistryNext
  <2>2. CASE \E c \in Calls : HandleRelease(c)
    <3>1. PICK c \in Calls : HandleRelease(c)
      BY <2>2
    <3>2. Delete(ref[c]) /\ phase[c] = "releasing"
      BY <3>1 DEF HandleRelease, Advance
    <3>3. ref[c] \in Ids
      BY <3>2 DEF RefsSound, RefsFromReplies, TypeOK, Holding, InHand, LostForGood
    <3> QED
      BY <3>2, <3>3 DEF RegistryNext
  <2> QED
    BY <2>1, <2>2 DEF Next, MakeCursor, Send, Fail, FindTarget, MissTarget, ReturnValue,
                      ReceiveReference, LoseReply, DropProxy, Finalize, LoseRelease, Close
<1>3. Spec => RegistrySpec
  BY <1>1, <1>2, Sound, PTL DEF Spec, RegistrySpec
<1> QED
  BY <1>3, ImplementsLedger, NeverRebound

(* What reclaims dropped objects: an id nobody holds has no entry.  As     *)
(* soon as the references in hand are given back, not eventually, nothing  *)
(* is left in the registry but the objects whose references were lost.     *)
THEOREM NothingInHandOnlyLossesKept ==
    Spec => [](References(InHand) = {} =>
                  DOMAIN map = {ref[c] : c \in References(LostForGood)})
<1>1. RefsSound =>
        (References(InHand) = {} => DOMAIN map = {ref[c] : c \in References(LostForGood)})
  BY EntriesHeld DEF References, Holders, Holding, RefsSound, ProxyReachesItsObject, IsRegistered
<1> QED
  BY <1>1, Sound, PTL
=============================================================================

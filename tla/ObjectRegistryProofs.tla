------------------------ MODULE ObjectRegistryProofs ------------------------
(***************************************************************************)
(* Proofs about ObjectRegistry for every set of objects and every bound.   *)
(***************************************************************************)
EXTENDS ObjectRegistry, WellFoundedInduction, TLAPS

(***************************************************************************)
(* Induction over the naturals, in a form without an operator parameter:   *)
(* the predicate is a set.                                                 *)
(***************************************************************************)

(* Every non-empty set of naturals has a least member.                     *)
LEMMA LeastNatural ==
    ASSUME NEW S, S \subseteq Nat, S # {}
    PROVE  \E n \in S : \A m \in S : n <= m
<1> DEFINE R == OpToRel(<, Nat)
<1>1. IsWellFoundedOn(R, Nat)
  BY NatLessThanWellFounded
<1>2. \A m, n \in Nat : m < n => <<m, n>> \in R
  BY Zenon DEF OpToRel
<1>3. \E n \in S : \A m \in S : ~ (<<m, n>> \in R)
  <2> HIDE DEF R
  <2> QED
    BY <1>1, WFMin, Zenon
<1>4. PICK n \in S : \A m \in S : ~ (m < n)
  BY <1>2, <1>3, Zenon
<1> QED
  BY <1>4

(* A set of naturals with 0 and the successors of its members is Nat.      *)
LEMMA Induction ==
    ASSUME NEW S, 0 \in S, \A n \in Nat : n \in S => n + 1 \in S
    PROVE  \A n \in Nat : n \in S
<1> SUFFICES ASSUME Nat \ S # {}
             PROVE  FALSE
  OBVIOUS
<1>1. PICK n \in Nat \ S : \A m \in Nat \ S : n <= m
  BY LeastNatural
<1>2. n # 0 /\ n - 1 \in Nat /\ n - 1 \notin Nat \ S
  BY <1>1
<1> QED
  BY <1>1, <1>2

(* g starts with base and goes from n - 1 to n by step[n].                 *)
Iterates(g, base, step, N, V) ==
    g \in [0..N -> V] /\ g[0] = base /\ \A n \in 1..N : g[n] = step[n][g[n - 1]]

(* A function is defined by its value at 0 and a step from n - 1 to n.     *)
LEMMA Recursion ==
    ASSUME NEW N \in Nat, NEW V, NEW base \in V, NEW step \in [1..N -> [V -> V]]
    PROVE  \E g : Iterates(g, base, step, N, V)
<1> DEFINE Reaches(k, g) == g[0] = base /\ \A n \in 1..k : g[n] = step[n][g[n - 1]]
           Reached(k) == k <= N => \E g \in [0..k -> V] : Reaches(k, g)
           S == {k \in Nat : Reached(k)}
<1>1. Reached(0)
  <2>1. /\ [x \in 0..0 |-> base] \in [0..0 -> V]
        /\ Reaches(0, [x \in 0..0 |-> base])
    OBVIOUS
  <2> QED
    BY <2>1
<1>2. ASSUME NEW k \in Nat, Reached(k)
      PROVE  Reached(k + 1)
  <2> SUFFICES ASSUME k + 1 <= N
               PROVE  \E g \in [0..(k + 1) -> V] : Reaches(k + 1, g)
    OBVIOUS
  <2>1. k <= N
    OBVIOUS
  <2>2. PICK g \in [0..k -> V] : Reaches(k, g)
    BY <1>2, <2>1
  <2> DEFINE f == [n \in 0..(k + 1) |-> IF n <= k THEN g[n] ELSE step[k + 1][g[k]]]
  <2>3. f \in [0..(k + 1) -> V]
    OBVIOUS
  <2>4. f[0] = base /\ \A n \in 1..k : f[n] = g[n] /\ f[n - 1] = g[n - 1]
    BY <2>2
  <2>5. f[k + 1] = step[k + 1][f[k]]
    OBVIOUS
  <2>6. \A n \in 1..(k + 1) : n = k + 1 \/ n \in 1..k
    OBVIOUS
  <2> HIDE DEF f
  <2>7. Reaches(k + 1, f)
    <3> SUFFICES ASSUME NEW n \in 1..(k + 1)
                 PROVE  f[n] = step[n][f[n - 1]]
      BY <2>4
    <3>1. CASE n = k + 1
      BY <3>1, <2>5
    <3>2. CASE n \in 1..k
      BY <3>2, <2>2, <2>4
    <3> QED
      BY <2>6, <3>1, <3>2
  <2> QED
    BY <2>3, <2>7
<1>3. Reached(N)
  <2> HIDE DEF Reached
  <2>1. 0 \in S /\ \A k \in Nat : k \in S => k + 1 \in S
    BY <1>1, <1>2
  <2>2. \A k \in Nat : k \in S
    BY <2>1, Induction
  <2> QED
    BY <2>2
<1> QED
  BY <1>3 DEF Iterates

-----------------------------------------------------------------------------

(* The empty registry is consistent. *)
LEMMA InitAgrees == RegistryInit => TablesAgree
BY BoundsAssumption
   DEF RegistryInit, NoEntries, TablesAgree, RegistryTypeOK, TablesInverse, EntriesRetained, IdsDrawn, Ids

(* register() of a known object keeps the tables consistent. *)
LEMMA RegisterAgainAgrees ==
    ASSUME TablesAgree, NEW o \in Objects, RegisterAgain(o)
    PROVE  TablesAgree'
<1> USE DEF TablesAgree
<1> DEFINE i == weakMap[o]
<1>1. i \in DOMAIN counts /\ CountOf(i) = counts[i]
  BY DEF RegisterAgain, TablesInverse, EntriesRetained, CountOf
<1>2. /\ counts' = [x \in DOMAIN counts' |-> counts'[x]]
      /\ DOMAIN counts' = DOMAIN counts
      /\ counts'[i] = counts[i] + 1
      /\ \A x \in DOMAIN counts : x # i => counts'[x] = counts[x]
  BY <1>1 DEF RegisterAgain, Put
<1>3. UNCHANGED <<map, weakMap, lastId>>
  BY DEF RegisterAgain
<1>4. RegistryTypeOK'
  BY <1>1, <1>2, <1>3 DEF RegistryTypeOK
<1>5. EntriesRetained'
  BY <1>1, <1>2, <1>3 DEF EntriesRetained, RegistryTypeOK
<1>6. TablesInverse' /\ IdsDrawn'
  BY <1>3 DEF TablesInverse, IdsDrawn
<1> QED
  BY <1>4, <1>5, <1>6

(* register() of a new object keeps the tables consistent. *)
LEMMA RegisterNewAgrees ==
    ASSUME TablesAgree, NEW o \in Objects, RegisterNew(o)
    PROVE  TablesAgree'
<1> USE DEF TablesAgree
<1> DEFINE i == lastId + 1
<1>1. i \in Ids /\ i \notin DOMAIN map /\ i \notin DOMAIN counts /\ lastId' = i
  BY BoundsAssumption DEF RegisterNew, RegistryTypeOK, IdsDrawn, EntriesRetained, Ids
<1>2. /\ map' = [x \in DOMAIN map' |-> map'[x]]
      /\ DOMAIN map' = DOMAIN map \cup {i}
      /\ map'[i] = o
      /\ \A x \in DOMAIN map : x # i => map'[x] = map[x]
  BY <1>1 DEF RegisterNew, Put
<1>3. /\ counts' = [x \in DOMAIN counts' |-> counts'[x]]
      /\ DOMAIN counts' = DOMAIN counts \cup {i}
      /\ counts'[i] = 1
      /\ \A x \in DOMAIN counts : x # i => counts'[x] = counts[x]
  BY <1>1 DEF RegisterNew, Put
<1>4. /\ weakMap' = [x \in DOMAIN weakMap' |-> weakMap'[x]]
      /\ DOMAIN weakMap' = DOMAIN weakMap \cup {o}
      /\ weakMap'[o] = i
      /\ \A x \in DOMAIN weakMap : x # o => weakMap'[x] = weakMap[x]
  BY <1>1 DEF RegisterNew, Put
<1>5. o \notin DOMAIN weakMap
  BY DEF RegisterNew
<1>6. RegistryTypeOK'
  <2>1. DOMAIN map' \subseteq Ids /\ map' \in [DOMAIN map' -> Objects]
    BY <1>1, <1>2 DEF RegistryTypeOK
  <2>2. DOMAIN counts' \subseteq Ids /\ counts' \in [DOMAIN counts' -> Nat]
    BY <1>1, <1>3 DEF RegistryTypeOK
  <2>3. DOMAIN weakMap' \subseteq Objects /\ weakMap' \in [DOMAIN weakMap' -> Ids]
    BY <1>1, <1>4 DEF RegistryTypeOK
  <2>4. lastId' \in 0..MaxIds
    BY <1>1, BoundsAssumption DEF Ids
  <2> QED
    BY <2>1, <2>2, <2>3, <2>4 DEF RegistryTypeOK, Ids
<1>7. EntriesRetained'
  BY <1>1, <1>2, <1>3 DEF EntriesRetained
<1>8. TablesInverse'
  <2>1. \A x \in DOMAIN map' : map'[x] \in DOMAIN weakMap' /\ weakMap'[map'[x]] = x
    BY <1>1, <1>2, <1>4, <1>5 DEF TablesInverse
  <2>2. \A q \in DOMAIN weakMap' : weakMap'[q] \in DOMAIN map' /\ map'[weakMap'[q]] = q
    BY <1>1, <1>2, <1>4, <1>5 DEF TablesInverse
  <2> QED
    BY <2>1, <2>2 DEF TablesInverse
<1>9. IdsDrawn'
  BY <1>1, <1>2, BoundsAssumption DEF IdsDrawn, RegistryTypeOK, Ids
<1> QED
  BY <1>6, <1>7, <1>8, <1>9

(* delete() that leaves a retain keeps the tables consistent. *)
LEMMA DeleteRetainAgrees ==
    ASSUME TablesAgree, NEW id \in Ids, DeleteRetain(id)
    PROVE  TablesAgree'
<1> USE DEF TablesAgree
<1>1. id \in DOMAIN counts /\ counts[id] > 1
  BY DEF DeleteRetain, CountOf
<1>2. /\ counts' = [counts EXCEPT ![id] = counts[id] - 1]
      /\ UNCHANGED <<map, weakMap, lastId>>
  BY DEF DeleteRetain
<1>3. RegistryTypeOK'
  BY <1>1, <1>2 DEF RegistryTypeOK
<1>4. EntriesRetained'
  BY <1>1, <1>2 DEF EntriesRetained, RegistryTypeOK
<1>5. TablesInverse' /\ IdsDrawn'
  BY <1>2 DEF TablesInverse, IdsDrawn
<1> QED
  BY <1>3, <1>4, <1>5

(* delete() of a last retain, or of an unknown id, keeps the tables        *)
(* consistent.                                                             *)
LEMMA DeleteEntryAgrees ==
    ASSUME TablesAgree, NEW id \in Ids, DeleteEntry(id)
    PROVE  TablesAgree'
<1> USE DEF TablesAgree
<1>1. CASE id \in DOMAIN map
  <2> DEFINE o == map[id]
  <2>1. o \in DOMAIN weakMap /\ weakMap[o] = id
    BY <1>1 DEF TablesInverse
  <2>2. /\ map' = [x \in DOMAIN map' |-> map'[x]]
        /\ DOMAIN map' = DOMAIN map \ {id}
        /\ \A x \in DOMAIN map : x # id => map'[x] = map[x]
    BY DEF DeleteEntry, Drop, Restrict
  <2>3. /\ counts' = [x \in DOMAIN counts' |-> counts'[x]]
        /\ DOMAIN counts' = DOMAIN counts \ {id}
        /\ \A x \in DOMAIN counts : x # id => counts'[x] = counts[x]
    BY DEF DeleteEntry, Drop, Restrict
  <2>4. /\ weakMap' = [x \in DOMAIN weakMap' |-> weakMap'[x]]
        /\ DOMAIN weakMap' = DOMAIN weakMap \ {o}
        /\ \A x \in DOMAIN weakMap : x # o => weakMap'[x] = weakMap[x]
    BY <1>1 DEF DeleteEntry, Drop, Restrict
  <2>5. lastId' = lastId
    BY DEF DeleteEntry
  <2>6. RegistryTypeOK'
    <3>1. DOMAIN map' \subseteq Ids /\ map' \in [DOMAIN map' -> Objects]
      BY <2>2 DEF RegistryTypeOK
    <3>2. DOMAIN counts' \subseteq Ids /\ counts' \in [DOMAIN counts' -> Nat]
      BY <2>3 DEF RegistryTypeOK
    <3>3. DOMAIN weakMap' \subseteq Objects /\ weakMap' \in [DOMAIN weakMap' -> Ids]
      BY <2>4 DEF RegistryTypeOK
    <3> QED
      BY <2>5, <3>1, <3>2, <3>3 DEF RegistryTypeOK, Ids
  <2>7. EntriesRetained'
    BY <2>2, <2>3 DEF EntriesRetained
  <2>8. TablesInverse'
    <3>1. \A x \in DOMAIN map' : map'[x] \in DOMAIN weakMap' /\ weakMap'[map'[x]] = x
      BY <2>1, <2>2, <2>4 DEF TablesInverse
    <3>2. \A q \in DOMAIN weakMap' : weakMap'[q] \in DOMAIN map' /\ map'[weakMap'[q]] = q
      BY <2>1, <2>2, <2>4 DEF TablesInverse
    <3> QED
      BY <3>1, <3>2 DEF TablesInverse
  <2>9. IdsDrawn'
    BY <2>2, <2>5 DEF IdsDrawn
  <2> QED
    BY <2>6, <2>7, <2>8, <2>9
<1>2. CASE id \notin DOMAIN map
  <2>1. map' = map /\ counts' = counts /\ weakMap' = weakMap /\ lastId' = lastId
    BY <1>2 DEF DeleteEntry, Drop, Restrict, EntriesRetained, RegistryTypeOK
  <2> QED
    BY <2>1 DEF RegistryTypeOK, TablesInverse, EntriesRetained, IdsDrawn, Ids
<1> QED
  BY <1>1, <1>2

(* Any register() and any delete() keeps the tables consistent: the form   *)
(* in which modules that use a registry cite it.                           *)
THEOREM RegisterAgrees ==
    ASSUME TablesAgree, NEW o \in Objects, Register(o)
    PROVE  TablesAgree'
BY RegisterAgainAgrees, RegisterNewAgrees DEF Register

THEOREM DeleteAgrees ==
    ASSUME TablesAgree, NEW id \in Ids, Delete(id)
    PROVE  TablesAgree'
BY DeleteRetainAgrees, DeleteEntryAgrees DEF Delete

(* In every reachable state map and weakMap are inverse, the entries are   *)
(* the ids with a retain, and only drawn ids are registered.               *)
THEOREM Consistent == RegistrySpec => []TablesAgree
<1>1. TablesAgree /\ [RegistryNext]_regVars => TablesAgree'
  <2> SUFFICES ASSUME TablesAgree, [RegistryNext]_regVars
               PROVE  TablesAgree'
    OBVIOUS
  <2>1. CASE \E o \in Objects : Register(o)
    BY <2>1, RegisterAgrees
  <2>2. CASE \E id \in Ids : Delete(id)
    BY <2>2, DeleteAgrees
  <2>3. CASE UNCHANGED regVars
    BY <2>3 DEF regVars, TablesAgree, RegistryTypeOK, TablesInverse, EntriesRetained, IdsDrawn, Ids
  <2> QED
    BY <2>1, <2>2, <2>3 DEF RegistryNext
<1> QED
  BY <1>1, InitAgrees, PTL DEF RegistrySpec

-----------------------------------------------------------------------------

(* What register(o) does to the retains of every object, and what it       *)
(* returns.                                                                *)
LEMMA RegisterEffect ==
    ASSUME TablesAgree, NEW o \in Objects, Register(o)
    PROVE  /\ \A q \in Objects : RetainsOf(q) \in Nat
           /\ \A q \in Objects :
                RetainsOf(q)' = IF q = o THEN RetainsOf(q) + 1 ELSE RetainsOf(q)
           /\ \A x \in Ids :
                CountOf(x)' = IF x = RegisteredId(o) THEN CountOf(x) + 1 ELSE CountOf(x)
           /\ RegisteredId(o) \in Ids
           /\ RegisteredId(o) \in DOMAIN map' /\ map'[RegisteredId(o)] = o
           /\ \A x \in DOMAIN map : x \in DOMAIN map' /\ map'[x] = map[x]
           /\ \A x \in DOMAIN map' \ DOMAIN map : x = lastId + 1 /\ x = RegisteredId(o)
<1> USE DEF TablesAgree
<1>0. \A q \in Objects : RetainsOf(q) \in Nat
  BY DEF RetainsOf, CountOf, RegistryTypeOK
<1>1. CASE RegisterAgain(o)
  <2> DEFINE i == weakMap[o]
  <2>1. /\ i \in DOMAIN counts /\ i \in Ids /\ i \in DOMAIN map /\ map[i] = o
        /\ o \in DOMAIN weakMap /\ RegisteredId(o) = i
    BY <1>1 DEF RegisterAgain, TablesInverse, EntriesRetained, RegistryTypeOK, RegisteredId
  <2>2. /\ DOMAIN counts' = DOMAIN counts
        /\ counts'[i] = counts[i] + 1
        /\ \A x \in DOMAIN counts : x # i => counts'[x] = counts[x]
    BY <1>1, <2>1 DEF RegisterAgain, Put, CountOf
  <2>3. map' = map /\ weakMap' = weakMap
    BY <1>1 DEF RegisterAgain
  <2>4. \A x \in Ids : CountOf(x)' = IF x = i THEN CountOf(x) + 1 ELSE CountOf(x)
    BY <2>1, <2>2 DEF CountOf
  <2>5. \A q \in Objects \ {o} : q \in DOMAIN weakMap => weakMap[q] \in Ids \ {i}
    BY <2>1 DEF TablesInverse, RegistryTypeOK
  <2>6. \A q \in Objects :
          RetainsOf(q)' = IF q = o THEN RetainsOf(q) + 1 ELSE RetainsOf(q)
    BY <2>1, <2>3, <2>4, <2>5 DEF RetainsOf
  <2> HIDE DEF i
  <2> QED
    BY <1>0, <2>1, <2>3, <2>4, <2>6
<1>2. CASE RegisterNew(o)
  <2> DEFINE i == lastId + 1
  <2>1. /\ i \in Ids /\ i \notin DOMAIN map /\ i \notin DOMAIN counts
        /\ lastId' = i /\ o \notin DOMAIN weakMap /\ RegisteredId(o) = i
    BY <1>2, BoundsAssumption
    DEF RegisterNew, RegistryTypeOK, IdsDrawn, EntriesRetained, Ids, RegisteredId
  <2>2. /\ DOMAIN map' = DOMAIN map \cup {i}
        /\ map'[i] = o
        /\ \A x \in DOMAIN map : map'[x] = map[x]
    BY <1>2, <2>1 DEF RegisterNew, Put
  <2>3. /\ DOMAIN counts' = DOMAIN counts \cup {i}
        /\ counts'[i] = 1
        /\ \A x \in DOMAIN counts : counts'[x] = counts[x]
    BY <1>2, <2>1 DEF RegisterNew, Put
  <2>4. /\ DOMAIN weakMap' = DOMAIN weakMap \cup {o}
        /\ weakMap'[o] = i
        /\ \A x \in DOMAIN weakMap : weakMap'[x] = weakMap[x]
    BY <1>2, <2>1 DEF RegisterNew, Put
  <2>5. \A x \in Ids : CountOf(x)' = IF x = i THEN CountOf(x) + 1 ELSE CountOf(x)
    BY <2>1, <2>3 DEF CountOf
  <2>6. RetainsOf(o)' = counts'[i] /\ RetainsOf(o) = 0
    BY <2>1, <2>3, <2>4 DEF RetainsOf, CountOf
  <2>7. \A q \in Objects \ {o} : q \in DOMAIN weakMap => weakMap[q] \in Ids \ {i}
    BY <2>1 DEF TablesInverse, RegistryTypeOK
  <2>8. \A q \in Objects \ {o} : RetainsOf(q)' = RetainsOf(q)
    BY <2>4, <2>5, <2>7 DEF RetainsOf
  <2>9. \A q \in Objects :
          RetainsOf(q)' = IF q = o THEN RetainsOf(q) + 1 ELSE RetainsOf(q)
    BY <2>3, <2>6, <2>8
  <2> HIDE DEF i
  <2> QED
    BY <1>0, <2>1, <2>2, <2>5, <2>9 DEF i
<1> QED
  BY <1>1, <1>2 DEF Register

(* What delete(id) does to the retains of every object.                    *)
LEMMA DeleteEffect ==
    ASSUME TablesAgree, NEW id \in DOMAIN map, Delete(id)
    PROVE  /\ map[id] \in Objects /\ RetainsOf(map[id]) > 0
           /\ \A q \in Objects :
                RetainsOf(q)' = IF q = map[id] THEN RetainsOf(q) - 1 ELSE RetainsOf(q)
           /\ \A x \in Ids :
                CountOf(x)' = IF x = id THEN CountOf(x) - 1 ELSE CountOf(x)
           /\ \A x \in DOMAIN map : CountOf(x) > 1 \/ x # id => x \in DOMAIN map'
           /\ \A x \in DOMAIN map' : x \in DOMAIN map /\ map'[x] = map[x]
<1> USE DEF TablesAgree
<1> DEFINE o == map[id]
<1>1. /\ o \in Objects /\ o \in DOMAIN weakMap /\ weakMap[o] = id
      /\ id \in DOMAIN counts /\ counts[id] \in Nat /\ counts[id] >= 1
      /\ id \in Ids
  BY DEF TablesInverse, EntriesRetained, RegistryTypeOK
<1>2. RetainsOf(o) = counts[id] /\ CountOf(id) = counts[id]
  BY <1>1 DEF RetainsOf, CountOf
<1>3. \A q \in Objects \ {o} : q \in DOMAIN weakMap => weakMap[q] \in Ids \ {id}
  BY <1>1 DEF TablesInverse, RegistryTypeOK
<1>4. CASE DeleteRetain(id)
  <2>1. /\ counts' = [counts EXCEPT ![id] = counts[id] - 1]
        /\ map' = map /\ weakMap' = weakMap
    BY <1>4 DEF DeleteRetain
  <2>2. \A x \in Ids : CountOf(x)' = IF x = id THEN CountOf(x) - 1 ELSE CountOf(x)
    BY <1>1, <2>1 DEF CountOf
  <2>3. \A q \in Objects :
          RetainsOf(q)' = IF q = o THEN RetainsOf(q) - 1 ELSE RetainsOf(q)
    BY <1>1, <1>3, <2>1, <2>2 DEF RetainsOf
  <2> QED
    BY <1>1, <1>2, <2>1, <2>2, <2>3
<1>5. CASE DeleteEntry(id)
  <2>1. /\ DOMAIN map' = DOMAIN map \ {id}
        /\ \A x \in DOMAIN map' : map'[x] = map[x]
    BY <1>5 DEF DeleteEntry, Drop, Restrict
  <2>2. /\ DOMAIN counts' = DOMAIN counts \ {id}
        /\ \A x \in DOMAIN counts' : counts'[x] = counts[x]
    BY <1>5 DEF DeleteEntry, Drop, Restrict
  <2>3. /\ DOMAIN weakMap' = DOMAIN weakMap \ {o}
        /\ \A x \in DOMAIN weakMap' : weakMap'[x] = weakMap[x]
    BY <1>5, <1>1 DEF DeleteEntry, Drop, Restrict
  <2>4. counts[id] = 1
    BY <1>5, <1>1, <1>2 DEF DeleteEntry
  <2>5. \A x \in Ids : CountOf(x)' = IF x = id THEN CountOf(x) - 1 ELSE CountOf(x)
    BY <1>1, <2>2, <2>4 DEF CountOf
  <2>6. \A q \in Objects \ {o} : RetainsOf(q)' = RetainsOf(q)
    BY <1>3, <2>3, <2>5 DEF RetainsOf
  <2>7. \A q \in Objects :
          RetainsOf(q)' = IF q = o THEN RetainsOf(q) - 1 ELSE RetainsOf(q)
    <3> SUFFICES ASSUME NEW q \in Objects, q = o
                 PROVE  RetainsOf(q)' = RetainsOf(q) - 1
      BY <2>6
    <3>1. RetainsOf(q)' = 0
      BY <2>3 DEF RetainsOf
    <3> QED
      BY <3>1, <1>2, <2>4
  <2> QED
    BY <1>1, <1>2, <2>1, <2>4, <2>5, <2>7
<1> QED
  BY <1>4, <1>5 DEF Delete

(* delete() of an id that is not registered changes nothing.               *)
LEMMA DeleteUnknown ==
    ASSUME TablesAgree, NEW id \in Ids \ DOMAIN map, Delete(id)
    PROVE  UNCHANGED regVars
<1>1. DeleteEntry(id) /\ id \notin DOMAIN counts
  BY DEF Delete, DeleteRetain, CountOf, TablesAgree, EntriesRetained
<1> QED
  BY <1>1 DEF DeleteEntry, Drop, Restrict, TablesAgree, RegistryTypeOK, regVars

-----------------------------------------------------------------------------

(* snapshot()'s loop adds the retains of one id after the other.           *)
LEMMA RetainsUpToStep ==
    ASSUME RegistryTypeOK
    PROVE  /\ RetainsUpTo[0] = 0
           /\ \A n \in 1..MaxIds : RetainsUpTo[n] = RetainsUpTo[n - 1] + CountOf(n)
<1> DEFINE Sum(g) == g = [n \in 0..MaxIds |-> IF n = 0 THEN 0 ELSE g[n - 1] + CountOf(n)]
           add == [n \in 1..MaxIds |-> [v \in Nat |-> v + CountOf(n)]]
<1>1. \A n \in 1..MaxIds : CountOf(n) \in Nat
  BY DEF CountOf, RegistryTypeOK
<1>2. add \in [1..MaxIds -> [Nat -> Nat]]
  BY <1>1
<1>3. PICK g \in [0..MaxIds -> Nat] :
        g[0] = 0 /\ \A n \in 1..MaxIds : g[n] = add[n][g[n - 1]]
  <2> HIDE DEF add
  <2>1. PICK g : Iterates(g, 0, add, MaxIds, Nat)
    BY <1>2, BoundsAssumption, Recursion, Zenon
  <2> QED
    BY <2>1 DEF Iterates
<1>4. ASSUME NEW n \in 1..MaxIds
      PROVE  g[n] = g[n - 1] + CountOf(n)
  <2>1. g[n - 1] \in Nat
    BY BoundsAssumption
  <2> QED
    BY <1>3, <2>1
<1>5. Sum(g)
  BY <1>3, <1>4, BoundsAssumption
<1>6. Sum(RetainsUpTo)
  BY <1>5, Zenon DEF RetainsUpTo
<1> HIDE DEF add
<1> QED
  BY <1>6, BoundsAssumption

(* An id names one object for good: no step of the registry binds it to    *)
(* another object, nor brings a freed id back.                             *)
THEOREM NeverRebound == RegistrySpec => IdsNeverRebound
<1> DEFINE Kept == \A id \in DOMAIN map' :
                     IF id \in DOMAIN map THEN map'[id] = map[id] ELSE id > lastId
<1>1. TablesAgree /\ [RegistryNext]_regVars => [Kept]_regVars
  <2> SUFFICES ASSUME TablesAgree, RegistryNext
               PROVE  Kept \/ UNCHANGED regVars
    BY DEF regVars
  <2>1. CASE \E o \in Objects : Register(o)
    <3>1. PICK o \in Objects : Register(o)
      BY <2>1
    <3> QED
      BY <3>1, RegisterEffect DEF TablesAgree, RegistryTypeOK
  <2>2. CASE \E id \in Ids : Delete(id)
    <3>1. PICK id \in Ids : Delete(id)
      BY <2>2
    <3>2. CASE id \in DOMAIN map
      BY <3>1, <3>2, DeleteEffect
    <3>3. CASE id \notin DOMAIN map
      BY <3>1, <3>3, DeleteUnknown
    <3> QED
      BY <3>2, <3>3
  <2> QED
    BY <2>1, <2>2 DEF RegistryNext
<1> QED
  BY <1>1, Consistent, PTL DEF RegistrySpec, IdsNeverRebound

(* The registry implements the ledger of retains per object: register adds *)
(* one to its object, delete takes one from the object its id names.       *)
THEOREM ImplementsLedger == RegistrySpec => KeepsLedger
<1> DEFINE ret == [o \in Objects |-> RetainsOf(o)]
<1>1. RegistryInit => Ledger!Init
  BY DEF RegistryInit, Ledger!Init, RetainsOf, NoEntries
<1>2. TablesAgree /\ [RegistryNext]_regVars => [Ledger!Next]_ret
  <2> SUFFICES ASSUME TablesAgree, [RegistryNext]_regVars
               PROVE  Ledger!Next \/ ret' = ret
    OBVIOUS
  <2>1. CASE \E o \in Objects : Register(o)
    <3>1. PICK o \in Objects : Register(o)
      BY <2>1
    <3>2. ret' = [ret EXCEPT ![o] = ret[o] + 1]
      BY <3>1, RegisterEffect
    <3>3. Ledger!Retain(o)
      BY <3>2 DEF Ledger!Retain
    <3> QED
      BY <3>3 DEF Ledger!Next
  <2>2. CASE \E id \in Ids : Delete(id)
    <3>1. PICK id \in Ids : Delete(id)
      BY <2>2
    <3>2. CASE id \in DOMAIN map
      <4> DEFINE o == map[id]
      <4>1. o \in Objects
        BY <3>2 DEF TablesAgree, RegistryTypeOK
      <4>2. ret[o] > 0 /\ ret' = [ret EXCEPT ![o] = ret[o] - 1]
        BY <3>1, <3>2, <4>1, DeleteEffect
      <4>3. Ledger!Release(o)
        BY <4>2 DEF Ledger!Release
      <4> QED
        BY <4>1, <4>3 DEF Ledger!Next
    <3>3. CASE id \notin DOMAIN map
      <4>1. UNCHANGED regVars
        BY <3>1, <3>3, DeleteUnknown
      <4> QED
        BY <4>1 DEF regVars, RetainsOf, CountOf
    <3> QED
      BY <3>2, <3>3
  <2>3. CASE UNCHANGED regVars
    BY <2>3 DEF regVars, RetainsOf, CountOf
  <2> QED
    BY <2>1, <2>2, <2>3 DEF RegistryNext
<1> QED
  BY <1>1, <1>2, Consistent, PTL DEF RegistrySpec, KeepsLedger, Ledger!Spec
=============================================================================

--------------------------- MODULE ObjectRegistry ---------------------------
(***************************************************************************)
(* The table of retained objects each side of a connection keeps           *)
(* (src/src/registry.ts).  An object that crosses the wire is registered   *)
(* under an id; every further crossing adds a retain to the same id; a     *)
(* `release` of the peer takes one retain away, and the last one frees the *)
(* entry.                                                                  *)
(*                                                                         *)
(* Ids come from muid().  They are numbered here in the order they are     *)
(* drawn, so a drawn id is always fresh.                                   *)
(*                                                                         *)
(* Other modules use Register and Delete in steps of their own;            *)
(* RegistryNext lets any caller do either, in any order, a Delete of an    *)
(* unknown id included.                                                    *)
(***************************************************************************)
EXTENDS Naturals, FiniteSets, Functions

CONSTANTS
    Objects,     \* the objects and functions that can be registered
    MaxIds       \* bound: how many ids muid() draws

ASSUME BoundsAssumption == MaxIds \in Nat

VARIABLES
    map,      \* id -> object
    counts,   \* id -> number of retains
    weakMap,  \* object -> id
    lastId    \* the last id muid() drew

regVars == <<map, counts, weakMap, lastId>>

Ids == 1..MaxIds

Put(f, k, v) == [x \in DOMAIN f \cup {k} |-> IF x = k THEN v ELSE f[x]]
Drop(f, k) == Restrict(f, DOMAIN f \ {k})
NoEntries == [x \in {} |-> 0]

-----------------------------------------------------------------------------

RegistryInit ==
    /\ map = NoEntries
    /\ counts = NoEntries
    /\ weakMap = NoEntries
    /\ lastId = 0

(* counts.get(id) ?? 0 *)
CountOf(id) == IF id \in DOMAIN counts THEN counts[id] ELSE 0

(* get(id): defined exactly for the registered ids *)
IsRegistered(id) == id \in DOMAIN map
Lookup(id) == map[id]

(* Mutant: the second crossing of an object does not count. *)
RegisterAgainUncounted(o) ==
    /\ o \in DOMAIN weakMap
    /\ UNCHANGED regVars

(* The object is known: one more retain on the id it already has. *)
RegisterAgain(o) ==
    /\ o \in DOMAIN weakMap
    /\ counts' = Put(counts, weakMap[o], CountOf(weakMap[o]) + 1)
    /\ UNCHANGED <<map, weakMap, lastId>>

(* Mutant: the id is the table's size, so a freed id comes back. *)
RegisterNewSizeAsId(o) ==
    /\ o \notin DOMAIN weakMap
    /\ lastId < MaxIds
    /\ lastId' = Cardinality(DOMAIN map) + 1
    /\ map' = Put(map, lastId', o)
    /\ counts' = Put(counts, lastId', 1)
    /\ weakMap' = Put(weakMap, o, lastId')

(* The object is unknown: a fresh id, entered in all three tables. *)
RegisterNew(o) ==
    /\ o \notin DOMAIN weakMap
    /\ lastId < MaxIds
    /\ lastId' = lastId + 1
    /\ map' = Put(map, lastId', o)
    /\ counts' = Put(counts, lastId', 1)
    /\ weakMap' = Put(weakMap, o, lastId')

Register(o) == RegisterAgain(o) \/ RegisterNew(o)

(* What register(o) returns, in the state it is called in. *)
RegisteredId(o) == IF o \in DOMAIN weakMap THEN weakMap[o] ELSE lastId + 1

(* delete(id) that leaves a retain behind *)
DeleteRetain(id) ==
    /\ CountOf(id) > 1
    /\ counts' = [counts EXCEPT ![id] = @ - 1]
    /\ UNCHANGED <<map, weakMap, lastId>>

(* Mutant: the object keeps its freed id. *)
DeleteEntryKeepsWeakMap(id) ==
    /\ CountOf(id) <= 1
    /\ map' = Drop(map, id)
    /\ counts' = Drop(counts, id)
    /\ UNCHANGED <<weakMap, lastId>>

(* Mutant: the first release frees the entry, however many retains it has. *)
DeleteEntryAtOnce(id) ==
    /\ weakMap' = IF id \in DOMAIN map THEN Drop(weakMap, map[id]) ELSE weakMap
    /\ map' = Drop(map, id)
    /\ counts' = Drop(counts, id)
    /\ UNCHANGED lastId

(* delete(id) of the last retain, or of an id that is not registered *)
DeleteEntry(id) ==
    /\ CountOf(id) <= 1
    /\ weakMap' = IF id \in DOMAIN map THEN Drop(weakMap, map[id]) ELSE weakMap
    /\ map' = Drop(map, id)
    /\ counts' = Drop(counts, id)
    /\ UNCHANGED lastId

Delete(id) == DeleteRetain(id) \/ DeleteEntry(id)

(* snapshot().entries *)
TotalEntries == Cardinality(DOMAIN map)

(* The retains of the ids up to n: snapshot()'s loop, which runs through   *)
(* the entries in the order they were made.                                *)
RetainsUpTo[n \in 0..MaxIds] ==
    IF n = 0 THEN 0 ELSE RetainsUpTo[n - 1] + CountOf(n)

(* snapshot().retains *)
TotalRetains == RetainsUpTo[MaxIds]

(* The retains an object has, through its id. *)
RetainsOf(o) == IF o \in DOMAIN weakMap THEN CountOf(weakMap[o]) ELSE 0

RegistryNext ==
    \/ \E o \in Objects : Register(o)
    \/ \E id \in Ids : Delete(id)

RegistrySpec == RegistryInit /\ [][RegistryNext]_regVars

-----------------------------------------------------------------------------

RegistryTypeOK ==
    /\ lastId \in 0..MaxIds
    /\ DOMAIN map \subseteq Ids /\ map \in [DOMAIN map -> Objects]
    /\ DOMAIN counts \subseteq Ids /\ counts \in [DOMAIN counts -> Nat]
    /\ DOMAIN weakMap \subseteq Objects /\ weakMap \in [DOMAIN weakMap -> Ids]

(* map and weakMap are inverse to each other: no object is registered      *)
(* under two ids, and no freed id is still handed out by register (which   *)
(* trusts weakMap alone, registry.ts:14-18).                               *)
TablesInverse ==
    /\ \A id \in DOMAIN map : map[id] \in DOMAIN weakMap /\ weakMap[map[id]] = id
    /\ \A o \in DOMAIN weakMap : weakMap[o] \in DOMAIN map /\ map[weakMap[o]] = o

(* The entries are exactly the retained ids: delete never leaves an entry  *)
(* no release can free, and get never misses an id that has a retain.      *)
EntriesRetained ==
    /\ DOMAIN map = DOMAIN counts
    /\ \A id \in DOMAIN counts : counts[id] >= 1

(* Only drawn ids are registered, so the next one is not in use. *)
IdsDrawn == \A id \in DOMAIN map : id <= lastId

(* The inductive invariant: what the three tables owe each other.  None of *)
(* the parts is inductive alone.                                           *)
TablesAgree == RegistryTypeOK /\ TablesInverse /\ EntriesRetained /\ IdsDrawn

(* An id names one object for good: no step binds a registered id to       *)
(* another object, nor registers an id that was drawn and freed.  A late   *)
(* release or a proxy that outlived its entry can then never reach an      *)
(* object it was not made for.                                             *)
IdsNeverRebound ==
    [][\A id \in DOMAIN map' :
         IF id \in DOMAIN map THEN map'[id] = map[id] ELSE id > lastId]_regVars

(* The abstract promise: a ledger of retains per object. *)
Ledger == INSTANCE RetainLedger WITH retains <- [o \in Objects |-> RetainsOf(o)]

(* register adds one retain to its object; delete takes one from the       *)
(* object the id names and touches no other; a delete of an unknown id     *)
(* changes nothing.                                                        *)
KeepsLedger == Ledger!Spec
=============================================================================

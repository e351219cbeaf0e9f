-------------------------- MODULE StreamPoolProofs --------------------------
(***************************************************************************)
(* StreamPool's safety for every finite set of callers, every set of       *)
(* streams, every configured size and every combination of failures.       *)
(***************************************************************************)
EXTENDS StreamPool, FiniteSetTheorems, SequenceTheorems, TLAPS

(* The ends of a queue and of a stack. *)
LEMMA TailFacts ==
    ASSUME NEW S, NEW q \in Seq(S), q # <<>>
    PROVE  /\ Head(q) = q[1] /\ Head(q) \in S
           /\ Tail(q) \in Seq(S)
           /\ Len(q) \in Nat /\ Len(q) >= 1 /\ Len(Tail(q)) = Len(q) - 1
           /\ \A i \in 1..(Len(q) - 1) : Tail(q)[i] = q[i + 1]
OBVIOUS

LEMMA AppendFacts ==
    ASSUME NEW S, NEW q \in Seq(S), NEW e \in S
    PROVE  /\ Append(q, e) \in Seq(S)
           /\ Len(q) \in Nat /\ Len(Append(q, e)) = Len(q) + 1
           /\ Append(q, e)[Len(q) + 1] = e
           /\ \A i \in 1..Len(q) : Append(q, e)[i] = q[i]
OBVIOUS

LEMMA PopFacts ==
    ASSUME NEW S, NEW q \in Seq(S), q # <<>>
    PROVE  /\ Len(q) \in Nat /\ Len(q) >= 1
           /\ q[Len(q)] \in S
           /\ SubSeq(q, 1, Len(q) - 1) \in Seq(S)
           /\ Len(SubSeq(q, 1, Len(q) - 1)) = Len(q) - 1
           /\ \A i \in 1..(Len(q) - 1) : SubSeq(q, 1, Len(q) - 1)[i] = q[i]
<1>1. Len(q) \in Nat /\ Len(q) >= 1 /\ q[Len(q)] \in S
  BY EmptySeq, LenProperties, ElementOfSeq
<1> DEFINE n == Len(q) - 1
<1>2. n \in Nat /\ \A i \in 1..n : q[i] \in S
  BY <1>1, ElementOfSeq
<1> HIDE DEF n
<1>3. /\ SubSeq(q, 1, n) \in Seq(S)
      /\ Len(SubSeq(q, 1, n)) = IF 1 <= n THEN n - 1 + 1 ELSE 0
      /\ \A i \in 1..(n - 1 + 1) : SubSeq(q, 1, n)[i] = q[1 + i - 1]
  BY <1>2, SubSeqProperties
<1>4. /\ Len(SubSeq(q, 1, n)) = n
      /\ \A i \in 1..n : SubSeq(q, 1, n)[i] = q[i]
  BY <1>2, <1>3
<1> QED
  BY <1>1, <1>3, <1>4 DEF n

LEMMA UsersFinite == IsFiniteSet(Users) /\ Cardinality(Users) \in Nat
BY CallersAssumption, FS_Subset, FS_CardinalityType DEF Users

LEMMA MaxFacts ==
    ASSUME NEW m \in PoolSizes PROVE EffectiveMax(m) \in Nat \ {0}
BY SizesAssumption DEF EffectiveMax

(* An empty pool is sound. *)
LEMMA InitSound == Init => PoolSound
<1> SUFFICES ASSUME Init PROVE PoolSound
  OBVIOUS
<1>1. max \in Nat \ {0}
  BY MaxFacts DEF Init
<1>2. Users = {}
  BY DEF Init, Users
<1>3. OpenCountExact
  BY <1>1, <1>2, FS_EmptySet DEF Init, OpenCountExact
<1> QED
  BY <1>1, <1>3, NoneAssumption
  DEF Init, PoolSound, TypeOK, StreamsExclusive, HeldStreamsExist, StreamsAccounted,
      QueueSound, RunningSound, CallStates

-----------------------------------------------------------------------------
(* acquire() *)

LEMMA AcquireStartsSound ==
    ASSUME PoolSound, NEW c \in Callers, AcquireStarts(c)
    PROVE  PoolSound'
<1> USE DEF PoolSound
<1>1. Users' = Users
  BY DEF Users, AcquireStarts, TypeOK
<1>2. OpenCountExact'
  BY <1>1 DEF OpenCountExact, AcquireStarts, config
<1>3. TypeOK'
  BY DEF TypeOK, AcquireStarts, CallStates, config
<1>4. StreamsExclusive' /\ HeldStreamsExist'
  BY DEF StreamsExclusive, HeldStreamsExist, AcquireStarts, TypeOK
<1>5. QueueSound'
  BY DEF QueueSound, AcquireStarts, TypeOK
<1>6. RunningSound'
  BY NoneAssumption DEF RunningSound, AcquireStarts, TypeOK
<1>7. StreamsAccounted'
  BY DEF StreamsAccounted, AcquireStarts, TypeOK
<1> QED
  BY <1>2, <1>3, <1>4, <1>5, <1>6, <1>7

LEMMA TakeIdleSound ==
    ASSUME PoolSound, NEW c \in Callers, TakeIdle(c)
    PROVE  PoolSound'
<1> USE DEF PoolSound
<1>1. /\ Len(idle) \in Nat /\ Len(idle) >= 1 /\ Top \in Streams
      /\ idle' \in Seq(Streams) /\ Len(idle') = Len(idle) - 1
      /\ \A i \in 1..(Len(idle) - 1) : idle'[i] = idle[i]
      /\ call[c] = "acquiring" /\ held[c] = None /\ Top # None
  BY PopFacts, NoneAssumption
  DEF TakeIdle, TypeOK, Top, Popped, RunningSound, HeldStreamsExist
<1>2. Users' = Users \cup {c} /\ c \notin Users
  BY <1>1 DEF Users, TakeIdle, TypeOK
<1>3. Cardinality(Users') = Cardinality(Users) + 1
  BY <1>2, UsersFinite, FS_AddElement
<1>4. OpenCountExact'
  BY <1>1, <1>3, UsersFinite DEF OpenCountExact, TakeIdle, TypeOK, config
<1>5. TypeOK'
  BY <1>1 DEF TypeOK, TakeIdle, CallStates, config
<1>6. StreamsExclusive'
  BY <1>1, NoneAssumption DEF StreamsExclusive, TakeIdle, TypeOK, Top
<1>7. HeldStreamsExist'
  BY <1>1, NoneAssumption DEF HeldStreamsExist, TakeIdle, TypeOK
<1>8. QueueSound' /\ RunningSound'
  BY <1>1, NoneAssumption DEF QueueSound, RunningSound, TakeIdle, TypeOK
<1>9. StreamsAccounted'
  <2> SUFFICES ASSUME NEW s \in Streams, stream'[s] # "free"
               PROVE  (\E d \in Callers : held'[d] = s) \/ \E i \in 1..Len(idle') : idle'[i] = s
    BY DEF StreamsAccounted
  <2>1. stream[s] # "free" /\ held' = [held EXCEPT ![c] = Top]
    BY DEF TakeIdle
  <2>2. CASE s = Top
    <3>1. held'[c] = s
      BY <2>1, <2>2 DEF TypeOK
    <3> QED
      BY <3>1
  <2>3. ASSUME NEW d \in Callers, held[d] = s, s # Top
        PROVE  \E e \in Callers : held'[e] = s
    <3>1. d # c /\ held'[d] = s
      BY <2>1, <2>3, <1>1, NoneAssumption DEF TypeOK
    <3> QED
      BY <3>1
  <2>4. ASSUME NEW i \in 1..Len(idle), idle[i] = s, s # Top
        PROVE  \E j \in 1..Len(idle') : idle'[j] = s
    <3>1. i \in 1..Len(idle') /\ idle'[i] = s
      BY <2>4, <1>1 DEF Top
    <3> QED
      BY <3>1
  <2> QED
    BY <2>1, <2>2, <2>3, <2>4 DEF StreamsAccounted
<1> QED
  BY <1>4, <1>5, <1>6, <1>7, <1>8, <1>9

(* Nobody waits while there are idle streams, so the slot of a discarded   *)
(* one is not taken again.                                                 *)
LEMMA DiscardIdleSound ==
    ASSUME PoolSound, NEW c \in Callers, DiscardIdle(c)
    PROVE  PoolSound'
<1> USE DEF PoolSound
<1>1. /\ Len(idle) \in Nat /\ Len(idle) >= 1 /\ Top \in Streams
      /\ idle' \in Seq(Streams) /\ Len(idle') = Len(idle) - 1
      /\ \A i \in 1..(Len(idle) - 1) : idle'[i] = idle[i]
  BY PopFacts DEF DiscardIdle, TypeOK, Top, Popped
<1>2. pending = <<>> /\ pending' = pending /\ call' = call
  BY DEF DiscardIdle, QueueSound, GiveUpSlot
<1>3. openCount' = openCount - 1
  BY <1>1, <1>2, UsersFinite DEF DiscardIdle, GiveUpSlot, OneLess, OpenCountExact, TypeOK
<1>4. OpenCountExact'
  BY <1>1, <1>2, <1>3, UsersFinite DEF OpenCountExact, DiscardIdle, TypeOK, Users, config
<1>5. TypeOK'
  BY <1>1, <1>2, <1>3, UsersFinite DEF TypeOK, DiscardIdle, OpenCountExact, config
<1>6. StreamsExclusive'
  BY <1>1 DEF StreamsExclusive, DiscardIdle, TypeOK
<1>7. HeldStreamsExist'
  BY <1>1, <1>2 DEF HeldStreamsExist, DiscardIdle, TypeOK, StreamsExclusive, Top
<1>8. QueueSound' /\ RunningSound'
  BY <1>2 DEF QueueSound, RunningSound, DiscardIdle
<1>9. StreamsAccounted'
  <2> SUFFICES ASSUME NEW s \in Streams, stream'[s] # "free"
               PROVE  (\E d \in Callers : held'[d] = s) \/ \E i \in 1..Len(idle') : idle'[i] = s
    BY DEF StreamsAccounted
  <2>1. stream[s] # "free" /\ s # Top /\ held' = held
    BY <1>1 DEF DiscardIdle, TypeOK
  <2>2. ASSUME NEW i \in 1..Len(idle), idle[i] = s
        PROVE  \E j \in 1..Len(idle') : idle'[j] = s
    <3>1. i \in 1..Len(idle') /\ idle'[i] = s
      BY <2>1, <2>2, <1>1 DEF Top
    <3> QED
      BY <3>1
  <2> QED
    BY <2>1, <2>2 DEF StreamsAccounted
<1> QED
  BY <1>4, <1>5, <1>6, <1>7, <1>8, <1>9

LEMMA OpenNewSound ==
    ASSUME PoolSound, NEW c \in Callers, OpenNew(c)
    PROVE  PoolSound'
<1> USE DEF PoolSound
<1>1. call[c] = "acquiring" /\ held[c] = None
  BY DEF OpenNew, RunningSound, HeldStreamsExist
<1>2. Users' = Users \cup {c} /\ c \notin Users
  BY <1>1 DEF Users, OpenNew, TypeOK
<1>3. Cardinality(Users') = Cardinality(Users) + 1
  BY <1>2, UsersFinite, FS_AddElement
<1>4. OpenCountExact'
  BY <1>3, UsersFinite DEF OpenCountExact, OpenNew, TypeOK, config
<1>5. TypeOK'
  BY DEF TypeOK, OpenNew, CallStates, config
<1>6. StreamsExclusive'
  BY DEF StreamsExclusive, OpenNew
<1>7. HeldStreamsExist'
  BY <1>1 DEF HeldStreamsExist, OpenNew, TypeOK
<1>8. QueueSound' /\ RunningSound'
  BY <1>1, NoneAssumption DEF QueueSound, RunningSound, OpenNew, TypeOK
<1>9. StreamsAccounted'
  BY DEF StreamsAccounted, OpenNew
<1> QED
  BY <1>4, <1>5, <1>6, <1>7, <1>8, <1>9

LEMMA WaitSound ==
    ASSUME PoolSound, NEW c \in Callers, Wait(c)
    PROVE  PoolSound'
<1> USE DEF PoolSound
<1>1. call[c] = "acquiring" /\ held[c] = None
  BY DEF Wait, RunningSound, HeldStreamsExist
<1>2. Users' = Users
  BY <1>1 DEF Users, Wait, TypeOK
<1>3. /\ pending' \in Seq(Callers)
      /\ Len(pending) \in Nat /\ Len(pending') = Len(pending) + 1
      /\ pending'[Len(pending) + 1] = c
      /\ \A i \in 1..Len(pending) : pending'[i] = pending[i]
  BY AppendFacts DEF Wait, TypeOK
<1>4. OpenCountExact'
  BY <1>2 DEF OpenCountExact, Wait, config
<1>5. TypeOK'
  BY <1>3 DEF TypeOK, Wait, CallStates, config
<1>6. StreamsExclusive'
  BY DEF StreamsExclusive, Wait
<1>7. HeldStreamsExist'
  BY <1>1 DEF HeldStreamsExist, Wait, TypeOK
<1>8. \A i \in 1..Len(pending) : pending[i] \in Callers \ {c}
  BY <1>1 DEF QueueSound, TypeOK
<1>9. QueueSound'
  <2>1. \A i, j \in 1..Len(pending') : pending'[i] = pending'[j] => i = j
    BY <1>3, <1>8 DEF QueueSound
  <2>2. \A i \in 1..Len(pending') : call'[pending'[i]] = "waiting"
    BY <1>3, <1>8 DEF QueueSound, Wait, TypeOK
  <2>3. \A d \in Callers :
          call'[d] = "waiting" => \E i \in 1..Len(pending') : pending'[i] = d
    <3> SUFFICES ASSUME NEW d \in Callers, call'[d] = "waiting"
                 PROVE  \E i \in 1..Len(pending') : pending'[i] = d
      OBVIOUS
    <3>1. CASE d = c
      BY <1>3, <3>1
    <3>2. CASE d # c
      <4>1. PICK i \in 1..Len(pending) : pending[i] = d
        BY <3>2 DEF QueueSound, Wait, TypeOK
      <4> QED
        BY <1>3, <4>1
    <3> QED
      BY <3>1, <3>2
  <2> QED
    BY <2>1, <2>2, <2>3 DEF QueueSound, Wait
<1>10. RunningSound'
  BY <1>1, NoneAssumption DEF RunningSound, Wait, TypeOK
<1>11. StreamsAccounted'
  BY DEF StreamsAccounted, Wait
<1> QED
  BY <1>4, <1>5, <1>6, <1>7, <1>9, <1>10, <1>11

-----------------------------------------------------------------------------
(* openStream() settles *)

LEMMA OpenSucceedsSound ==
    ASSUME PoolSound, NEW c \in Callers, OpenSucceeds(c)
    PROVE  PoolSound'
<1> USE DEF PoolSound
<1>1. PICK s \in Streams : /\ stream[s] = "free"
                           /\ stream' = [stream EXCEPT ![s] = "open"]
                           /\ held' = [held EXCEPT ![c] = s]
  BY DEF OpenSucceeds
<1>2. /\ \A d \in Callers : held[d] # s
      /\ \A i \in 1..Len(idle) : idle[i] # s
      /\ s # None
  BY <1>1, NoneAssumption DEF HeldStreamsExist, TypeOK
<1>3. Users' = Users
  BY DEF Users, OpenSucceeds, TypeOK
<1>4. OpenCountExact'
  BY <1>3 DEF OpenCountExact, OpenSucceeds, config
<1>5. TypeOK'
  BY <1>1 DEF TypeOK, OpenSucceeds, CallStates, config
<1>6. StreamsExclusive'
  BY <1>1, <1>2 DEF StreamsExclusive, OpenSucceeds, TypeOK
<1>7. HeldStreamsExist'
  BY <1>1, <1>2 DEF HeldStreamsExist, OpenSucceeds, TypeOK
<1>8. QueueSound' /\ RunningSound'
  BY DEF QueueSound, RunningSound, OpenSucceeds, TypeOK
<1>9. StreamsAccounted'
  <2> SUFFICES ASSUME NEW t \in Streams, stream'[t] # "free"
               PROVE  (\E d \in Callers : held'[d] = t) \/ \E i \in 1..Len(idle') : idle'[i] = t
    BY DEF StreamsAccounted
  <2>1. idle' = idle /\ held[c] = None
    BY DEF OpenSucceeds, HeldStreamsExist
  <2>2. CASE t = s
    <3>1. held'[c] = t
      BY <1>1, <2>2 DEF TypeOK
    <3> QED
      BY <3>1
  <2>3. CASE t # s
    <3>1. stream[t] # "free" /\ t # None
      BY <1>1, <2>3, NoneAssumption DEF TypeOK
    <3>2. \A d \in Callers : held[d] = t => held'[d] = t
      BY <1>1, <2>1, <3>1 DEF TypeOK
    <3> QED
      BY <2>1, <3>1, <3>2 DEF StreamsAccounted
  <2> QED
    BY <2>2, <2>3
<1> QED
  BY <1>4, <1>5, <1>6, <1>7, <1>8, <1>9

(* Either way an opening fails, its slot is given back. *)
LEMMA FailureSound ==
    ASSUME PoolSound, NEW c \in Callers, OpenFails(c) \/ ReopenFails(c)
    PROVE  PoolSound'
<1> USE DEF PoolSound
<1>1. /\ call[c] \in {"opening", "reopening"}
      /\ openCount' = OneLess(openCount)
      /\ \E x \in {"none", "lost"} : call' = [call EXCEPT ![c] = x]
      /\ running = None
      /\ UNCHANGED <<max, reuse, idle, pending, running, held, stream, session>>
  BY DEF OpenFails, ReopenFails, config
<1>2. PICK x \in {"none", "lost"} : call' = [call EXCEPT ![c] = x]
  BY <1>1
<1>3. Users' = Users \ {c} /\ c \in Users
  BY <1>1, <1>2 DEF Users, TypeOK
<1>4. Cardinality(Users') = Cardinality(Users) - 1
  BY <1>3, UsersFinite, FS_RemoveElement
<1>5. Cardinality(Users') \in Nat /\ Len(idle) \in Nat
  BY <1>3, UsersFinite, FS_RemoveElement, FS_CardinalityType DEF TypeOK
<1>6. openCount' = openCount - 1
  BY <1>1, <1>4, <1>5, UsersFinite DEF OneLess, OpenCountExact, TypeOK
<1>7. OpenCountExact'
  BY <1>1, <1>4, <1>6, UsersFinite DEF OpenCountExact, TypeOK
<1>8. TypeOK'
  BY <1>1, <1>2, <1>4, <1>5, <1>6, UsersFinite DEF TypeOK, CallStates, OpenCountExact
<1>9. StreamsExclusive'
  BY <1>1 DEF StreamsExclusive
<1>10. HeldStreamsExist'
  BY <1>1, <1>2 DEF HeldStreamsExist, TypeOK
<1>11. QueueSound' /\ RunningSound'
  BY <1>1, <1>2 DEF QueueSound, RunningSound, TypeOK
<1>12. StreamsAccounted'
  BY <1>1 DEF StreamsAccounted
<1> QED
  BY <1>7, <1>8, <1>9, <1>10, <1>11, <1>12

-----------------------------------------------------------------------------
(* release(stream) *)

(* Giving up a slot with no one waiting takes one off openCount.           *)
LEMMA SlotGivenUp ==
    ASSUME PoolSound, NEW calls, GiveUpSlot(calls), pending = <<>>, openCount >= 1
    PROVE  openCount' = openCount - 1 /\ pending' = pending /\ call' = calls
BY DEF GiveUpSlot, OneLess, PoolSound, TypeOK

(* With someone waiting the slot goes to the first in the queue.           *)
LEMMA SlotHandedOver ==
    ASSUME PoolSound, NEW calls, GiveUpSlot(calls), pending # <<>>, openCount >= 1
    PROVE  /\ openCount' = openCount
           /\ pending' = Tail(pending)
           /\ call' = [calls EXCEPT ![Head(pending)] = "reopening"]
<1>1. openCount \in Nat /\ max \in Nat /\ openCount <= max
  BY DEF PoolSound, TypeOK, OpenCountExact
<1>2. OneLess(openCount) < max /\ OneLess(openCount) + 1 = openCount
  BY <1>1 DEF OneLess
<1> QED
  BY <1>2 DEF GiveUpSlot

(* Taking the first waiter off the queue and giving it another state keeps *)
(* the queue sound, whatever becomes of the caller c that released.        *)
LEMMA DequeueSound ==
    ASSUME PoolSound, pending # <<>>, NEW c \in Callers, call[c] = "using",
           NEW x \in {"reopening", "using"},
           idle' = idle,
           pending' = Tail(pending),
           call' = [call EXCEPT ![c] = "none", ![Head(pending)] = x]
    PROVE  QueueSound'
<1> DEFINE w == Head(pending)
<1>1. /\ w = pending[1] /\ w \in Callers
      /\ Len(pending) \in Nat /\ Len(pending) >= 1
      /\ pending' \in Seq(Callers) /\ Len(pending') = Len(pending) - 1
      /\ \A i \in 1..(Len(pending) - 1) : pending'[i] = pending[i + 1]
  BY TailFacts DEF PoolSound, TypeOK
<1>2. /\ \A i, j \in 1..Len(pending) : pending[i] = pending[j] => i = j
      /\ \A i \in 1..Len(pending) : call[pending[i]] = "waiting" /\ pending[i] \in Callers
      /\ \A d \in Callers : call[d] = "waiting" => \E i \in 1..Len(pending) : pending[i] = d
  BY DEF PoolSound, QueueSound, TypeOK
<1>3. call \in [Callers -> CallStates] /\ call'[w] = x
  BY <1>1 DEF PoolSound, TypeOK
<1> HIDE DEF w
<1>4. \A i, j \in 1..Len(pending') : pending'[i] = pending'[j] => i = j
  BY <1>1, <1>2
<1>5. \A i \in 1..Len(pending') : pending'[i] \in Callers \ {w, c}
  BY <1>1, <1>2
<1>6. \A i \in 1..Len(pending') : call'[pending'[i]] = "waiting"
  BY <1>1, <1>2, <1>3, <1>5 DEF w
<1>7. \A d \in Callers :
        call'[d] = "waiting" => \E i \in 1..Len(pending') : pending'[i] = d
  <2> SUFFICES ASSUME NEW d \in Callers, call'[d] = "waiting"
               PROVE  \E i \in 1..Len(pending') : pending'[i] = d
    OBVIOUS
  <2>1. d # w /\ call[d] = "waiting"
    BY <1>3 DEF w
  <2>2. PICK i \in 1..Len(pending) : pending[i] = d
    BY <1>2, <2>1
  <2>3. i # 1 /\ i - 1 \in 1..Len(pending') /\ pending'[i - 1] = pending[i]
    BY <1>1, <2>1, <2>2
  <2> QED
    BY <2>2, <2>3
<1>8. idle' # <<>> => pending' = <<>>
  BY DEF PoolSound, QueueSound
<1> QED
  BY <1>4, <1>6, <1>7, <1>8 DEF QueueSound

(* What holds whenever a caller releases its stream. *)
LEMMA ReleasingFacts ==
    ASSUME PoolSound, NEW c \in Callers, call[c] = "using"
    PROVE  /\ held[c] \in Streams /\ held[c] # None
           /\ stream[held[c]] # "free"
           /\ c \in Users
           /\ Cardinality(Users \ {c}) = Cardinality(Users) - 1
           /\ Cardinality(Users) \in Nat /\ Cardinality(Users) >= 1
           /\ IsFiniteSet(Users \ {c})
           /\ Len(idle) \in Nat /\ openCount \in Nat /\ openCount >= 1
<1>1. c \in Users
  BY DEF Users
<1>2. /\ IsFiniteSet(Users \ {c})
      /\ Cardinality(Users \ {c}) = Cardinality(Users) - 1
      /\ Cardinality(Users \ {c}) \in Nat
  BY <1>1, UsersFinite, FS_RemoveElement, FS_CardinalityType
<1>3. held[c] \in Streams /\ held[c] # None /\ stream[held[c]] # "free"
  BY DEF PoolSound, HeldStreamsExist, TypeOK
<1>4. Len(idle) \in Nat /\ openCount \in Nat
  BY DEF PoolSound, TypeOK
<1> QED
  BY <1>1, <1>2, <1>3, <1>4, UsersFinite DEF PoolSound, OpenCountExact

(* The stream of c is dropped by the pool and nobody waits. *)
LEMMA DropSound ==
    ASSUME PoolSound, NEW c \in Callers, Returned(c), pending = <<>>,
           stream' = [stream EXCEPT ![held[c]] = "free"],
           GiveUpSlot([call EXCEPT ![c] = "none"]),
           UNCHANGED idle
    PROVE  PoolSound'
<1> USE DEF PoolSound
<1>1. /\ call[c] = "using" /\ running = None /\ running' = None
      /\ held' = [held EXCEPT ![c] = None]
      /\ max' = max /\ reuse' = reuse /\ session' = session
  BY DEF Returned, config
<1>2. /\ openCount' = openCount - 1 /\ pending' = pending
      /\ call' = [call EXCEPT ![c] = "none"]
  BY <1>1, SlotGivenUp, ReleasingFacts
<1>3. Users' = Users \ {c}
  BY <1>1, <1>2 DEF Users, TypeOK
<1>4. OpenCountExact'
  <2>1. /\ Cardinality(Users') = Cardinality(Users) - 1
        /\ Cardinality(Users) \in Nat /\ Len(idle) \in Nat
        /\ openCount \in Nat /\ max \in Nat
    BY <1>1, <1>3, ReleasingFacts DEF TypeOK
  <2>2. openCount = Len(idle) + Cardinality(Users) /\ openCount <= max
    BY DEF OpenCountExact
  <2>3. idle' = idle /\ max' = max /\ openCount' = openCount - 1
    BY <1>1, <1>2
  <2> HIDE DEF PoolSound
  <2> QED
    BY <2>1, <2>2, <2>3 DEF OpenCountExact
<1>5. TypeOK'
  <2>1. openCount' \in Nat
    <3>1. openCount \in Nat /\ openCount >= 1
      BY <1>1, ReleasingFacts
    <3>2. openCount' = openCount - 1
      BY <1>2
    <3> QED
      BY <3>1, <3>2
  <2>2. /\ call' \in [Callers -> CallStates]
        /\ held' \in [Callers -> Streams \cup {None}]
        /\ stream' \in [Streams -> {"free", "open", "closed"}]
    BY <1>1, <1>2 DEF TypeOK, CallStates
  <2> QED
    BY <1>1, <1>2, <2>1, <2>2 DEF TypeOK
<1>6. StreamsExclusive'
  BY <1>1, NoneAssumption DEF StreamsExclusive, TypeOK
<1>7. HeldStreamsExist'
  BY <1>1, <1>2, ReleasingFacts DEF HeldStreamsExist, TypeOK, StreamsExclusive
<1>8. QueueSound' /\ RunningSound'
  BY <1>1, <1>2 DEF QueueSound, RunningSound, TypeOK
<1>9. StreamsAccounted'
  <2> SUFFICES ASSUME NEW s \in Streams, stream'[s] # "free"
               PROVE  (\E d \in Callers : held'[d] = s) \/ \E i \in 1..Len(idle') : idle'[i] = s
    BY DEF StreamsAccounted
  <2>1. stream[s] # "free" /\ s # held[c] /\ idle' = idle
    BY <1>1, ReleasingFacts DEF TypeOK
  <2>2. \A d \in Callers : held[d] = s => held'[d] = s
    BY <1>1, <2>1 DEF TypeOK
  <2> QED
    BY <2>1, <2>2 DEF StreamsAccounted
<1> QED
  BY <1>4, <1>5, <1>6, <1>7, <1>8, <1>9

(* The stream of c has closed and a caller waits: its slot is used to open *)
(* another stream for the waiter.                                          *)
LEMMA ReplaceSound ==
    ASSUME PoolSound, NEW c \in Callers, ReleaseClosed(c), pending # <<>>
    PROVE  PoolSound'
<1> USE DEF PoolSound
<1> DEFINE w == Head(pending)
<1>1. /\ call[c] = "using" /\ running = None /\ running' = None
      /\ held' = [held EXCEPT ![c] = None]
      /\ stream' = [stream EXCEPT ![held[c]] = "free"]
      /\ max' = max /\ reuse' = reuse /\ session' = session /\ idle' = idle
      /\ GiveUpSlot([call EXCEPT ![c] = "none"])
  BY DEF ReleaseClosed, Returned, config
<1>2. w \in Callers /\ call[w] = "waiting" /\ w # c /\ held[w] = None
  BY <1>1, TailFacts DEF QueueSound, TypeOK, HeldStreamsExist
<1>3. /\ openCount' = openCount /\ pending' = Tail(pending)
      /\ call' = [call EXCEPT ![c] = "none", ![w] = "reopening"]
  BY <1>1, SlotHandedOver, ReleasingFacts
<1>4. Users' = (Users \ {c}) \cup {w} /\ w \notin Users \ {c}
  BY <1>1, <1>2, <1>3 DEF Users, TypeOK
<1>5. Cardinality(Users') = Cardinality(Users)
  <2>1. /\ IsFiniteSet(Users \ {c}) /\ Cardinality(Users) \in Nat
        /\ Cardinality(Users \ {c}) = Cardinality(Users) - 1
    BY <1>1, ReleasingFacts
  <2>2. Cardinality(Users') = Cardinality(Users \ {c}) + 1
    BY <2>1, <1>4, FS_AddElement
  <2> QED
    BY <2>1, <2>2
<1>6. OpenCountExact'
  BY <1>1, <1>3, <1>5 DEF OpenCountExact
<1>7. TypeOK'
  <2>1. pending' \in Seq(Callers)
    BY <1>3, TailFacts DEF TypeOK
  <2> QED
    BY <2>1, <1>1, <1>2, <1>3, ReleasingFacts DEF TypeOK, CallStates
<1>8. StreamsExclusive'
  BY <1>1, NoneAssumption DEF StreamsExclusive, TypeOK
<1>9. HeldStreamsExist'
  BY <1>1, <1>2, <1>3, ReleasingFacts DEF HeldStreamsExist, TypeOK, StreamsExclusive
<1>10. QueueSound'
  BY <1>1, <1>3, DequeueSound
<1>11. RunningSound'
  BY <1>1, <1>2, <1>3 DEF RunningSound, TypeOK
<1>12. StreamsAccounted'
  <2> SUFFICES ASSUME NEW s \in Streams, stream'[s] # "free"
               PROVE  (\E d \in Callers : held'[d] = s) \/ \E i \in 1..Len(idle') : idle'[i] = s
    BY DEF StreamsAccounted
  <2>1. stream[s] # "free" /\ s # held[c] /\ idle' = idle
    BY <1>1, ReleasingFacts DEF TypeOK
  <2>2. \A d \in Callers : held[d] = s => held'[d] = s
    BY <1>1, <2>1 DEF TypeOK
  <2> QED
    BY <2>1, <2>2 DEF StreamsAccounted
<1> QED
  BY <1>6, <1>7, <1>8, <1>9, <1>10, <1>11, <1>12

LEMMA ReleaseToWaiterSound ==
    ASSUME PoolSound, NEW c \in Callers, ReleaseToWaiter(c)
    PROVE  PoolSound'
<1> USE DEF PoolSound
<1> DEFINE w == Head(pending)
<1>1. /\ call[c] = "using" /\ running = None /\ running' = None
      /\ stream[held[c]] = "open" /\ pending # <<>>
      /\ pending' = Tail(pending)
      /\ held' = [held EXCEPT ![c] = None, ![w] = held[c]]
      /\ call' = [call EXCEPT ![c] = "none", ![w] = "using"]
      /\ UNCHANGED <<max, reuse, openCount, idle, stream, session>>
  BY DEF ReleaseToWaiter, config
<1>2. w \in Callers /\ call[w] = "waiting" /\ w # c /\ held[w] = None
  BY <1>1, TailFacts DEF QueueSound, TypeOK, HeldStreamsExist
<1>3. Users' = (Users \ {c}) \cup {w} /\ w \notin Users \ {c}
  BY <1>1, <1>2 DEF Users, TypeOK
<1>4. Cardinality(Users') = Cardinality(Users)
  <2>1. /\ IsFiniteSet(Users \ {c}) /\ Cardinality(Users) \in Nat
        /\ Cardinality(Users \ {c}) = Cardinality(Users) - 1
    BY <1>1, ReleasingFacts
  <2>2. Cardinality(Users') = Cardinality(Users \ {c}) + 1
    BY <2>1, <1>3, FS_AddElement
  <2> QED
    BY <2>1, <2>2
<1>5. OpenCountExact'
  BY <1>1, <1>4 DEF OpenCountExact
<1>6. TypeOK'
  <2>1. pending' \in Seq(Callers)
    BY <1>1, TailFacts DEF TypeOK
  <2> QED
    BY <2>1, <1>1, <1>2, ReleasingFacts DEF TypeOK, CallStates
<1>7. StreamsExclusive'
  BY <1>1, <1>2, NoneAssumption, ReleasingFacts DEF StreamsExclusive, TypeOK
<1>8. HeldStreamsExist'
  BY <1>1, <1>2, ReleasingFacts DEF HeldStreamsExist, TypeOK
<1>9. QueueSound'
  BY <1>1, DequeueSound
<1>10. RunningSound'
  BY <1>1, <1>2 DEF RunningSound, TypeOK
<1>11. StreamsAccounted'
  <2> SUFFICES ASSUME NEW s \in Streams, stream'[s] # "free"
               PROVE  (\E d \in Callers : held'[d] = s) \/ \E i \in 1..Len(idle') : idle'[i] = s
    BY DEF StreamsAccounted
  <2>1. stream[s] # "free" /\ idle' = idle /\ s # None
    BY <1>1, NoneAssumption
  <2>2. CASE s = held[c]
    <3>1. held'[w] = s
      BY <1>1, <1>2, <2>2 DEF TypeOK
    <3> QED
      BY <3>1, <1>2
  <2>3. CASE s # held[c]
    <3>1. \A d \in Callers : held[d] = s => held'[d] = s
      BY <1>1, <1>2, <2>1, <2>3 DEF TypeOK
    <3> QED
      BY <2>1, <3>1 DEF StreamsAccounted
  <2> QED
    BY <2>2, <2>3
<1> QED
  BY <1>5, <1>6, <1>7, <1>8, <1>9, <1>10, <1>11

LEMMA ReleaseToIdleSound ==
    ASSUME PoolSound, NEW c \in Callers, ReleaseToIdle(c)
    PROVE  PoolSound'
<1> USE DEF PoolSound
<1>1. /\ call[c] = "using" /\ running = None /\ running' = None
      /\ held' = [held EXCEPT ![c] = None]
      /\ idle' = Append(idle, held[c])
      /\ call' = [call EXCEPT ![c] = "none"]
      /\ pending = <<>>
      /\ UNCHANGED <<max, reuse, openCount, pending, stream, session>>
  BY DEF ReleaseToIdle, Returned, config
<1>2. /\ idle' \in Seq(Streams)
      /\ Len(idle) \in Nat /\ Len(idle') = Len(idle) + 1
      /\ idle'[Len(idle) + 1] = held[c]
      /\ \A i \in 1..Len(idle) : idle'[i] = idle[i]
  <2>1. held[c] \in Streams /\ idle \in Seq(Streams)
    BY <1>1, ReleasingFacts DEF TypeOK
  <2> QED
    BY <1>1, <2>1, AppendFacts
<1>3. Users' = Users \ {c}
  BY <1>1 DEF Users, TypeOK
<1>4. OpenCountExact'
  <2>1. /\ Cardinality(Users') = Cardinality(Users) - 1
        /\ Cardinality(Users) \in Nat /\ Len(idle) \in Nat
        /\ openCount \in Nat /\ max \in Nat
    BY <1>1, <1>3, ReleasingFacts DEF TypeOK
  <2> QED
    BY <1>1, <1>2, <2>1 DEF OpenCountExact
<1>5. TypeOK'
  BY <1>1, <1>2 DEF TypeOK, CallStates
<1>6. StreamsExclusive'
  <2>1. held[c] # None /\ \A i \in 1..Len(idle) : idle[i] # held[c] /\ idle[i] \in Streams
    <3>1. \A i \in 1..Len(idle) : idle[i] # held[c]
      BY DEF StreamsExclusive
    <3>2. \A i \in 1..Len(idle) : idle[i] \in Streams
      BY ElementOfSeq DEF TypeOK
    <3>3. held[c] # None
      BY <1>1, ReleasingFacts
    <3> QED
      BY <3>1, <3>2, <3>3
  <2>2. \A i, j \in 1..Len(idle') : idle'[i] = idle'[j] => i = j
    BY <1>2, <2>1 DEF StreamsExclusive
  <2>3. \A d \in Callers, i \in 1..Len(idle') : held'[d] # idle'[i]
    BY <1>1, <1>2, <2>1, NoneAssumption DEF StreamsExclusive, TypeOK
  <2>4. \A d, e \in Callers : held'[d] # None /\ held'[d] = held'[e] => d = e
    BY <1>1 DEF StreamsExclusive, TypeOK
  <2> QED
    BY <2>2, <2>3, <2>4 DEF StreamsExclusive
<1>7. HeldStreamsExist'
  BY <1>1, <1>2, ReleasingFacts DEF HeldStreamsExist, TypeOK
<1>8. QueueSound' /\ RunningSound'
  BY <1>1 DEF QueueSound, RunningSound, TypeOK
<1>9. StreamsAccounted'
  <2> SUFFICES ASSUME NEW s \in Streams, stream'[s] # "free"
               PROVE  (\E d \in Callers : held'[d] = s) \/ \E i \in 1..Len(idle') : idle'[i] = s
    BY DEF StreamsAccounted
  <2>1. stream[s] # "free"
    BY <1>1
  <2>2. CASE s = held[c]
    <3>1. Len(idle) + 1 \in 1..Len(idle') /\ idle'[Len(idle) + 1] = s
      BY <1>2, <2>2
    <3> QED
      BY <3>1
  <2>3. CASE s # held[c]
    <3>1. \A d \in Callers : held[d] = s => held'[d] = s
      BY <1>1, <2>3 DEF TypeOK
    <3>2. \A i \in 1..Len(idle) : i \in 1..Len(idle') /\ idle'[i] = idle[i]
      BY <1>2
    <3> QED
      BY <2>1, <3>1, <3>2 DEF StreamsAccounted
  <2> QED
    BY <2>2, <2>3
<1> QED
  BY <1>4, <1>5, <1>6, <1>7, <1>8, <1>9

LEMMA ReleaseSound ==
    ASSUME PoolSound, NEW c \in Callers, Release(c)
    PROVE  PoolSound'
<1>1. CASE ReleaseClosed(c) /\ pending = <<>>
  BY <1>1, DropSound DEF ReleaseClosed
<1>2. CASE ReleaseClosed(c) /\ pending # <<>>
  BY <1>2, ReplaceSound
<1>3. CASE ReleaseAndReset(c)
  BY <1>3, DropSound DEF ReleaseAndReset
<1> QED
  BY <1>1, <1>2, <1>3, ReleaseToWaiterSound, ReleaseToIdleSound DEF Release

-----------------------------------------------------------------------------
(* the connection *)

(* Closing streams takes nothing from anybody: users and idle streams stay *)
(* accounted for until they are released or popped.                        *)
LEMMA ClosingSound ==
    ASSUME PoolSound,
           stream' \in [Streams -> {"free", "open", "closed"}],
           \A s \in Streams : stream'[s] = "free" <=> stream[s] = "free",
           session' \in BOOLEAN,
           UNCHANGED <<config, openCount, idle, pending, running, call, held>>
    PROVE  PoolSound'
<1> USE DEF PoolSound
<1>1. Users' = Users
  BY DEF Users
<1>2. TypeOK' /\ OpenCountExact' /\ QueueSound' /\ RunningSound'
  BY <1>1 DEF TypeOK, OpenCountExact, QueueSound, RunningSound, config
<1>3. StreamsExclusive' /\ HeldStreamsExist'
  BY DEF TypeOK, StreamsExclusive, HeldStreamsExist
<1>4. StreamsAccounted'
  BY DEF StreamsAccounted
<1> QED
  BY <1>2, <1>3, <1>4

(* For every configuration and whatever fails, openCount is the number of  *)
(* slots taken and never above max, streams have one user each, and the    *)
(* queue holds exactly the waiting calls.                                  *)
THEOREM Sound == Spec => []PoolSound
<1>1. PoolSound /\ [Next]_vars => PoolSound'
  <2> SUFFICES ASSUME PoolSound, [Next]_vars PROVE PoolSound'
    OBVIOUS
  <2>1. ASSUME NEW c \in Callers,
               \/ AcquireStarts(c) \/ RunAcquire(c)
               \/ OpenSucceeds(c) \/ OpenFails(c) \/ ReopenFails(c)
               \/ Release(c)
        PROVE  PoolSound'
    BY <2>1, AcquireStartsSound, TakeIdleSound, DiscardIdleSound, OpenNewSound, WaitSound,
       OpenSucceedsSound, FailureSound, ReleaseSound DEF RunAcquire
  <2>2. ASSUME NEW s \in Streams, StreamCloses(s) PROVE PoolSound'
    BY <2>2, ClosingSound DEF StreamCloses, PoolSound, TypeOK
  <2>3. CASE SessionCloses
    BY <2>3, ClosingSound DEF SessionCloses, PoolSound, TypeOK
  <2>4. CASE UNCHANGED vars
    <3>1. UNCHANGED <<config, openCount, idle, pending, running, call, held, stream, session>>
      BY <2>4 DEF vars, config
    <3> QED
      BY <3>1, ClosingSound DEF PoolSound, TypeOK
  <2> QED
    BY <2>1, <2>2, <2>3, <2>4 DEF Next
<1> QED
  BY <1>1, InitSound, PTL DEF Spec

-----------------------------------------------------------------------------
(* The pool as a semaphore, when streams can be opened. *)

(* What the refinement needs beyond PoolSound: the session is up, and a    *)
(* call waits only while all slots are taken.                              *)
AtCapacity == PoolSound /\ session /\ WaitersOnlyAtCapacity

(* With its slots exactly accounted for, the pool has a free permit when a *)
(* stream is idle or openCount is below max, and none when neither is so.  *)
LEMMA PermitFacts ==
    ASSUME PoolSound
    PROVE  /\ idle # <<>> => Cardinality(Users) < max
           /\ openCount < max => Cardinality(Users) < max
           /\ idle = <<>> /\ openCount >= max => Cardinality(Users) >= max
<1>1. /\ openCount = Len(idle) + Cardinality(Users) /\ openCount <= max
      /\ openCount \in Nat /\ max \in Nat /\ Len(idle) \in Nat
  BY DEF PoolSound, OpenCountExact, TypeOK
<1>2. idle # <<>> => Len(idle) >= 1
  BY PopFacts DEF PoolSound, TypeOK
<1>3. idle = <<>> => Len(idle) = 0
  OBVIOUS
<1> QED
  BY <1>1, <1>2, <1>3, UsersFinite

(* Every way of releasing frees the permit, or hands it to the first       *)
(* waiter.                                                                 *)
LEMMA ReleaseSimulates ==
    ASSUME AtCapacity, NEW c \in Callers, Release(c)
    PROVE  (Semaphore!Free(c) \/ Semaphore!Handover(c)) /\ session' /\ WaitersOnlyAtCapacity'
<1> USE DEF AtCapacity
<1>1. /\ call[c] = "using" /\ c \in Users /\ openCount >= 1
      /\ max' = max /\ session'
  BY ReleasingFacts
  DEF Release, ReleaseClosed, ReleaseToWaiter, ReleaseAndReset, ReleaseToIdle, Returned,
      config, Users
<1>2. CASE pending = <<>>
  <2>1. pending' = <<>> /\ call' = [call EXCEPT ![c] = "none"]
    <3>1. CASE ReleaseToIdle(c)
      BY <3>1, <1>2 DEF ReleaseToIdle
    <3>2. CASE ReleaseClosed(c) \/ ReleaseAndReset(c)
      <4>1. GiveUpSlot([call EXCEPT ![c] = "none"])
        BY <3>2 DEF ReleaseClosed, ReleaseAndReset
      <4> QED
        BY <4>1, <1>1, <1>2, SlotGivenUp
    <3> QED
      BY <3>1, <3>2, <1>2 DEF Release, ReleaseToWaiter
  <2>2. Users' = Users \ {c}
    BY <2>1, <1>1 DEF Users, PoolSound, TypeOK
  <2> QED
    BY <2>1, <2>2, <1>1, <1>2 DEF Semaphore!Free, WaitersOnlyAtCapacity
<1>3. CASE pending # <<>>
  <2> DEFINE w == Head(pending)
  <2>1. w \in Callers /\ call[w] = "waiting" /\ w # c
    BY <1>1, <1>3, TailFacts DEF PoolSound, QueueSound, TypeOK
  <2>2. /\ pending' = Tail(pending) /\ openCount' = openCount
        /\ \E x \in {"reopening", "using"} : call' = [call EXCEPT ![c] = "none", ![w] = x]
    <3>1. CASE ReleaseToWaiter(c)
      BY <3>1 DEF ReleaseToWaiter
    <3>2. CASE ReleaseClosed(c)
      <4>1. GiveUpSlot([call EXCEPT ![c] = "none"])
        BY <3>2 DEF ReleaseClosed
      <4> QED
        BY <4>1, <1>1, <1>3, SlotHandedOver
    <3> QED
      BY <3>1, <3>2, <1>3 DEF Release, ReleaseToIdle, ReleaseAndReset
  <2>3. Users' = (Users \ {c}) \cup {w}
    BY <2>1, <2>2, <1>1 DEF Users, PoolSound, TypeOK
  <2>4. openCount' = max'
    BY <2>2, <1>1, <1>3 DEF WaitersOnlyAtCapacity
  <2> QED
    BY <2>2, <2>3, <2>4, <1>1, <1>3 DEF Semaphore!Handover, WaitersOnlyAtCapacity
<1> QED
  BY <1>2, <1>3

(* The abstract module's Cardinality is the same operator. *)
LEMMA SameFull == Semaphore!Full <=> Cardinality(Users) >= max
BY DEF Semaphore!Full, Semaphore!Cardinality, Cardinality

LEMMA AcquireSimulates ==
    ASSUME AtCapacity, NEW c \in Callers, RunAcquire(c)
    PROVE  /\ \/ Semaphore!Grant(c) \/ Semaphore!Enqueue(c)
              \/ UNCHANGED <<max, Users, pending>>
           /\ session' /\ WaitersOnlyAtCapacity'
<1> USE DEF AtCapacity
<1>1. /\ call[c] = "acquiring" /\ c \notin Users
      /\ call \in [Callers -> CallStates]
  BY DEF RunAcquire, TakeIdle, DiscardIdle, OpenNew, Wait, PoolSound, RunningSound, Users,
         TypeOK
<1>2. CASE TakeIdle(c)
  <2>1. Users' = Users \cup {c}
    BY <1>1, <1>2 DEF Users, TakeIdle
  <2>2. pending = <<>> /\ pending' = pending /\ max' = max /\ session'
    BY <1>2 DEF TakeIdle, PoolSound, QueueSound, config
  <2>3. Cardinality(Users) < max
    BY <1>2, PermitFacts DEF TakeIdle
  <2>4. ~(Cardinality(Users) >= max)
    BY <2>3, UsersFinite DEF PoolSound, TypeOK
  <2>5. Semaphore!Grant(c)
    BY <1>1, <2>1, <2>2, <2>4, SameFull DEF Semaphore!Grant
  <2>6. WaitersOnlyAtCapacity'
    BY <2>2 DEF WaitersOnlyAtCapacity
  <2> QED
    BY <2>2, <2>5, <2>6
<1>3. CASE DiscardIdle(c)
  <2>1. pending = <<>>
    BY <1>3 DEF DiscardIdle, PoolSound, QueueSound
  <2>2. pending' = pending /\ call' = call /\ max' = max /\ session'
    BY <2>1, <1>3 DEF DiscardIdle, GiveUpSlot, config
  <2> QED
    BY <2>1, <2>2 DEF Users, WaitersOnlyAtCapacity
<1>4. CASE OpenNew(c)
  <2>1. Users' = Users \cup {c}
    BY <1>1, <1>4 DEF Users, OpenNew
  <2>2. pending = <<>> /\ pending' = pending /\ max' = max /\ session'
    BY <1>4 DEF OpenNew, WaitersOnlyAtCapacity, PoolSound, TypeOK, config
  <2>3. Cardinality(Users) < max
    BY <1>4, PermitFacts DEF OpenNew
  <2>4. ~(Cardinality(Users) >= max)
    BY <2>3, UsersFinite DEF PoolSound, TypeOK
  <2>5. Semaphore!Grant(c)
    BY <1>1, <2>1, <2>2, <2>4, SameFull DEF Semaphore!Grant
  <2>6. WaitersOnlyAtCapacity'
    BY <2>2 DEF WaitersOnlyAtCapacity
  <2> QED
    BY <2>2, <2>5, <2>6
<1>5. CASE Wait(c)
  <2>1. Users' = Users
    BY <1>1, <1>5 DEF Users, Wait
  <2>2. pending' = Append(pending, c) /\ max' = max /\ openCount' = openCount /\ session'
    BY <1>5 DEF Wait, config
  <2>3. Cardinality(Users) >= max
    BY <1>5, PermitFacts DEF Wait
  <2>4. openCount = max
    BY <1>5 DEF Wait, PoolSound, TypeOK, OpenCountExact
  <2>5. Semaphore!Enqueue(c)
    BY <1>1, <2>1, <2>2, <2>3, SameFull DEF Semaphore!Enqueue
  <2>6. WaitersOnlyAtCapacity'
    BY <2>2, <2>4 DEF WaitersOnlyAtCapacity
  <2> QED
    BY <2>2, <2>5, <2>6
<1> QED
  BY <1>2, <1>3, <1>4, <1>5 DEF RunAcquire

(* While streams can be opened the pool is a first-come first-served       *)
(* semaphore of max permits, and no call waits while a slot is free.       *)
THEOREM ImplementsSemaphore ==
    ASSUME Failures = {}
    PROVE  Spec => KeepsSemaphore /\ []WaitersOnlyAtCapacity
<1> DEFINE sem == <<max, Users, pending>>
<1>1. Init => Semaphore!Init /\ session /\ WaitersOnlyAtCapacity
  <2> SUFFICES ASSUME Init PROVE Semaphore!Init /\ session /\ WaitersOnlyAtCapacity
    OBVIOUS
  <2>1. max \in Nat \ {0}
    BY MaxFacts DEF Init
  <2>2. Users = {}
    BY DEF Init, Users
  <2> QED
    BY <2>1, <2>2 DEF Init, Semaphore!Init, WaitersOnlyAtCapacity
<1>2. AtCapacity /\ [Next]_vars =>
        [Semaphore!Next]_sem /\ session' /\ WaitersOnlyAtCapacity'
  <2> SUFFICES ASSUME AtCapacity, [Next]_vars
               PROVE  (Semaphore!Next \/ UNCHANGED sem) /\ session' /\ WaitersOnlyAtCapacity'
    OBVIOUS
  <2> USE DEF AtCapacity
  <2>1. CASE \E c \in Callers : RunAcquire(c)
    BY <2>1, AcquireSimulates DEF Semaphore!Next
  <2>2. CASE \E c \in Callers : Release(c)
    BY <2>2, ReleaseSimulates DEF Semaphore!Next
  <2>3. CASE \E c \in Callers : AcquireStarts(c) \/ OpenSucceeds(c)
    <3>1. PICK c \in Callers : AcquireStarts(c) \/ OpenSucceeds(c)
      BY <2>3
    <3>2. Users' = Users
      BY <3>1 DEF AcquireStarts, OpenSucceeds, Users, PoolSound, TypeOK
    <3> QED
      BY <3>1, <3>2 DEF AcquireStarts, OpenSucceeds, WaitersOnlyAtCapacity, config
  <2>4. CASE \E c \in Callers : OpenFails(c) \/ ReopenFails(c)
    BY <2>4 DEF OpenFails, ReopenFails, OpenMayFail
  <2>5. CASE SessionCloses
    BY <2>5 DEF SessionCloses
  <2>6. CASE \/ \E s \in Streams : StreamCloses(s)
             \/ UNCHANGED vars
    BY <2>6 DEF StreamCloses, vars, Users, WaitersOnlyAtCapacity, config
  <2> QED
    BY <2>1, <2>2, <2>3, <2>4, <2>5, <2>6 DEF Next
<1> QED
  BY <1>1, <1>2, Sound, PTL DEF Spec, KeepsSemaphore, Semaphore!Spec, Semaphore!semVars, AtCapacity

(* Slots are counted exactly and never exceed the configured size, for     *)
(* every size, caller and failure.                                         *)
THEOREM SlotsExact == Spec => []OpenCountExact
<1>1. PoolSound => OpenCountExact
  BY DEF PoolSound
<1> QED
  BY <1>1, Sound, PTL

(* No two calls ever have one stream, and none in use is idle. *)
THEOREM OneUserEach == Spec => []StreamsExclusive
<1>1. PoolSound => StreamsExclusive
  BY DEF PoolSound
<1> QED
  BY <1>1, Sound, PTL

(* While streams can be opened, no call waits beside a free slot. *)
THEOREM QueuesAtCapacity == ASSUME Failures = {} PROVE Spec => []WaitersOnlyAtCapacity
BY ImplementsSemaphore, PTL

-----------------------------------------------------------------------------
(* The pool does not stand still. *)

(* There are streams for a full pool. *)
StreamsSuffice ==
    /\ IsFiniteSet(Streams)
    /\ \A m \in PoolSizes : EffectiveMax(m) <= Cardinality(Streams)

(* The things a function lists are no more than what it is defined on.     *)
LEMMA ListedAreFew ==
    ASSUME NEW S, IsFiniteSet(S), NEW T, NEW f \in [S -> T]
    PROVE  LET U == {f[x] : x \in S}
           IN  IsFiniteSet(U) /\ Cardinality(U) \in Nat /\ Cardinality(U) <= Cardinality(S)
<1> DEFINE U == {f[x] : x \in S}
<1>1. f \in Surjection(S, U)
  BY DEF Surjection
<1>2. IsFiniteSet(U) /\ Cardinality(U) <= Cardinality(S)
  BY <1>1, FS_Surjection
<1> QED
  BY <1>2, FS_CardinalityType

(* A caller whose stream is being opened has a slot without a stream, and  *)
(* every stream that is not free fills another slot.                       *)
LEMMA FreeStreamLeft ==
    ASSUME PoolSound, IsFiniteSet(Streams), max <= Cardinality(Streams),
           NEW c \in Callers, call[c] \in {"opening", "reopening"}
    PROVE  \E s \in Streams : stream[s] = "free"
<1> SUFFICES ASSUME \A s \in Streams : stream[s] # "free" PROVE FALSE
  OBVIOUS
<1> DEFINE Using == {d \in Callers : call[d] = "using"}
           InUse == {held[d] : d \in Using}
           Idle  == {idle[i] : i \in 1..Len(idle)}
<1>1. /\ IsFiniteSet(Users \ {c}) /\ IsFiniteSet(Using)
      /\ Cardinality(Using) \in Nat /\ Cardinality(Using) <= Cardinality(Users) - 1
  <2>1. c \in Users /\ Using \subseteq Users \ {c}
    BY DEF Users
  <2>2. IsFiniteSet(Users \ {c}) /\ Cardinality(Users \ {c}) = Cardinality(Users) - 1
    BY <2>1, UsersFinite, FS_RemoveElement
  <2> HIDE DEF Using
  <2>3. IsFiniteSet(Using) /\ Cardinality(Using) <= Cardinality(Users \ {c})
    BY <2>1, <2>2, FS_Subset
  <2> QED
    BY <2>2, <2>3, FS_CardinalityType
<1>2. /\ IsFiniteSet(InUse) /\ Cardinality(InUse) \in Nat
      /\ Cardinality(InUse) <= Cardinality(Using)
  <2> DEFINE f == [d \in Using |-> held[d]]
  <2>1. f \in [Using -> Streams \cup {None}]
    BY DEF PoolSound, TypeOK
  <2>2. InUse = {f[d] : d \in Using}
    OBVIOUS
  <2> HIDE DEF f
  <2>3. LET U == {f[x] : x \in Using}
        IN  IsFiniteSet(U) /\ Cardinality(U) \in Nat /\ Cardinality(U) <= Cardinality(Using)
    BY <1>1, <2>1, ListedAreFew
  <2> QED
    BY <2>2, <2>3
<1>3. /\ IsFiniteSet(Idle) /\ Cardinality(Idle) \in Nat
      /\ Cardinality(Idle) <= Len(idle)
  <2>1. Len(idle) \in Nat /\ idle \in [1..Len(idle) -> Streams]
    BY DEF PoolSound, TypeOK
  <2>2. IsFiniteSet(1..Len(idle)) /\ Cardinality(1..Len(idle)) = Len(idle)
    BY <2>1, FS_Interval
  <2>3. LET U == {idle[x] : x \in 1..Len(idle)}
        IN  IsFiniteSet(U) /\ Cardinality(U) \in Nat
            /\ Cardinality(U) <= Cardinality(1..Len(idle))
    BY <2>1, <2>2, ListedAreFew
  <2> QED
    BY <2>2, <2>3
<1>4. Streams \subseteq InUse \cup Idle
  <2> SUFFICES ASSUME NEW s \in Streams PROVE s \in InUse \cup Idle
    OBVIOUS
  <2>1. (\E d \in Callers : held[d] = s) \/ \E i \in 1..Len(idle) : idle[i] = s
    BY DEF PoolSound, StreamsAccounted
  <2>2. ASSUME NEW d \in Callers, held[d] = s PROVE s \in InUse
    <3>1. d \in Using
      BY <2>2, NoneAssumption DEF PoolSound, HeldStreamsExist
    <3> QED
      BY <2>2, <3>1
  <2> QED
    BY <2>1, <2>2
<1>5. /\ openCount = Len(idle) + Cardinality(Users) /\ openCount <= max
      /\ max \in Nat /\ Len(idle) \in Nat
  BY DEF PoolSound, OpenCountExact, TypeOK
<1> HIDE DEF InUse, Idle, Using
<1>6. /\ IsFiniteSet(InUse \cup Idle)
      /\ Cardinality(InUse \cup Idle) <= Cardinality(InUse) + Cardinality(Idle)
  <2>1. IsFiniteSet(InUse \cap Idle)
    BY <1>2, FS_Intersection
  <2>2. Cardinality(InUse \cap Idle) \in Nat
    BY <2>1, FS_CardinalityType
  <2>3. /\ IsFiniteSet(InUse \cup Idle)
        /\ Cardinality(InUse \cup Idle) =
             Cardinality(InUse) + Cardinality(Idle) - Cardinality(InUse \cap Idle)
    BY <1>2, <1>3, FS_Union
  <2> QED
    BY <1>2, <1>3, <2>2, <2>3
<1>7. Cardinality(Streams) <= Cardinality(InUse \cup Idle)
  BY <1>4, <1>6, FS_Subset
<1>8. Cardinality(Streams) \in Nat /\ Cardinality(InUse \cup Idle) \in Nat
  BY <1>6, FS_CardinalityType
<1>9. Cardinality(Users) \in Nat
  BY UsersFinite
<1> QED
  BY <1>1, <1>2, <1>3, <1>5, <1>6, <1>7, <1>8, <1>9

(* What SomeCallerMoves needs beyond PoolSound. *)
Served ==
    /\ PoolSound
    /\ WaitersOnlyAtCapacity
    /\ session
    /\ max <= Cardinality(Streams)
    /\ \A c \in Callers : call[c] # "lost"

(* A waiting call has the holders of all slots before it, and one of those *)
(* can be served or give its slot up.                                      *)
LEMMA SomeMove ==
    ASSUME Served, StreamsSuffice
    PROVE  SomeCallerMoves
<1> USE DEF Served, StreamsSuffice
<1> SUFFICES ASSUME NEW c \in Callers, call[c] \notin {"none", "using"}
             PROVE  \E d \in Callers : Moves(d)
  BY DEF SomeCallerMoves
<1>1. CASE running # None
  <2>1. running \in Callers /\ idle \in Seq(Streams)
    BY <1>1 DEF PoolSound, TypeOK
  <2>2. idle # <<>> => Top \in Streams /\ stream[Top] # "free"
    <3>1. idle # <<>> => Len(idle) \in 1..Len(idle) /\ Top \in Streams
      BY <2>1, PopFacts DEF Top
    <3> QED
      BY <3>1 DEF PoolSound, HeldStreamsExist, Top
  <2>3. Moves(running)
    BY <2>2 DEF Moves, PoolSound, TypeOK
  <2> QED
    BY <2>1, <2>3
<1>2. CASE running = None /\ \E d \in Callers : call[d] = "using"
  BY <1>2 DEF Moves
<1>3. CASE running = None /\ \E d \in Callers : call[d] \in {"opening", "reopening"}
  BY <1>3, FreeStreamLeft DEF Moves
<1>4. CASE running = None /\ Users = {}
  <2>1. call[c] = "waiting"
    BY <1>4, NoneAssumption DEF PoolSound, RunningSound, TypeOK, CallStates, Users
  <2>2. pending # <<>>
    BY <2>1 DEF PoolSound, QueueSound
  <2>3. openCount = max /\ idle = <<>>
    BY <2>2 DEF WaitersOnlyAtCapacity, PoolSound, QueueSound
  <2> QED
    BY <1>4, <2>3, FS_EmptySet DEF PoolSound, OpenCountExact, TypeOK
<1> QED
  BY <1>1, <1>2, <1>3, <1>4 DEF Users

(* While streams can be opened, and there are as many as the pool may have *)
(* open, the pool never stands still: as long as an acquire is             *)
(* outstanding some caller runs, is given a stream or can release one.     *)
THEOREM NoStandstill ==
    ASSUME Failures = {}, StreamsSuffice
    PROVE  Spec => []SomeCallerMoves
<1> DEFINE Rest == /\ session
                   /\ max <= Cardinality(Streams)
                   /\ \A c \in Callers : call[c] # "lost"
<1>1. Init => Rest
  BY DEF Init, StreamsSuffice
<1>2. PoolSound /\ Rest /\ [Next]_vars => Rest'
  <2> SUFFICES ASSUME PoolSound, Rest, [Next]_vars PROVE Rest'
    OBVIOUS
  <2>1. UNCHANGED <<max, session>>
    BY DEF Next, vars, config, AcquireStarts, RunAcquire, TakeIdle, DiscardIdle, OpenNew, Wait,
       OpenSucceeds, OpenFails, ReopenFails, Release, ReleaseClosed, ReleaseToWaiter,
       ReleaseAndReset, ReleaseToIdle, Returned, StreamCloses, SessionCloses
  <2>2. ASSUME NEW c \in Callers PROVE call'[c] # "lost"
    <3>1. call \in [Callers -> CallStates] /\ call[c] # "lost"
      BY DEF PoolSound, TypeOK
    <3>2. ASSUME NEW calls \in [Callers -> CallStates], calls[c] # "lost", GiveUpSlot(calls)
          PROVE  call'[c] # "lost"
      BY <3>2 DEF GiveUpSlot
    <3>3. CASE \E d \in Callers : AcquireStarts(d) \/ OpenSucceeds(d) \/ OpenFails(d)
      BY <3>1, <3>3 DEF AcquireStarts, OpenSucceeds, OpenFails
    <3>4. CASE \E d \in Callers : ReopenFails(d)
      BY <3>4 DEF ReopenFails, OpenMayFail
    <3>5. CASE \E d \in Callers : RunAcquire(d)
      BY <3>1, <3>2, <3>5 DEF RunAcquire, TakeIdle, DiscardIdle, OpenNew, Wait
    <3>6. CASE \E d \in Callers : Release(d)
      <4>1. PICK d \in Callers : Release(d)
        BY <3>6
      <4>2. [call EXCEPT ![d] = "none"] \in [Callers -> CallStates]
        BY <3>1 DEF CallStates
      <4>3. [call EXCEPT ![d] = "none"][c] # "lost"
        BY <3>1
      <4>4. CASE ReleaseClosed(d) \/ ReleaseAndReset(d)
        BY <3>2, <4>2, <4>3, <4>4 DEF ReleaseClosed, ReleaseAndReset
      <4>5. CASE ReleaseToWaiter(d) \/ ReleaseToIdle(d)
        BY <3>1, <4>5 DEF ReleaseToWaiter, ReleaseToIdle
      <4> QED
        BY <4>1, <4>4, <4>5 DEF Release
    <3>7. CASE (\E s \in Streams : StreamCloses(s)) \/ SessionCloses \/ UNCHANGED vars
      BY <3>1, <3>7 DEF StreamCloses, SessionCloses, vars
    <3> QED
      BY <3>3, <3>4, <3>5, <3>6, <3>7 DEF Next
  <2> QED
    BY <2>1, <2>2
<1>3. PoolSound /\ WaitersOnlyAtCapacity /\ Rest => SomeCallerMoves
  BY SomeMove DEF Served
<1> QED
  BY <1>1, <1>2, <1>3, Sound, QueuesAtCapacity, PTL DEF Spec
=============================================================================

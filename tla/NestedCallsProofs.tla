-------------------------- MODULE NestedCallsProofs -------------------------
(***************************************************************************)
(* NestedCalls for every finite set of calls, every size of the two pools  *)
(* and every depth of nesting: calls nest and queue properly, they come to *)
(* a standstill only in knots, which last, and which take calls that start *)
(* on both sides or callbacks that call back.                              *)
(***************************************************************************)
EXTENDS NestedCalls, FiniteSetTheorems, SequenceTheorems, TLAPS

LEMMA TailFacts ==
    ASSUME NEW S, NEW q \in Seq(S), q # <<>>
    PROVE  /\ Head(q) = q[1] /\ Head(q) \in S
           /\ Tail(q) \in Seq(S)
           /\ Len(q) \in Nat /\ Len(q) >= 1 /\ Len(Tail(q)) = Len(q) - 1
           /\ \A i \in 1..(Len(q) - 1) : Tail(q)[i] = q[i + 1]
OBVIOUS

LEMMA AppendFacts ==
    ASSUME NEW S, NEW q \in Seq(S), NEW e \in S
    PROVE  /\ Append(q, e) \in Seq(S) /\ Append(q, e) # <<>>
           /\ Len(q) \in Nat /\ Len(Append(q, e)) = Len(q) + 1
           /\ Append(q, e)[Len(q) + 1] = e
           /\ \A i \in 1..Len(q) : Append(q, e)[i] = q[i]
OBVIOUS

LEMMA HoldersFinite ==
    ASSUME NEW s \in Sides
    PROVE  IsFiniteSet(Holders(s)) /\ Cardinality(Holders(s)) \in Nat
BY CallsAssumption, FS_Subset, FS_CardinalityType DEF Holders

LEMMA OtherFacts ==
    ASSUME NEW s \in Sides
    PROVE  Other(s) \in Sides /\ Other(s) # s /\ Other(Other(s)) = s
BY DEF Sides, Other

LEMMA InitSound == Init => CallsSound
<1> SUFFICES ASSUME Init PROVE CallsSound
  OBVIOUS
<1>1. \A s \in Sides : Holders(s) = {}
  BY DEF Init, Holders, Holding
<1>2. limit \in [Sides -> Nat \ {0}]
  BY SizesAssumption DEF Init
<1>3. QueuesSound
  <2>1. \A s \in Sides : Cardinality(Holders(s)) = 0 /\ queue[s] = <<>> /\ limit[s] \in Nat
    BY <1>1, <1>2, FS_EmptySet DEF Init
  <2>2. Len(<<>>) = 0
    BY EmptySeq
  <2> QED
    BY <2>1, <2>2 DEF QueuesSound
<1> QED
  BY <1>2, <1>3, DepthAssumption
  DEF Init, CallsSound, TypeOK, QueuedIsInQueue, NestsProperly, Outstanding, Holding,
      Phases, Sides

-----------------------------------------------------------------------------
(* What a step does to the pools, and what that preserves. *)

(* The pool of side s is left alone, or gives call c a stream, queues it,  *)
(* or takes its stream back and leaves it or hands it over.                *)
Untouched(s) == Holders(s)' = Holders(s) /\ queue'[s] = queue[s]
Grants(s, c) ==
    /\ ~(Cardinality(Holders(s)) >= limit[s]) /\ queue[s] = <<>>
    /\ c \notin Holders(s)
    /\ Holders(s)' = Holders(s) \cup {c}
    /\ queue'[s] = queue[s]
Queues(s, c) ==
    /\ Cardinality(Holders(s)) >= limit[s]
    /\ c \notin Holders(s)
    /\ queue'[s] = Append(queue[s], c)
    /\ Holders(s)' = Holders(s)
Frees(s, c) ==
    /\ c \in Holders(s) /\ queue[s] = <<>>
    /\ Holders(s)' = Holders(s) \ {c}
    /\ queue'[s] = queue[s]
HandsOver(s, c) ==
    /\ c \in Holders(s) /\ queue[s] # <<>>
    /\ Holders(s)' = (Holders(s) \ {c}) \cup {Head(queue[s])}
    /\ queue'[s] = Tail(queue[s])
PoolStep(s) ==
    \/ Untouched(s)
    \/ \E c \in Calls : Grants(s, c) \/ Queues(s, c) \/ Frees(s, c) \/ HandsOver(s, c)

(* A call takes a stream or queues on its own side only. *)
LEMMA CallEffect ==
    ASSUME CallsSound, NEW c \in Calls, NEW s \in Sides,
           NEW p \in Calls \cup {None}, NEW n \in 1..MaxDepth, Call(c, s, p, n)
    PROVE  /\ Grants(s, c) \/ Queues(s, c)
           /\ Untouched(Other(s))
<1>1. c \notin Holders(s) /\ c \notin Holders(Other(s))
  BY DEF Call, Holders, Holding
<1>2. \A t \in Sides : Cardinality(Holders(t)) \in Nat /\ limit[t] \in Nat
  BY HoldersFinite DEF CallsSound, TypeOK
<1>3. CASE Cardinality(Holders(s)) < limit[s]
  <2>1. phase' = [phase EXCEPT ![c] = "sent"] /\ queue' = queue
    BY <1>3 DEF Call, Acquire
  <2>2. queue[s] = <<>>
    BY <1>2, <1>3 DEF CallsSound, QueuesSound
  <2>3. Holders(s)' = Holders(s) \cup {c} /\ Holders(Other(s))' = Holders(Other(s))
    BY <1>1, <2>1, OtherFacts DEF Call, Holders, Holding, CallsSound, TypeOK
  <2> QED
    BY <1>1, <1>2, <1>3, <2>1, <2>2, <2>3 DEF Grants, Untouched
<1>4. CASE ~(Cardinality(Holders(s)) < limit[s])
  <2>1. /\ phase' = [phase EXCEPT ![c] = "queued"]
        /\ queue' = [queue EXCEPT ![s] = Append(queue[s], c)]
    BY <1>4 DEF Call, Acquire
  <2>2. Holders(s)' = Holders(s) /\ Holders(Other(s))' = Holders(Other(s))
    BY <1>1, <2>1, OtherFacts DEF Call, Holders, Holding, CallsSound, TypeOK
  <2>3. queue'[s] = Append(queue[s], c) /\ queue'[Other(s)] = queue[Other(s)]
    BY <2>1, OtherFacts DEF CallsSound, TypeOK
  <2> QED
    BY <1>1, <1>2, <1>4, <2>2, <2>3 DEF Queues, Untouched
<1> QED
  BY <1>3, <1>4

(* Serving a request concerns no pool. *)
LEMMA ServeEffect ==
    ASSUME CallsSound, NEW c \in Calls, Handle(c) \/ Reply(c), NEW s \in Sides
    PROVE  Untouched(s)
BY DEF Handle, Reply, Untouched, Holders, Holding, made, CallsSound, TypeOK

(* The first in a side's queue. *)
LEMMA HeadFacts ==
    ASSUME CallsSound, NEW s \in Sides, queue[s] # <<>>
    PROVE  /\ Head(queue[s]) \in Calls
           /\ phase[Head(queue[s])] = "queued"
           /\ side[Head(queue[s])] = s
<1>1. queue[s] \in Seq(Calls)
  BY DEF CallsSound, TypeOK
<1>2. Head(queue[s]) = queue[s][1] /\ Head(queue[s]) \in Calls /\ 1 \in 1..Len(queue[s])
  BY <1>1, TailFacts
<1> QED
  BY <1>2 DEF CallsSound, QueuesSound

(* A finished call gives its stream back on its own side only. *)
LEMMA FinishEffect ==
    ASSUME CallsSound, NEW c \in Calls, Finish(c)
    PROVE  /\ side[c] \in Sides
           /\ Frees(side[c], c) \/ HandsOver(side[c], c)
           /\ Untouched(Other(side[c]))
<1> DEFINE s == side[c]
<1>1. /\ s \in Sides /\ Other(s) \in Sides /\ Other(s) # s
      /\ c \in Holders(s) /\ c \notin Holders(Other(s))
      /\ side' = side /\ phase[c] = "replied"
  BY OtherFacts DEF Finish, Holders, Holding, made, CallsSound, TypeOK
<1>2. CASE queue[s] = <<>>
  <2>1. phase' = [phase EXCEPT ![c] = "done"] /\ queue' = queue
    BY <1>2 DEF Finish
  <2>2. Holders(s)' = Holders(s) \ {c} /\ Holders(Other(s))' = Holders(Other(s))
    BY <1>1, <2>1 DEF Holders, Holding, CallsSound, TypeOK
  <2> QED
    BY <1>1, <1>2, <2>1, <2>2 DEF Frees, Untouched
<1>3. CASE queue[s] # <<>>
  <2> DEFINE w == Head(queue[s])
  <2>1. /\ phase' = [phase EXCEPT ![c] = "done", ![w] = "sent"]
        /\ queue' = [queue EXCEPT ![s] = Tail(queue[s])]
    BY <1>3 DEF Finish
  <2>2. w \in Calls /\ phase[w] = "queued" /\ side[w] = s /\ w # c
    BY <1>1, <1>3, HeadFacts
  <2> HIDE DEF w
  <2>3. Holders(s)' = (Holders(s) \ {c}) \cup {w} /\ Holders(Other(s))' = Holders(Other(s))
    BY <1>1, <2>1, <2>2 DEF Holders, Holding, CallsSound, TypeOK
  <2>4. queue'[s] = Tail(queue[s]) /\ queue'[Other(s)] = queue[Other(s)]
    BY <1>1, <2>1 DEF CallsSound, TypeOK
  <2> QED
    BY <1>1, <1>3, <2>3, <2>4 DEF HandsOver, Untouched, w
<1> QED
  BY <1>1, <1>2, <1>3

(* A step of a pool keeps its count of streams: never more than it has,    *)
(* and all of them while a call waits.                                     *)
LEMMA CountsKept ==
    ASSUME CallsSound, NEW s \in Sides, PoolStep(s), limit' = limit
    PROVE  /\ Cardinality(Holders(s)') <= limit'[s]
           /\ queue'[s] # <<>> => Cardinality(Holders(s)') = limit'[s]
<1> DEFINE H == Holders(s)
<1>1. /\ IsFiniteSet(H) /\ Cardinality(H) \in Nat /\ limit[s] \in Nat
      /\ Cardinality(H) <= limit[s]
      /\ queue[s] # <<>> => Cardinality(H) = limit[s]
  BY HoldersFinite DEF CallsSound, TypeOK, QueuesSound
<1>2. CASE Untouched(s)
  BY <1>1, <1>2 DEF Untouched
<1>3. ASSUME NEW c \in Calls, Grants(s, c)
      PROVE  Cardinality(Holders(s)') = Cardinality(H) + 1 /\ queue'[s] = <<>>
  BY <1>1, <1>3, FS_AddElement DEF Grants
<1>4. ASSUME NEW c \in Calls, Queues(s, c)
      PROVE  Cardinality(Holders(s)') = limit[s]
  BY <1>1, <1>4 DEF Queues
<1>5. ASSUME NEW c \in Calls, Frees(s, c)
      PROVE  Cardinality(Holders(s)') = Cardinality(H) - 1 /\ queue'[s] = <<>>
  BY <1>1, <1>5, FS_RemoveElement DEF Frees
<1>6. ASSUME NEW c \in Calls, HandsOver(s, c)
      PROVE  Cardinality(Holders(s)') = limit[s]
  <2> DEFINE w == Head(queue[s])
  <2>1. w \notin H
    BY <1>6, HeadFacts DEF HandsOver, Holders, Holding
  <2>2. IsFiniteSet(H \ {c}) /\ Cardinality(H \ {c}) = Cardinality(H) - 1
    BY <1>1, <1>6, FS_RemoveElement DEF HandsOver
  <2>3. w \notin H \ {c}
    BY <2>1
  <2> HIDE DEF w, H
  <2>4. Cardinality((H \ {c}) \cup {w}) = Cardinality(H) - 1 + 1
    BY <2>2, <2>3, FS_AddElement
  <2> QED
    BY <1>1, <1>6, <2>4 DEF HandsOver, w, H
<1>7. CASE \E c \in Calls : Grants(s, c) \/ Queues(s, c) \/ Frees(s, c) \/ HandsOver(s, c)
  <2>1. PICK c \in Calls : Grants(s, c) \/ Queues(s, c) \/ Frees(s, c) \/ HandsOver(s, c)
    BY <1>7
  <2>2. CASE Grants(s, c)
    <3>1. Cardinality(H) < limit[s]
      BY <1>1, <2>2 DEF Grants
    <3>2. Cardinality(Holders(s)') = Cardinality(H) + 1 /\ queue'[s] = <<>>
      BY <1>3, <2>2
    <3> HIDE DEF H
    <3> QED
      BY <1>1, <3>1, <3>2
  <2>3. CASE Queues(s, c)
    BY <1>1, <1>4, <2>3
  <2>4. CASE Frees(s, c)
    BY <1>1, <1>5, <2>4
  <2>5. CASE HandsOver(s, c)
    BY <1>1, <1>6, <2>5
  <2> QED
    BY <2>1, <2>2, <2>3, <2>4, <2>5
<1> QED
  BY <1>2, <1>7 DEF PoolStep

-----------------------------------------------------------------------------
(* A call is made. *)

LEMMA CallTypeOK ==
    ASSUME CallsSound, NEW c \in Calls, NEW s \in Sides,
           NEW p \in Calls \cup {None}, NEW n \in 1..MaxDepth, Call(c, s, p, n)
    PROVE  TypeOK'
<1>1. queue[s] \in Seq(Calls)
  BY DEF CallsSound, TypeOK
<1>2. Append(queue[s], c) \in Seq(Calls)
  BY <1>1, AppendFacts
<1>3. phase' \in [Calls -> Phases] /\ queue' \in [Sides -> Seq(Calls)]
  <2>1. /\ \E x \in {"sent", "queued"} : phase' = [phase EXCEPT ![c] = x]
        /\ queue' = queue \/ queue' = [queue EXCEPT ![s] = Append(queue[s], c)]
    BY DEF Call, Acquire
  <2>2. phase' \in [Calls -> Phases]
    BY <2>1 DEF CallsSound, TypeOK, Phases, Outstanding, Holding
  <2>3. queue \in [Sides -> Seq(Calls)]
    BY DEF CallsSound, TypeOK
  <2>4. queue' \in [Sides -> Seq(Calls)]
    BY <1>2, <2>1, <2>3
  <2> QED
    BY <2>2, <2>4
<1>4. limit' \in [Sides -> Nat \ {0}] /\ side' \in [Calls -> Sides]
  BY DEF Call, CallsSound, TypeOK
<1>5. parent' \in [Calls -> Calls \cup {None}]
  BY DEF Call, CallsSound, TypeOK
<1>6. depth' \in [Calls -> 0..MaxDepth]
  <2>1. n \in 0..MaxDepth
    BY DepthAssumption
  <2> QED
    BY <2>1 DEF Call, CallsSound, TypeOK
<1> QED
  BY <1>3, <1>4, <1>5, <1>6 DEF TypeOK

(* The caller goes to the end of its side's queue, or no queue changes. *)
LEMMA CallQueues ==
    ASSUME CallsSound, NEW c \in Calls, NEW s \in Sides,
           NEW p \in Calls \cup {None}, NEW n \in 1..MaxDepth, Call(c, s, p, n)
    PROVE  QueuesSound' /\ QueuedIsInQueue'
<1>1. /\ \A t \in Sides : \A i \in 1..Len(queue[t]) :
           queue[t][i] \in Calls \ {c} /\ phase[queue[t][i]] = "queued" /\ side[queue[t][i]] = t
      /\ \A t \in Sides : queue[t] \in Seq(Calls) /\ Len(queue[t]) \in Nat
      /\ \A t \in Sides : \A i, j \in 1..Len(queue[t]) : queue[t][i] = queue[t][j] => i = j
  <2>1. \A t \in Sides : queue[t] \in Seq(Calls)
    BY DEF CallsSound, TypeOK
  <2>2. \A t \in Sides : Len(queue[t]) \in Nat /\ \A i \in 1..Len(queue[t]) : queue[t][i] \in Calls
    BY <2>1, LenProperties, ElementOfSeq
  <2> QED
    BY <2>1, <2>2 DEF CallsSound, QueuesSound, Call
<1>2. /\ phase \in [Calls -> Phases] /\ side \in [Calls -> Sides] /\ queue \in [Sides -> Seq(Calls)]
      /\ side' = [side EXCEPT ![c] = s] /\ phase[c] = "unused" /\ limit' = limit
  BY DEF CallsSound, TypeOK, Call
<1>3. \A t \in Sides : /\ Cardinality(Holders(t)') <= limit'[t]
                       /\ queue'[t] # <<>> => Cardinality(Holders(t)') = limit'[t]
  <2>1. \A t \in Sides : t = s \/ t = Other(s)
    BY DEF Sides, Other
  <2>2. \A t \in Sides : PoolStep(t)
    BY <2>1, CallEffect DEF PoolStep
  <2> QED
    BY <1>2, <2>2, CountsKept
<1>4. CASE Cardinality(Holders(s)) < limit[s]
  <2>1. phase' = [phase EXCEPT ![c] = "sent"] /\ queue' = queue
    BY <1>4 DEF Call, Acquire
  <2>2. QueuesSound'
    BY <1>1, <1>2, <1>3, <2>1 DEF QueuesSound
  <2>3. QueuedIsInQueue'
    BY <1>2, <2>1 DEF CallsSound, QueuedIsInQueue
  <2> QED
    BY <2>2, <2>3
<1>5. CASE ~(Cardinality(Holders(s)) < limit[s])
  <2> DEFINE q == Append(queue[s], c)
  <2>1. phase' = [phase EXCEPT ![c] = "queued"] /\ queue' = [queue EXCEPT ![s] = q]
    BY <1>5 DEF Call, Acquire
  <2>2. /\ q \in Seq(Calls) /\ Len(q) = Len(queue[s]) + 1 /\ q[Len(queue[s]) + 1] = c
        /\ \A i \in 1..Len(queue[s]) : q[i] = queue[s][i]
    BY <1>1, AppendFacts
  <2> HIDE DEF q
  <2>3. /\ \A i \in 1..Len(q) : phase'[q[i]] = "queued" /\ side'[q[i]] = s
        /\ \A i, j \in 1..Len(q) : q[i] = q[j] => i = j
    <3> DEFINE m == Len(queue[s])
    <3>1. m \in Nat /\ \A i \in 1..Len(q) : i \in 1..m \/ i = m + 1
      BY <1>1, <2>2
    <3>2. /\ \A i \in 1..m : /\ q[i] \in Calls /\ q[i] # c
                             /\ phase[q[i]] = "queued" /\ side[q[i]] = s
          /\ \A i, j \in 1..m : q[i] = q[j] => i = j
          /\ q[m + 1] = c
      BY <1>1, <2>2
    <3> HIDE DEF m
    <3>3. \A i \in 1..Len(q) : phase'[q[i]] = "queued" /\ side'[q[i]] = s
      BY <1>2, <2>1, <3>1, <3>2
    <3>4. \A i, j \in 1..Len(q) : q[i] = q[j] => i = j
      BY <3>1, <3>2
    <3> QED
      BY <3>3, <3>4
  <2>4. \A t \in Sides : t # s => /\ queue'[t] = queue[t]
                                 /\ \A i \in 1..Len(queue[t]) : /\ phase'[queue[t][i]] = "queued"
                                                               /\ side'[queue[t][i]] = t
    BY <1>1, <1>2, <2>1
  <2>5. queue'[s] = q
    BY <1>2, <2>1
  <2>6. QueuesSound'
    BY <1>1, <1>3, <2>3, <2>4, <2>5 DEF QueuesSound
  <2>7. QueuedIsInQueue'
    <3> SUFFICES ASSUME NEW d \in Calls, phase'[d] = "queued"
                 PROVE  \E i \in 1..Len(queue'[side'[d]]) : queue'[side'[d]][i] = d
      BY DEF QueuedIsInQueue
    <3>1. CASE d = c
      <4>1. side'[d] = s /\ Len(queue[s]) + 1 \in 1..Len(q)
        BY <1>1, <1>2, <2>2, <3>1
      <4> QED
        BY <2>2, <2>5, <3>1, <4>1
    <3>2. CASE d # c
      <4>1. phase[d] = "queued" /\ side'[d] = side[d] /\ side[d] \in Sides
        BY <1>2, <2>1, <3>2
      <4>2. PICK i \in 1..Len(queue[side[d]]) : queue[side[d]][i] = d
        BY <4>1 DEF CallsSound, QueuedIsInQueue
      <4>3. CASE side[d] = s
        BY <1>1, <2>2, <2>5, <4>1, <4>2, <4>3
      <4>4. CASE side[d] # s
        BY <2>4, <4>1, <4>2, <4>4
      <4> QED
        BY <4>3, <4>4
    <3> QED
      BY <3>1, <3>2
  <2> QED
    BY <2>6, <2>7
<1> QED
  BY <1>4, <1>5

LEMMA CallNests ==
    ASSUME CallsSound, NEW c \in Calls, NEW s \in Sides,
           NEW p \in Calls \cup {None}, NEW n \in 1..MaxDepth, Call(c, s, p, n)
    PROVE  NestsProperly'
<1>1. PICK x \in {"sent", "queued"} : phase' = [phase EXCEPT ![c] = x]
  BY DEF Call, Acquire
<1>2. /\ phase \in [Calls -> Phases] /\ side \in [Calls -> Sides]
      /\ parent \in [Calls -> Calls \cup {None}] /\ depth \in [Calls -> 0..MaxDepth]
      /\ side' = [side EXCEPT ![c] = s] /\ parent' = [parent EXCEPT ![c] = p]
      /\ depth' = [depth EXCEPT ![c] = n] /\ phase[c] = "unused"
  BY DEF CallsSound, TypeOK, Call
<1> SUFFICES ASSUME NEW d \in Calls, phase'[d] \in Outstanding
             PROVE  IF parent'[d] = None
                      THEN side'[d] \in Starters /\ depth'[d] = 1
                      ELSE /\ side'[d] = Other(side'[parent'[d]])
                           /\ depth'[d] = depth'[parent'[d]] + 1
                           /\ phase'[parent'[d]] = "executing"
  BY DEF NestsProperly
<1>3. CASE d = c
  <2>1. parent'[d] = p /\ side'[d] = s /\ depth'[d] = n
    BY <1>2, <1>3
  <2>2. CASE p = None
    BY <2>1, <2>2 DEF Call, MayCall
  <2>3. CASE p # None
    <3>1. /\ p \in Calls /\ phase[p] = "executing" /\ s = Other(side[p]) /\ n = depth[p] + 1
          /\ p # c
      BY <1>2, <2>3 DEF Call, MayCall
    <3> QED
      BY <1>1, <1>2, <2>1, <2>3, <3>1
  <2> QED
    BY <2>2, <2>3
<1>4. CASE d # c
  <2>1. /\ phase[d] \in Outstanding /\ parent'[d] = parent[d]
        /\ side'[d] = side[d] /\ depth'[d] = depth[d]
    BY <1>1, <1>2, <1>4
  <2>2. CASE parent[d] = None
    BY <2>1, <2>2 DEF CallsSound, NestsProperly
  <2>3. CASE parent[d] # None
    <3>1. /\ side[d] = Other(side[parent[d]]) /\ depth[d] = depth[parent[d]] + 1
          /\ phase[parent[d]] = "executing" /\ parent[d] \in Calls
      BY <1>2, <2>1, <2>3 DEF CallsSound, NestsProperly
    <3>2. parent[d] # c
      BY <1>2, <3>1
    <3> QED
      BY <1>1, <1>2, <2>1, <2>3, <3>1, <3>2
  <2> QED
    BY <2>2, <2>3
<1> QED
  BY <1>3, <1>4

LEMMA CallSound ==
    ASSUME CallsSound, NEW c \in Calls, NEW s \in Sides,
           NEW p \in Calls \cup {None}, NEW n \in 1..MaxDepth, Call(c, s, p, n)
    PROVE  CallsSound'
BY CallTypeOK, CallQueues, CallNests DEF CallsSound

-----------------------------------------------------------------------------
(* A request is served.  A call that others wait for does not reply, and   *)
(* so stays executing while they are outstanding.                          *)
LEMMA ServeSound ==
    ASSUME CallsSound, NEW c \in Calls, Handle(c) \/ Reply(c)
    PROVE  CallsSound'
<1>1. /\ phase[c] \in {"sent", "executing"}
      /\ \E x \in {"executing", "replied"} : phase' = [phase EXCEPT ![c] = x]
      /\ phase[c] = "executing" => ~Waits(c)
      /\ UNCHANGED <<limit, queue, side, parent, depth>>
  BY DEF Handle, Reply, made
<1>2. PICK x \in {"executing", "replied"} : phase' = [phase EXCEPT ![c] = x]
  BY <1>1
<1>3. TypeOK'
  BY <1>1, <1>2 DEF CallsSound, TypeOK, Phases, Outstanding, Holding
<1>4. QueuesSound'
  <2>1. \A s \in Sides : PoolStep(s)
    BY ServeEffect DEF PoolStep
  <2>2. \A s \in Sides : \A i \in 1..Len(queue[s]) : queue[s][i] \in Calls \ {c}
    <3>1. \A s \in Sides : queue[s] \in Seq(Calls)
      BY DEF CallsSound, TypeOK
    <3>2. \A s \in Sides : \A i \in 1..Len(queue[s]) : queue[s][i] \in Calls
      BY <3>1, ElementOfSeq
    <3> QED
      BY <1>1, <3>2 DEF CallsSound, QueuesSound
  <2>3. \A s \in Sides : \A i \in 1..Len(queue[s]) :
          phase'[queue[s][i]] = "queued" /\ side'[queue[s][i]] = s
    BY <1>1, <1>2, <2>2 DEF CallsSound, QueuesSound, TypeOK
  <2>4. \A s \in Sides : /\ Cardinality(Holders(s)') <= limit'[s]
                         /\ queue'[s] # <<>> => Cardinality(Holders(s)') = limit'[s]
    BY <1>1, <2>1, CountsKept
  <2> QED
    BY <1>1, <2>3, <2>4 DEF CallsSound, QueuesSound
<1>5. QueuedIsInQueue'
  BY <1>1, <1>2 DEF CallsSound, QueuedIsInQueue, TypeOK
<1>6. NestsProperly'
  <2> SUFFICES ASSUME NEW d \in Calls, phase'[d] \in Outstanding, parent[d] # None
               PROVE  phase'[parent[d]] = "executing" /\ phase[d] \in Outstanding
    BY <1>1, <1>2 DEF CallsSound, NestsProperly, TypeOK, Outstanding, Holding
  <2>1. phase[d] \in Outstanding
    BY <1>1, <1>2 DEF CallsSound, TypeOK, Outstanding, Holding
  <2>2. phase[parent[d]] = "executing" /\ parent[d] \in Calls
    BY <2>1 DEF CallsSound, NestsProperly, TypeOK
  <2>3. parent[d] # c
    BY <1>1, <2>1, <2>2 DEF Waits, Children
  <2> QED
    BY <1>2, <2>1, <2>2, <2>3 DEF CallsSound, TypeOK
<1> QED
  BY <1>3, <1>4, <1>5, <1>6 DEF CallsSound

-----------------------------------------------------------------------------
(* A call finishes, and its stream goes to the first in the queue. *)
LEMMA FinishSound ==
    ASSUME CallsSound, NEW c \in Calls, Finish(c)
    PROVE  CallsSound'
<1> DEFINE s == side[c]
           w == Head(queue[s])
<1>1. /\ s \in Sides /\ phase[c] = "replied"
      /\ UNCHANGED <<limit, side, parent, depth>>
      /\ phase \in [Calls -> Phases] /\ side \in [Calls -> Sides]
      /\ parent \in [Calls -> Calls \cup {None}] /\ queue \in [Sides -> Seq(Calls)]
  BY DEF CallsSound, TypeOK, Finish, made
<1>2. \A t \in Sides : /\ Cardinality(Holders(t)') <= limit'[t]
                       /\ queue'[t] # <<>> => Cardinality(Holders(t)') = limit'[t]
  <2>1. \A t \in Sides : t = s \/ t = Other(s)
    BY <1>1 DEF Sides, Other
  <2>2. \A t \in Sides : PoolStep(t)
    BY <2>1, FinishEffect DEF PoolStep
  <2> QED
    BY <1>1, <2>2, CountsKept
<1>3. /\ \A t \in Sides : \A i \in 1..Len(queue[t]) :
           queue[t][i] \in Calls \ {c} /\ phase[queue[t][i]] = "queued" /\ side[queue[t][i]] = t
      /\ \A t \in Sides : \A i, j \in 1..Len(queue[t]) : queue[t][i] = queue[t][j] => i = j
  <2>1. \A t \in Sides : \A i \in 1..Len(queue[t]) : queue[t][i] \in Calls
    BY <1>1, ElementOfSeq
  <2> QED
    BY <1>1, <2>1 DEF CallsSound, QueuesSound
<1>4. CASE queue[s] = <<>>
  <2>1. phase' = [phase EXCEPT ![c] = "done"] /\ queue' = queue
    BY <1>4 DEF Finish
  <2>2. TypeOK'
    BY <1>1, <2>1 DEF CallsSound, TypeOK, Phases
  <2>3. QueuesSound'
    BY <1>1, <1>2, <1>3, <2>1 DEF QueuesSound
  <2>4. QueuedIsInQueue'
    BY <1>1, <2>1 DEF CallsSound, QueuedIsInQueue
  <2>5. NestsProperly'
    BY <1>1, <2>1 DEF CallsSound, NestsProperly, Outstanding, Holding
  <2> QED
    BY <2>2, <2>3, <2>4, <2>5 DEF CallsSound
<1>5. CASE queue[s] # <<>>
  <2>1. /\ phase' = [phase EXCEPT ![c] = "done", ![w] = "sent"]
        /\ queue' = [queue EXCEPT ![s] = Tail(queue[s])]
    BY <1>5 DEF Finish
  <2>2. w \in Calls /\ phase[w] = "queued" /\ side[w] = s /\ w # c
    BY <1>1, <1>5, HeadFacts
  <2>3. /\ w = queue[s][1] /\ queue'[s] = Tail(queue[s]) /\ Tail(queue[s]) \in Seq(Calls)
        /\ Len(queue[s]) \in Nat /\ Len(queue[s]) >= 1
        /\ Len(queue'[s]) = Len(queue[s]) - 1
        /\ \A i \in 1..(Len(queue[s]) - 1) : queue'[s][i] = queue[s][i + 1]
        /\ \A t \in Sides : t # s => queue'[t] = queue[t]
    BY <1>1, <1>5, <2>1, TailFacts
  <2> HIDE DEF w, s
  <2>4. TypeOK'
    BY <1>1, <2>1, <2>3 DEF CallsSound, TypeOK, Phases, Outstanding, Holding
  <2>5. \A i \in 1..Len(queue'[s]) :
          queue'[s][i] # w /\ phase'[queue'[s][i]] = "queued" /\ side'[queue'[s][i]] = s
    BY <1>1, <1>3, <2>1, <2>3
  <2>6. \A i, j \in 1..Len(queue'[s]) : queue'[s][i] = queue'[s][j] => i = j
    <3>1. \A i, j \in 1..Len(queue[s]) : queue[s][i] = queue[s][j] => i = j
      BY <1>1, <1>3
    <3>2. \A i \in 1..Len(queue'[s]) : /\ i + 1 \in 1..Len(queue[s]) /\ i \in Int
                                      /\ queue'[s][i] = queue[s][i + 1]
      BY <2>3
    <3> QED
      BY <3>1, <3>2
  <2>7. \A t \in Sides : t # s => \A i \in 1..Len(queue[t]) :
          phase'[queue[t][i]] = "queued" /\ side'[queue[t][i]] = t
    BY <1>1, <1>3, <2>1, <2>2
  <2>8. QueuesSound'
    <3>1. \A t \in Sides : t # s =>
            \A i, j \in 1..Len(queue'[t]) : queue'[t][i] = queue'[t][j] => i = j
      BY <1>3, <2>3
    <3>2. \A t \in Sides :
            /\ \A i \in 1..Len(queue'[t]) : /\ phase'[queue'[t][i]] = "queued"
                                            /\ side'[queue'[t][i]] = t
            /\ \A i, j \in 1..Len(queue'[t]) : queue'[t][i] = queue'[t][j] => i = j
      <4> TAKE t \in Sides
      <4>1. CASE t = s
        BY <2>5, <2>6, <4>1
      <4>2. CASE t # s
        <5>1. queue'[t] = queue[t]
          BY <2>3, <4>2
        <5> QED
          BY <2>7, <3>1, <4>2, <5>1
      <4> QED
        BY <4>1, <4>2
    <3> QED
      BY <1>2, <3>2 DEF QueuesSound
  <2>9. QueuedIsInQueue'
    <3> SUFFICES ASSUME NEW d \in Calls, phase'[d] = "queued"
                 PROVE  \E i \in 1..Len(queue'[side[d]]) : queue'[side[d]][i] = d
      BY <1>1 DEF QueuedIsInQueue
    <3>1. phase[d] = "queued" /\ d # w /\ side[d] \in Sides
      BY <1>1, <2>1, <2>2
    <3>2. PICK i \in 1..Len(queue[side[d]]) : queue[side[d]][i] = d
      BY <3>1 DEF CallsSound, QueuedIsInQueue
    <3>3. CASE side[d] = s
      <4>1. i # 1 /\ i - 1 \in 1..Len(queue'[s]) /\ queue'[s][i - 1] = queue[s][i]
        BY <2>3, <3>1, <3>2, <3>3
      <4> QED
        BY <3>2, <3>3, <4>1
    <3>4. CASE side[d] # s
      BY <2>3, <3>1, <3>2, <3>4
    <3> QED
      BY <3>3, <3>4
  <2>10. NestsProperly'
    <3> SUFFICES ASSUME NEW d \in Calls, phase'[d] \in Outstanding
                 PROVE  /\ phase[d] \in Outstanding
                        /\ parent[d] # None => phase'[parent[d]] = "executing"
      BY <1>1 DEF CallsSound, NestsProperly
    <3>1. phase[d] \in Outstanding
      BY <1>1, <2>1, <2>2 DEF Outstanding, Holding
    <3>2. ASSUME parent[d] # None PROVE phase'[parent[d]] = "executing"
      <4>1. parent[d] \in Calls /\ phase[parent[d]] = "executing"
        BY <1>1, <3>1, <3>2 DEF CallsSound, NestsProperly
      <4>2. parent[d] # c /\ parent[d] # w
        BY <1>1, <2>2, <4>1
      <4> QED
        BY <1>1, <2>1, <4>1, <4>2
    <3> QED
      BY <3>1, <3>2
  <2> QED
    BY <2>4, <2>8, <2>9, <2>10 DEF CallsSound
<1> QED
  BY <1>4, <1>5

LEMMA StutterSound == CallsSound /\ UNCHANGED vars => CallsSound'
<1> SUFFICES ASSUME CallsSound, UNCHANGED vars PROVE CallsSound'
  OBVIOUS
<1>1. TypeOK' /\ QueuedIsInQueue' /\ NestsProperly'
  BY DEF CallsSound, TypeOK, QueuedIsInQueue, NestsProperly, vars
<1>2. \A s \in Sides : Holders(s)' = Holders(s)
  BY DEF Holders, vars
<1>3. QueuesSound'
  BY <1>2 DEF CallsSound, QueuesSound, vars
<1> QED
  BY <1>1, <1>3 DEF CallsSound

LEMMA StepSound == CallsSound /\ [Next]_vars => CallsSound'
<1> SUFFICES ASSUME CallsSound, [Next]_vars PROVE CallsSound'
  OBVIOUS
<1>1. CASE UNCHANGED vars
  BY <1>1, StutterSound
<1>2. ASSUME NEW c \in Calls, NEW s \in Sides, NEW p \in Calls \cup {None},
             NEW n \in 1..MaxDepth, Call(c, s, p, n)
      PROVE  CallsSound'
  BY <1>2, CallSound
<1>3. ASSUME NEW c \in Calls, Handle(c) \/ Reply(c) PROVE CallsSound'
  BY <1>3, ServeSound
<1>4. ASSUME NEW c \in Calls, Finish(c) PROVE CallsSound'
  BY <1>4, FinishSound
<1> QED
  BY <1>1, <1>2, <1>3, <1>4 DEF Next

(* For any calls, pool sizes and depth: no pool gives out more streams     *)
(* than it has, calls queue only when all are taken, and calls nest.       *)
THEOREM Sound == Spec => []CallsSound
BY InitSound, StepSound, PTL DEF Spec

-----------------------------------------------------------------------------
(* Knots. *)

(* A call that can take its next step by itself. *)
CanMove(c) ==
    \/ phase[c] \in {"sent", "replied"}
    \/ phase[c] = "executing" /\ ~Waits(c)

(* A knot is the only way in which calls come to a standstill: while one   *)
(* is outstanding that is in no knot, some call can move.                  *)
SomeCallMoves ==
    (\E c \in Calls : phase[c] \in Outstanding /\ ~Knotted(c)) => \E c \in Calls : CanMove(c)

(* A queued call waits for streams that other calls of its side have: all  *)
(* of the pool's, and there is one at least.                               *)
LEMMA WaitsForHolders ==
    ASSUME CallsSound, NEW c \in Calls, phase[c] = "queued"
    PROVE  /\ side[c] \in Sides
           /\ Cardinality(Holders(side[c])) = limit[side[c]]
           /\ limit[side[c]] \in Nat
           /\ Holders(side[c]) # {}
<1> DEFINE s == side[c]
<1>1. s \in Sides /\ queue[s] \in Seq(Calls) /\ limit[s] \in Nat \ {0}
  BY DEF CallsSound, TypeOK
<1>2. PICK i \in 1..Len(queue[s]) : queue[s][i] = c
  BY DEF CallsSound, QueuedIsInQueue
<1>3. queue[s] # <<>>
  BY <1>1, <1>2, EmptySeq
<1>4. Cardinality(Holders(s)) = limit[s]
  BY <1>1, <1>3 DEF CallsSound, QueuesSound
<1>5. Holders(s) # {}
  BY <1>1, <1>4, FS_EmptySet
<1> QED
  BY <1>1, <1>4, <1>5

(* Calls that are outstanding when none can move are all in one knot. *)
LEMMA StandstillIsKnot ==
    ASSUME CallsSound PROVE SomeCallMoves
<1> SUFFICES ASSUME NEW c \in Calls, phase[c] \in Outstanding, \A d \in Calls : ~CanMove(d)
             PROVE  Knotted(c)
  BY DEF SomeCallMoves
<1> DEFINE D == {d \in Calls : phase[d] \in Outstanding}
<1>1. ASSUME NEW d \in D, phase[d] = "executing"
      PROVE  \E e \in D \cap Children(d) : phase[e] \in Outstanding
  BY <1>1 DEF CanMove, Waits, Children
<1>2. ASSUME NEW d \in D, phase[d] = "queued"
      PROVE  Holders(side[d]) # {} /\ Holders(side[d]) \subseteq D
  <2>1. Holders(side[d]) # {}
    BY <1>2, WaitsForHolders
  <2> QED
    BY <2>1 DEF Holders, Outstanding
<1>3. \A d \in D : phase[d] = "executing" \/ phase[d] = "queued"
  BY DEF CanMove, Outstanding, Holding
<1>4. Knot(D)
  BY <1>1, <1>2, <1>3 DEF Knot
<1>5. c \in D /\ D \in SUBSET Calls
  OBVIOUS
<1> HIDE DEF D
<1> QED
  BY <1>4, <1>5 DEF Knotted, Knots

(* However small the pools and however deep calls nest, calls come to a    *)
(* standstill only in knots (imported.ts:252-284, exported.ts:226-244).    *)
THEOREM NoStandstill == Spec => []SomeCallMoves
<1>1. CallsSound => SomeCallMoves
  BY StandstillIsKnot
<1> QED
  BY Sound, <1>1, PTL

(* What a call of a knot waits for is in the knot. *)
LEMMA KnotFacts ==
    ASSUME NEW D \in Knots, NEW c \in D
    PROVE  /\ c \in Calls
           /\ \/ phase[c] = "executing" /\ \E d \in D : parent[d] = c /\ phase[d] \in Outstanding
              \/ phase[c] = "queued" /\ Holders(side[c]) # {} /\ Holders(side[c]) \subseteq D
<1>1. D \subseteq Calls /\ Knot(D)
  BY DEF Knots
<1> QED
  BY <1>1 DEF Knot, Children

(* Outstanding calls are at least one deep, and deeper than the call that  *)
(* they are made in.                                                       *)
LEMMA DepthFacts ==
    ASSUME CallsSound, NEW c \in Calls, phase[c] \in Outstanding
    PROVE  /\ depth[c] \in Nat /\ depth[c] >= 1
           /\ parent[c] = None => depth[c] = 1
           /\ parent[c] # None => /\ parent[c] \in Calls /\ phase[parent[c]] \in Outstanding
                                 /\ side[c] = Other(side[parent[c]])
                                 /\ depth[c] = depth[parent[c]] + 1
                                 /\ depth[c] >= 2
<1>1. \A d \in Calls : depth[d] \in Nat
  BY DepthAssumption DEF CallsSound, TypeOK
<1>2. \A d \in Calls : phase[d] \in Outstanding => depth[d] >= 1
  <2> SUFFICES ASSUME NEW d \in Calls, phase[d] \in Outstanding PROVE depth[d] >= 1
    OBVIOUS
  <2>1. CASE parent[d] = None
    BY <1>1, <2>1 DEF CallsSound, NestsProperly
  <2>2. CASE parent[d] # None
    <3>1. parent[d] \in Calls /\ depth[d] = depth[parent[d]] + 1
      BY <2>2 DEF CallsSound, TypeOK, NestsProperly
    <3> QED
      BY <1>1, <3>1
  <2> QED
    BY <2>1, <2>2
<1>3. CASE parent[c] = None
  BY <1>1, <1>3 DEF CallsSound, NestsProperly
<1>4. CASE parent[c] # None
  <2>1. /\ parent[c] \in Calls /\ phase[parent[c]] = "executing"
        /\ side[c] = Other(side[parent[c]]) /\ depth[c] = depth[parent[c]] + 1
    BY <1>4 DEF CallsSound, TypeOK, NestsProperly
  <2>2. phase[parent[c]] \in Outstanding
    BY <2>1 DEF Outstanding, Holding
  <2>3. depth[parent[c]] >= 1
    BY <1>2, <2>1, <2>2
  <2> QED
    BY <1>1, <1>4, <2>1, <2>2, <2>3
<1> QED
  BY <1>3, <1>4

(* With the outermost calls on one side and callbacks that do not call     *)
(* back, the calls of one pool are the outermost ones and those of the     *)
(* other are made in them: the inner ones wait for each other only, and    *)
(* the outer ones for them.                                                *)
LEMMA OneSidedUnknotted ==
    ASSUME CallsSound PROVE KnotsTakeTwoSides
<1> SUFFICES ASSUME NEW D \in Knots, OneSided PROVE FALSE
  BY DEF KnotsTakeTwoSides
<1> DEFINE Inner(d) == d \in D /\ phase[d] \in Outstanding /\ parent[d] # None
<1>1. D \subseteq Calls /\ D # {}
  BY DEF Knots
<1>2. \A d \in Calls : side[d] \in Sides
  BY DEF CallsSound, TypeOK
<1>3. ASSUME NEW d \in D, Inner(d) PROVE phase[d] # "executing"
  <2> SUFFICES ASSUME phase[d] = "executing" PROVE FALSE
    OBVIOUS
  <2>1. PICK e \in D : parent[e] = d /\ phase[e] \in Outstanding
    BY KnotFacts
  <2>2. d \in Calls /\ e \in Calls /\ d # None
    BY <1>1, CallsAssumption
  <2>3. depth[d] \in Nat /\ depth[d] >= 2
    BY <1>3, <2>2, DepthFacts
  <2>4. depth[e] = depth[d] + 1
    BY <2>1, <2>2, DepthFacts
  <2>5. depth[e] <= 2
    BY <2>1, <2>2 DEF OneSided
  <2> QED
    BY <2>3, <2>4, <2>5
<1>4. PICK c \in D : phase[c] = "executing"
  <2>1. PICK d \in D : TRUE
    BY <1>1
  <2>2. CASE phase[d] = "executing"
    BY <2>2
  <2>3. CASE phase[d] # "executing"
    <3>1. Holders(side[d]) # {} /\ Holders(side[d]) \subseteq D
      BY <2>3, KnotFacts
    <3>2. PICK e \in D : phase[e] \in Holding
      BY <3>1 DEF Holders
    <3>3. phase[e] # "queued"
      BY <3>2 DEF Holding
    <3> QED
      BY <3>3, KnotFacts
  <2> QED
    BY <2>2, <2>3
<1>5. PICK i \in D : parent[i] = c /\ phase[i] \in Outstanding
  BY <1>4, KnotFacts
<1>6. c \in Calls /\ i \in Calls /\ c # None /\ Inner(i) /\ phase[c] \in Outstanding
  BY <1>1, <1>4, <1>5, CallsAssumption DEF Outstanding, Holding
<1>7. parent[c] = None /\ side[i] = Other(side[c])
  BY <1>3, <1>4, <1>5, <1>6, DepthFacts
<1>8. Holders(side[i]) # {} /\ Holders(side[i]) \subseteq D
  BY <1>3, <1>6, KnotFacts
<1>9. PICK e \in D : side[e] = side[i] /\ phase[e] \in Holding
  BY <1>8 DEF Holders
<1>10. e \in Calls /\ phase[e] \in Outstanding /\ phase[e] = "executing"
  BY <1>1, <1>9, KnotFacts DEF Outstanding, Holding
<1>11. side[e] # side[c]
  BY <1>2, <1>6, <1>7, <1>9, OtherFacts
<1>12. Inner(e)
  BY <1>6, <1>7, <1>10, <1>11 DEF OneSided
<1> QED
  BY <1>3, <1>10, <1>12

(* However small the pools and however many the calls, calls that start on *)
(* one side, with callbacks that do not call back (exported.ts:246-270),   *)
(* never wait for each other in a circle.                                  *)
THEOREM TwoSidesToAKnot == Spec => []KnotsTakeTwoSides
<1>1. CallsSound => KnotsTakeTwoSides
  BY OneSidedUnknotted
<1> QED
  BY Sound, <1>1, PTL

(* A knot lasts while its calls and the pools that they wait for do. *)
LEMMA KnotKept ==
    ASSUME NEW D \in Knots,
           \A d \in D : /\ phase'[d] = phase[d] /\ side'[d] = side[d] /\ parent'[d] = parent[d]
                        /\ phase[d] = "queued" => Holders(side[d])' = Holders(side[d])
    PROVE  D \in Knots'
<1>1. D \subseteq Calls /\ D # {}
  BY DEF Knots
<1>2. ASSUME NEW c \in D
      PROVE  \/ phase'[c] = "executing" /\ \E d \in D \cap Children(c)' : phase'[d] \in Outstanding
             \/ phase'[c] = "queued" /\ Holders(side[c])' # {} /\ Holders(side[c])' \subseteq D
  BY <1>1, KnotFacts DEF Children
<1>3. Knot(D)'
  BY <1>2 DEF Knot, Holders
<1> QED
  BY <1>1, <1>3 DEF Knots

LEMMA KnotStep ==
    ASSUME CallsSound, [Next]_vars, NEW D \in Knots
    PROVE  D \in Knots'
<1>1. /\ D \subseteq Calls
      /\ \A t \in Sides : Other(t) \in Sides
      /\ \A d \in Calls : side[d] \in Sides
      /\ phase \in [Calls -> Phases] /\ side \in [Calls -> Sides]
      /\ parent \in [Calls -> Calls \cup {None}]
  BY OtherFacts DEF Knots, CallsSound, TypeOK
<1>2. CASE UNCHANGED vars
  <2>1. \A s \in Sides : Holders(s)' = Holders(s)
    BY <1>2 DEF Holders, vars
  <2> QED
    BY <1>1, <1>2, <2>1, KnotKept DEF vars
<1>3. ASSUME NEW c \in Calls, NEW s \in Sides, NEW p \in Calls \cup {None},
             NEW n \in 1..MaxDepth, Call(c, s, p, n)
      PROVE  D \in Knots'
  <2>1. c \notin D
    BY <1>3, KnotFacts DEF Call
  <2>2. \A d \in D : phase'[d] = phase[d] /\ side'[d] = side[d] /\ parent'[d] = parent[d]
    BY <1>1, <1>3, <2>1 DEF Call, Acquire
  <2>3. ASSUME NEW d \in D, phase[d] = "queued"
        PROVE  Holders(side[d])' = Holders(side[d])
    <3>1. Grants(s, c) \/ Queues(s, c)
      BY <1>3, CallEffect
    <3>2. Untouched(Other(s))
      BY <1>3, CallEffect
    <3>3. /\ Cardinality(Holders(side[d])) = limit[side[d]]
          /\ limit[side[d]] \in Nat /\ side[d] \in Sides
      BY <1>1, <2>3, WaitsForHolders
    <3>4. CASE side[d] = s
      BY <2>2, <3>1, <3>3, <3>4 DEF Grants, Queues
    <3>5. CASE side[d] # s
      <4>1. side[d] = Other(s) /\ side'[d] = side[d]
        BY <2>2, <3>3, <3>5 DEF Sides, Other
      <4> QED
        BY <3>2, <4>1 DEF Untouched
    <3> QED
      BY <3>4, <3>5
  <2> QED
    BY <2>2, <2>3, KnotKept
<1>4. ASSUME NEW c \in Calls, Handle(c) \/ Reply(c) PROVE D \in Knots'
  <2>1. c \notin D
    BY <1>4, KnotFacts DEF Handle, Reply, Waits, Children, Knots
  <2>2. \A d \in D : phase'[d] = phase[d] /\ side'[d] = side[d] /\ parent'[d] = parent[d]
    BY <1>1, <1>4, <2>1 DEF Handle, Reply, made
  <2>3. \A s \in Sides : Holders(s)' = Holders(s)
    BY <1>4, ServeEffect DEF Untouched
  <2> QED
    BY <1>1, <2>2, <2>3, KnotKept
<1>5. ASSUME NEW c \in Calls, Finish(c) PROVE D \in Knots'
  <2> DEFINE s == side[c]
  <2>1. c \notin D /\ s \in Sides /\ c \in Holders(s)
    BY <1>1, <1>5, KnotFacts DEF Finish, Holders, Holding
  <2>2. \A d \in D : phase[d] = "queued" => side[d] # s
    BY <2>1, KnotFacts
  <2>3. \A d \in D : phase'[d] = phase[d] /\ side'[d] = side[d] /\ parent'[d] = parent[d]
    <3>1. CASE queue[s] = <<>>
      BY <1>1, <1>5, <2>1, <3>1 DEF Finish, made
    <3>2. CASE queue[s] # <<>>
      <4>1. Head(queue[s]) \notin D
        BY <2>1, <2>2, <3>2, HeadFacts
      <4> QED
        BY <1>1, <1>5, <2>1, <3>2, <4>1 DEF Finish, made
    <3> QED
      BY <3>1, <3>2
  <2>4. Untouched(Other(s))
    BY <1>5, FinishEffect
  <2>5. \A d \in D : phase[d] = "queued" => side[d] = Other(s)
    BY <1>1, <2>1, <2>2 DEF Sides, Other
  <2>6. ASSUME NEW d \in D, phase[d] = "queued"
        PROVE  Holders(side[d])' = Holders(side[d])
    <3>1. side[d] = Other(s) /\ side'[d] = Other(s)
      BY <2>3, <2>5, <2>6
    <3>2. \A t : t = Other(s) => Holders(t)' = Holders(t)
      <4>1. side' = side
        BY <1>5 DEF Finish, made
      <4> QED
        BY <2>4, <4>1 DEF Untouched
    <3> QED
      BY <3>1, <3>2
  <2> QED
    BY <2>3, <2>6, KnotKept
<1> QED
  BY <1>2, <1>3, <1>4, <1>5 DEF Next

(* A knot, once tied, is there for good: neither acquire                   *)
(* (stream_pool.ts:43) nor the wait for a callback's reply gives up.       *)
THEOREM KnotsStay == Spec => KnotsLast
<1>1. CallsSound /\ [Next]_vars => [\A D \in Knots : D \in Knots']_vars
  BY KnotStep
<1> QED
  BY Sound, <1>1, PTL DEF Spec, KnotsLast
=============================================================================

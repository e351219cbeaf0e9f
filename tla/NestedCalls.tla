----------------------------- MODULE NestedCalls ----------------------------
(***************************************************************************)
(* Calls in both directions over one session, each on a stream of its own  *)
(* side's pool.  A call keeps its stream from the request to the reply     *)
(* (imported.ts:261-283, exported.ts:229-243); serving a request takes no  *)
(* pooled stream, but the operation that is run may call back, and waits   *)
(* for its calls before it returns.                                        *)
(*                                                                         *)
(* The pools are taken at what StreamPool is shown to implement while      *)
(* streams can be opened: first-come first-served semaphores.              *)
(***************************************************************************)
EXTENDS Naturals, Sequences, FiniteSets

CONSTANTS
    Calls,      \* bound: one name for each call that is made
    None,       \* no call
    Starters,   \* the sides whose programs call on their own account
    MaxDepth,   \* how deep the programs nest calls in each other
    PoolSizes   \* streamPoolSize, after the floor of one

Sides == {"importer", "exporter"}
Other(s) == IF s = "importer" THEN "exporter" ELSE "importer"

ASSUME CallsAssumption == IsFiniteSet(Calls) /\ None \notin Calls
ASSUME StartersAssumption == Starters \subseteq Sides
ASSUME DepthAssumption == MaxDepth \in Nat
ASSUME SizesAssumption == PoolSizes \subseteq Nat \ {0}

VARIABLES
    limit,   \* the size of each side's pool
    queue,   \* the calls that wait for a stream of each side's pool
    phase,   \* how far each call has come
    side,    \* the side that makes it
    parent,  \* the call whose operation makes it and waits for it, or None
    depth    \* how many calls deep it is nested

vars == <<limit, queue, phase, side, parent, depth>>
made == <<side, parent, depth>>

(* queued     waits in acquire                                             *)
(* sent       has a stream, the request is on its way                      *)
(* executing  the other side runs the operation                            *)
(* replied    the reply is on its way                                      *)
Holding == {"sent", "executing", "replied"}
Outstanding == {"queued"} \cup Holding
Phases == {"unused", "done"} \cup Outstanding

Init ==
    /\ limit \in [Sides -> PoolSizes]
    /\ queue = [s \in Sides |-> <<>>]
    /\ phase = [c \in Calls |-> "unused"]
    /\ side = [c \in Calls |-> "importer"]
    /\ parent = [c \in Calls |-> None]
    /\ depth = [c \in Calls |-> 0]

(* The calls that hold a stream of this side's pool. *)
Holders(s) == {c \in Calls : side[c] = s /\ phase[c] \in Holding}

Children(c) == {d \in Calls : parent[d] = c}
Waits(c) == \E d \in Children(c) : phase[d] \in Outstanding

(* Mutant: a callback draws on the pool its caller's stream came from. *)
MayCallOnOnePool(s, p, n) ==
    IF p = None THEN s \in Starters /\ n = 1
                ELSE phase[p] = "executing" /\ s = side[p] /\ n = depth[p] + 1

(* A program calls on its own account, or within an operation that it runs *)
(* for the other side.                                                     *)
MayCall(s, p, n) ==
    IF p = None THEN s \in Starters /\ n = 1
                ELSE phase[p] = "executing" /\ s = Other(side[p]) /\ n = depth[p] + 1

(* streamPool.acquire() *)
Acquire(c, s) ==
    IF Cardinality(Holders(s)) < limit[s]
      THEN /\ phase' = [phase EXCEPT ![c] = "sent"]
           /\ UNCHANGED queue
      ELSE /\ phase' = [phase EXCEPT ![c] = "queued"]
           /\ queue' = [queue EXCEPT ![s] = Append(@, c)]

Call(c, s, p, n) ==
    /\ phase[c] = "unused"
    /\ n <= MaxDepth
    /\ MayCall(s, p, n)
    /\ Acquire(c, s)
    /\ side' = [side EXCEPT ![c] = s]
    /\ parent' = [parent EXCEPT ![c] = p]
    /\ depth' = [depth EXCEPT ![c] = n]
    /\ UNCHANGED limit

(* The other side accepts the stream and starts the operation. *)
Handle(c) ==
    /\ phase[c] = "sent"
    /\ phase' = [phase EXCEPT ![c] = "executing"]
    /\ UNCHANGED <<limit, queue, made>>

(* Mutant: the result is sent without awaiting the calls it depends on. *)
ReplyEarly(c) ==
    /\ phase[c] = "executing"
    /\ phase' = [phase EXCEPT ![c] = "replied"]
    /\ UNCHANGED <<limit, queue, made>>

(* The operation ends, and so have the calls it waited for. *)
Reply(c) ==
    /\ phase[c] = "executing"
    /\ ~Waits(c)
    /\ phase' = [phase EXCEPT ![c] = "replied"]
    /\ UNCHANGED <<limit, queue, made>>

(* Mutant: a released stream goes idle although a call waits for it. *)
FinishPastQueue(c) ==
    /\ phase[c] = "replied"
    /\ phase' = [phase EXCEPT ![c] = "done"]
    /\ UNCHANGED <<limit, queue, made>>

(* The reply is read and the stream released: to the first that waits. *)
Finish(c) ==
    /\ phase[c] = "replied"
    /\ LET q == queue[side[c]]
       IN  IF q = <<>>
             THEN /\ phase' = [phase EXCEPT ![c] = "done"]
                  /\ UNCHANGED queue
             ELSE /\ phase' = [phase EXCEPT ![c] = "done", ![Head(q)] = "sent"]
                  /\ queue' = [queue EXCEPT ![side[c]] = Tail(q)]
    /\ UNCHANGED <<limit, made>>

Next ==
    \E c \in Calls :
        \/ \E s \in Sides, p \in Calls \cup {None}, n \in 1..MaxDepth : Call(c, s, p, n)
        \/ Handle(c)
        \/ Reply(c)
        \/ Finish(c)

Spec == Init /\ [][Next]_vars

(* Requests and replies arrive, and an operation ends once the calls it    *)
(* waits for have ended.  No program need make a call.                     *)
Fairness == \A c \in Calls : WF_vars(Handle(c)) /\ WF_vars(Reply(c)) /\ WF_vars(Finish(c))

FairSpec == Spec /\ Fairness

-----------------------------------------------------------------------------

TypeOK ==
    /\ limit \in [Sides -> Nat \ {0}]
    /\ queue \in [Sides -> Seq(Calls)]
    /\ phase \in [Calls -> Phases]
    /\ side \in [Calls -> Sides]
    /\ parent \in [Calls -> Calls \cup {None}]
    /\ depth \in [Calls -> 0..MaxDepth]

(* No more streams are taken than the pool has; calls that wait find all   *)
(* of them taken, and wait once.                                           *)
QueuesSound ==
    \A s \in Sides :
        /\ Cardinality(Holders(s)) <= limit[s]
        /\ queue[s] # <<>> => Cardinality(Holders(s)) = limit[s]
        /\ \A i \in 1..Len(queue[s]) :
             phase[queue[s][i]] = "queued" /\ side[queue[s][i]] = s
        /\ \A i, j \in 1..Len(queue[s]) : queue[s][i] = queue[s][j] => i = j

(* A waiting call is in its side's queue. *)
QueuedIsInQueue ==
    \A c \in Calls : phase[c] = "queued" => \E i \in 1..Len(queue[side[c]]) : queue[side[c]][i] = c

(* Calls nest: one made within another is made by the other side, one      *)
(* deeper, and the outer one is executing until it has ended.              *)
NestsProperly ==
    \A c \in Calls : phase[c] \in Outstanding =>
        IF parent[c] = None
          THEN side[c] \in Starters /\ depth[c] = 1
          ELSE /\ side[c] = Other(side[parent[c]])
               /\ depth[c] = depth[parent[c]] + 1
               /\ phase[parent[c]] = "executing"

(* The inductive invariant. *)
CallsSound == TypeOK /\ QueuesSound /\ QueuedIsInQueue /\ NestsProperly

(* Calls that wait for each other: each is executing and waits for one of  *)
(* them, or waits for a stream of a pool that they have used up.           *)
Knot(D) ==
    \A c \in D :
        \/ phase[c] = "executing" /\ \E d \in D \cap Children(c) : phase[d] \in Outstanding
        \/ phase[c] = "queued" /\ Holders(side[c]) # {} /\ Holders(side[c]) \subseteq D

Knots == {D \in SUBSET Calls : D # {} /\ Knot(D)}
Knotted(c) == \E D \in Knots : c \in D

(* The programs of one side only have calls outstanding on their own       *)
(* account, and no callback has called back.                               *)
OneSided ==
    /\ \A c \in Calls : phase[c] \in Outstanding => depth[c] <= 2
    /\ \A c, d \in Calls :
         /\ phase[c] \in Outstanding /\ parent[c] = None
         /\ phase[d] \in Outstanding /\ parent[d] = None
         => side[c] = side[d]

(* It takes calls that both sides start, or a callback that calls back, to *)
(* tie a knot: a callback's own call comes from the other side's pool than *)
(* the call that led to it (exported.ts:229, imported.ts:261).             *)
KnotsTakeTwoSides == Knots # {} => ~OneSided

(* A knot never comes undone: no later call, reply or release of a stream  *)
(* lets a call of it go on, as neither acquire nor the wait for a callback *)
(* has a timeout.                                                          *)
KnotsLast == [][\A D \in Knots : D \in Knots']_vars

(* Every call ends, unless it gets caught in a knot. *)
CallsEnd ==
    \A c \in Calls : (phase[c] \in Outstanding) ~> (phase[c] = "done" \/ Knotted(c))
=============================================================================

---------------------------- MODULE FifoSemaphore ---------------------------
(***************************************************************************)
(* A counting semaphore served in order of arrival: what a stream pool     *)
(* promises its callers (src/src/stream_pool.ts), without streams.         *)
(***************************************************************************)
EXTENDS Naturals, Sequences, FiniteSets

CONSTANT Callers
VARIABLES
    limit,    \* number of permits, fixed
    granted,  \* the callers that hold a permit
    queue     \* the callers that wait, first come first

semVars == <<limit, granted, queue>>

Init ==
    /\ limit \in Nat \ {0}
    /\ granted = {}
    /\ queue = <<>>

Full == Cardinality(granted) >= limit

Grant(c) ==
    /\ ~Full
    /\ queue = <<>>
    /\ c \notin granted
    /\ granted' = granted \cup {c}
    /\ UNCHANGED <<limit, queue>>

Enqueue(c) ==
    /\ Full
    /\ c \notin granted
    /\ queue' = Append(queue, c)
    /\ UNCHANGED <<limit, granted>>

Free(c) ==
    /\ c \in granted
    /\ queue = <<>>
    /\ granted' = granted \ {c}
    /\ UNCHANGED <<limit, queue>>

Handover(c) ==
    /\ c \in granted
    /\ queue # <<>>
    /\ granted' = (granted \ {c}) \cup {Head(queue)}
    /\ queue' = Tail(queue)
    /\ UNCHANGED limit

Next == \E c \in Callers : Grant(c) \/ Enqueue(c) \/ Free(c) \/ Handover(c)

Spec == Init /\ [][Next]_semVars
=============================================================================

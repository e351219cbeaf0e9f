----------------------------- MODULE RemoteCall -----------------------------
(***************************************************************************)
(* What a call over a pooled stream promises its caller, without streams:  *)
(* the request is executed at most once, and an answer comes from the one  *)
(* execution of that request.                                              *)
(***************************************************************************)
EXTENDS Naturals

CONSTANTS
    Calls,
    None     \* no call

VARIABLES
    status,  \* what each caller knows of its call
    runs,    \* how often its request has been executed
    answer   \* the call whose execution it was answered from, or None

callVars == <<status, runs, answer>>

Init ==
    /\ status = [c \in Calls |-> "idle"]
    /\ runs = [c \in Calls |-> 0]
    /\ answer = [c \in Calls |-> None]

Ask(c) ==
    /\ status[c] = "idle"
    /\ status' = [status EXCEPT ![c] = "waiting"]
    /\ UNCHANGED <<runs, answer>>

(* Fails before anything was sent: such a call is never executed. *)
Refuse(c) ==
    /\ status[c] = "idle"
    /\ status' = [status EXCEPT ![c] = "refused"]
    /\ UNCHANGED <<runs, answer>>

(* The caller may have failed while its request was under way. *)
Run(c) ==
    /\ status[c] \in {"waiting", "failed"}
    /\ runs[c] = 0
    /\ runs' = [runs EXCEPT ![c] = 1]
    /\ UNCHANGED <<status, answer>>

Answer(c) ==
    /\ status[c] = "waiting"
    /\ runs[c] = 1
    /\ status' = [status EXCEPT ![c] = "answered"]
    /\ answer' = [answer EXCEPT ![c] = c]
    /\ UNCHANGED runs

Fail(c) ==
    /\ status[c] = "waiting"
    /\ status' = [status EXCEPT ![c] = "failed"]
    /\ UNCHANGED <<runs, answer>>

Next == \E c \in Calls : Ask(c) \/ Refuse(c) \/ Run(c) \/ Answer(c) \/ Fail(c)

Spec == Init /\ [][Next]_callVars
=============================================================================

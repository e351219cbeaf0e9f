------------------------------ MODULE Framing -------------------------------
(***************************************************************************)
(* Requests and replies on pooled streams, in one of the two directions of *)
(* a session.  A stream carries bytes and no message boundaries: each end  *)
(* gathers chunks in a buffer and tries to decode the whole buffer after   *)
(* each of them (transport.ts:21-94).  The stream is used by one call      *)
(* after another, and by one at a time, as StreamPool is shown to keep.    *)
(*                                                                         *)
(* A message is cut into Pieces, and a chunk is any number of the pieces   *)
(* that are under way.  A buffer decodes when it is one whole message of   *)
(* the kind that is expected: bytes missing and bytes too many are both    *)
(* errors to MessagePack.                                                  *)
(***************************************************************************)
EXTENDS Naturals, Sequences

CONSTANTS
    Calls,    \* bound: one name for each call that is made
    Streams,  \* bound: one name for each stream that is opened
    None,     \* no call, no stream
    Pieces    \* in how many pieces a message may arrive

ASSUME NoneAssumption == None \notin Calls /\ None \notin Streams
ASSUME PiecesAssumption == Pieces \in Nat \ {0}

VARIABLES
    caller,    \* the side that makes the calls; the other serves them
    stream,    \* unopened, open, or ended by the session or the peer
    toServer,  \* the bytes under way on each stream, to the server
    toClient,  \* and back
    buffer,    \* requestBuffer of each stream's handler
    handler,   \* what each stream's handler does
    job,       \* the call whose request it evaluates, or None
    status,    \* what has become of each call
    using,     \* the stream that it uses, or None
    got,       \* buffer of its readInstructionFromStream
    answer,    \* the call whose reply it took for its own, or None
    runs       \* how often its request has been evaluated

server == <<buffer, handler, job, runs>>
client == <<status, using, got, answer>>
vars == <<caller, stream, toServer, toClient, server, client>>

Sides == {"importer", "exporter"}

Message(kind, c) == [i \in 1..Pieces |-> [kind |-> kind, call |-> c, part |-> i]]
Request(c) == Message("request", c)
Reply(c) == Message("reply", c)

(* tryDecodeInstruction, given the kinds its caller expects. *)
Decodes(bytes, kind, c) == bytes = Message(kind, c)
Undecodable(bytes, kind) == \A c \in Calls : ~Decodes(bytes, kind, c)

Chunk(bytes, n) == SubSeq(bytes, 1, n)
Rest(bytes, n) == SubSeq(bytes, n + 1, Len(bytes))

Init ==
    /\ caller \in Sides
    /\ stream = [s \in Streams |-> "unopened"]
    /\ toServer = [s \in Streams |-> <<>>]
    /\ toClient = [s \in Streams |-> <<>>]
    /\ buffer = [s \in Streams |-> <<>>]
    /\ handler = [s \in Streams |-> "reading"]
    /\ job = [s \in Streams |-> None]
    /\ status = [c \in Calls |-> "idle"]
    /\ using = [c \in Calls |-> None]
    /\ got = [c \in Calls |-> <<>>]
    /\ answer = [c \in Calls |-> None]
    /\ runs = [c \in Calls |-> 0]

-----------------------------------------------------------------------------
(* The calling side: executeInstructions, executeRemoteReferenceInstructions *)

(* streamPool.acquire() gives an idle stream, or opens one. *)
Acquirable(s) == stream[s] # "ended" /\ \A c \in Calls : using[c] # s

Send(c, s) ==
    /\ status[c] = "idle"
    /\ Acquirable(s)
    /\ stream' = [stream EXCEPT ![s] = "open"]
    /\ toServer' = [toServer EXCEPT ![s] = @ \o Request(c)]
    /\ status' = [status EXCEPT ![c] = "waiting"]
    /\ using' = [using EXCEPT ![c] = s]
    /\ UNCHANGED <<caller, toClient, server, got, answer>>

(* Mutant: fails when the request has been written already. *)
RefuseAfterSending(c) ==
    \E s \in Streams :
        /\ status[c] = "idle"
        /\ Acquirable(s)
        /\ stream' = [stream EXCEPT ![s] = "open"]
        /\ toServer' = [toServer EXCEPT ![s] = @ \o Request(c)]
        /\ status' = [status EXCEPT ![c] = "refused"]
        /\ UNCHANGED <<caller, toClient, server, using, got, answer>>

(* No stream can be opened, the arguments cannot be encoded, or the write  *)
(* fails at once: nothing was written, and the stream is released.         *)
Refuse(c) ==
    /\ status[c] = "idle"
    /\ status' = [status EXCEPT ![c] = "refused"]
    /\ UNCHANGED <<caller, stream, toServer, toClient, server, using, got, answer>>

(* Mutant: takes the first chunk for the reply. *)
ReceiveAtOnce(c) ==
    /\ status[c] = "waiting"
    /\ \E n \in 1..Len(toClient[using[c]]) :
         /\ toClient' = [toClient EXCEPT ![using[c]] = Rest(@, n)]
         /\ status' = [status EXCEPT ![c] = "answered"]
         /\ answer' = [answer EXCEPT ![c] = Head(toClient[using[c]]).call]
         /\ using' = [using EXCEPT ![c] = None]
         /\ UNCHANGED got
    /\ UNCHANGED <<caller, stream, toServer, server>>

(* A chunk of the reply arrives.  When the reply is complete the stream is *)
(* released, with whatever is still to come on it.                         *)
ReceiveReply(c) ==
    /\ status[c] = "waiting"
    /\ \E n \in 1..Len(toClient[using[c]]) :
         LET s == using[c]
             bytes == got[c] \o Chunk(toClient[s], n)
         IN  /\ toClient' = [toClient EXCEPT ![s] = Rest(@, n)]
             /\ \/ \E d \in Calls :
                     /\ Decodes(bytes, "reply", d)
                     /\ status' = [status EXCEPT ![c] = "answered"]
                     /\ answer' = [answer EXCEPT ![c] = d]
                     /\ using' = [using EXCEPT ![c] = None]
                     /\ got' = [got EXCEPT ![c] = <<>>]
                \/ /\ Undecodable(bytes, "reply")
                   /\ got' = [got EXCEPT ![c] = bytes]
                   /\ UNCHANGED <<status, answer, using>>
    /\ UNCHANGED <<caller, stream, toServer, server>>

(* Mutant: calls again on another stream. *)
RetryAfterEnd(c) ==
    /\ status[c] = "waiting"
    /\ stream[using[c]] = "ended"
    /\ status' = [status EXCEPT ![c] = "idle"]
    /\ using' = [using EXCEPT ![c] = None]
    /\ got' = [got EXCEPT ![c] = <<>>]
    /\ UNCHANGED <<caller, stream, toServer, toClient, server, answer>>

(* The stream ends before the reply is complete: the call fails and the    *)
(* pool drops the stream.                                                  *)
SeeEnd(c) ==
    /\ status[c] = "waiting"
    /\ stream[using[c]] = "ended"
    /\ status' = [status EXCEPT ![c] = "failed"]
    /\ using' = [using EXCEPT ![c] = None]
    /\ got' = [got EXCEPT ![c] = <<>>]
    /\ UNCHANGED <<caller, stream, toServer, toClient, server, answer>>

-----------------------------------------------------------------------------
(* The serving side: handleStream, one per accepted stream *)

(* Mutant: the buffer is not emptied for the next request. *)
ReceiveWithoutReset(s) ==
    /\ handler[s] = "reading"
    /\ \E n \in 1..Len(toServer[s]) :
         LET bytes == buffer[s] \o Chunk(toServer[s], n)
         IN  /\ toServer' = [toServer EXCEPT ![s] = Rest(@, n)]
             /\ buffer' = [buffer EXCEPT ![s] = bytes]
             /\ \/ \E c \in Calls :
                     /\ Decodes(bytes, "request", c)
                     /\ handler' = [handler EXCEPT ![s] = "evaluating"]
                     /\ job' = [job EXCEPT ![s] = c]
                     /\ runs' = [runs EXCEPT ![c] = @ + 1]
                \/ /\ Undecodable(bytes, "request")
                   /\ UNCHANGED <<handler, job, runs>>
    /\ UNCHANGED <<caller, stream, toClient, client>>

(* A chunk of a request arrives.  While a complete request is evaluated    *)
(* the handler reads no more.                                              *)
ReceiveRequest(s) ==
    /\ handler[s] = "reading"
    /\ \E n \in 1..Len(toServer[s]) :
         LET bytes == buffer[s] \o Chunk(toServer[s], n)
         IN  /\ toServer' = [toServer EXCEPT ![s] = Rest(@, n)]
             /\ \/ \E c \in Calls :
                     /\ Decodes(bytes, "request", c)
                     /\ buffer' = [buffer EXCEPT ![s] = <<>>]
                     /\ handler' = [handler EXCEPT ![s] = "evaluating"]
                     /\ job' = [job EXCEPT ![s] = c]
                     /\ runs' = [runs EXCEPT ![c] = @ + 1]
                \/ /\ Undecodable(bytes, "request")
                   /\ buffer' = [buffer EXCEPT ![s] = bytes]
                   /\ UNCHANGED <<handler, job, runs>>
    /\ UNCHANGED <<caller, stream, toClient, client>>

(* A result that MessagePack cannot encode: the importer replies with the  *)
(* error (imported.ts:411-417), the exporter encodes outside its try block *)
(* and its handler fails (exported.ts:100).                                *)
EncodeFailureIsReplied == caller = "exporter"

(* The evaluation has ended and its result or error is written. *)
WriteReply(s) ==
    /\ handler[s] = "evaluating"
    /\ stream[s] = "open"
    /\ toClient' = [toClient EXCEPT ![s] = @ \o Reply(job[s])]
    /\ handler' = [handler EXCEPT ![s] = "reading"]
    /\ job' = [job EXCEPT ![s] = None]
    /\ UNCHANGED <<caller, stream, toServer, buffer, runs, client>>

(* No reply can be written: the handler ends, and does not end its stream. *)
FailHandler(s) ==
    /\ handler[s] = "evaluating"
    /\ stream[s] = "ended" \/ ~EncodeFailureIsReplied
    /\ handler' = [handler EXCEPT ![s] = "failed"]
    /\ job' = [job EXCEPT ![s] = None]
    /\ UNCHANGED <<caller, stream, toServer, toClient, buffer, runs, client>>

(* The handler's reader is done. *)
EndHandler(s) ==
    /\ handler[s] = "reading"
    /\ stream[s] = "ended"
    /\ handler' = [handler EXCEPT ![s] = "ended"]
    /\ buffer' = [buffer EXCEPT ![s] = <<>>]
    /\ UNCHANGED <<caller, stream, toServer, toClient, job, runs, client>>

(* External: the stream is reset, or its session ends.  What is under way  *)
(* may still arrive.                                                       *)
EndStream(s) ==
    /\ stream[s] = "open"
    /\ stream' = [stream EXCEPT ![s] = "ended"]
    /\ UNCHANGED <<caller, toServer, toClient, server, client>>

Next ==
    \/ \E c \in Calls :
         \/ \E s \in Streams : Send(c, s)
         \/ Refuse(c)
         \/ ReceiveReply(c)
         \/ SeeEnd(c)
    \/ \E s \in Streams :
         ReceiveRequest(s) \/ WriteReply(s) \/ FailHandler(s) \/ EndHandler(s) \/ EndStream(s)

Spec == Init /\ [][Next]_vars

(* On an open stream bytes arrive, and operations end; a reader learns of  *)
(* the end of its stream.                                                  *)
Fairness ==
    /\ \A s \in Streams :
         /\ WF_vars(stream[s] = "open" /\ ReceiveRequest(s))
         /\ WF_vars(WriteReply(s) \/ FailHandler(s))
    /\ \A c \in Calls : WF_vars(ReceiveReply(c)) /\ WF_vars(SeeEnd(c))

FairSpec == Spec /\ Fairness

-----------------------------------------------------------------------------

Bytes == [kind : {"request", "reply"}, call : Calls, part : 1..Pieces]

TypeOK ==
    /\ caller \in Sides
    /\ stream \in [Streams -> {"unopened", "open", "ended"}]
    /\ toServer \in [Streams -> Seq(Bytes)]
    /\ toClient \in [Streams -> Seq(Bytes)]
    /\ buffer \in [Streams -> Seq(Bytes)]
    /\ handler \in [Streams -> {"reading", "evaluating", "failed", "ended"}]
    /\ job \in [Streams -> Calls \cup {None}]
    /\ status \in [Calls -> {"idle", "waiting", "answered", "failed", "refused"}]
    /\ using \in [Calls -> Streams \cup {None}]
    /\ got \in [Calls -> Seq(Bytes)]
    /\ answer \in [Calls -> Calls \cup {None}]
    /\ runs \in [Calls -> 0..1]

(* A waiting call has a stream to itself; other calls have none. *)
StreamsExclusive ==
    /\ \A c \in Calls : status[c] = "waiting" <=> using[c] # None
    /\ \A c \in Calls : using[c] # None => stream[using[c]] # "unopened"
    /\ \A c, d \in Calls : using[c] = using[d] /\ using[c] # None => c = d
    /\ \A c \in Calls : using[c] = None => got[c] = <<>>

(* The handler still has to gather the request of c. *)
Pending(s, c) == handler[s] = "reading" /\ buffer[s] \o toServer[s] = Request(c)

(* No part of a request is in the stream or in the handler's buffer. *)
NoRequest(s) == buffer[s] = <<>> /\ toServer[s] = <<>>

(* A handler that reads gathers one request or none, also when its caller  *)
(* has given up; a request is in one place, and has not been evaluated.    *)
RequestsPending ==
    /\ \A s \in Streams :
         /\ handler[s] = "reading" => NoRequest(s) \/ \E c \in Calls : Pending(s, c)
         /\ handler[s] = "evaluating" <=> job[s] # None
         /\ handler[s] = "ended" => stream[s] = "ended"
    /\ \A s \in Streams : \A c \in Calls : Pending(s, c) =>
         /\ runs[c] = 0
         /\ using[c] = s \/ (status[c] = "failed" /\ stream[s] = "ended")
    /\ \A s, t \in Streams : \A c \in Calls : Pending(s, c) /\ Pending(t, c) => s = t
    /\ \A c \in Calls : status[c] \in {"idle", "refused"} => runs[c] = 0

(* What a stream carries back to the call that uses it: nothing until its  *)
(* request has been evaluated, then its reply; or nothing ever, because    *)
(* the reply could not be encoded or the stream ended first.               *)
Replying(c, s) == runs[c] = 1 /\ got[c] \o toClient[s] = Reply(c) /\ got[c] # Reply(c)
NoReply(c, s) == got[c] = <<>> /\ toClient[s] = <<>>

Carries(s, c) ==
    \/ Pending(s, c) /\ NoReply(c, s)
    \/ handler[s] = "evaluating" /\ job[s] = c /\ runs[c] = 1 /\ NoRequest(s) /\ NoReply(c, s)
    \/ handler[s] \in {"reading", "ended"} /\ NoRequest(s) /\ Replying(c, s)
    \/ /\ handler[s] = "failed" /\ NoReply(c, s)
       /\ stream[s] = "ended" \/ ~EncodeFailureIsReplied
    \/ handler[s] = "ended" /\ NoReply(c, s)

UsedStreamsCarryTheirCall ==
    \A c \in Calls : \A s \in Streams : using[c] = s => Carries(s, c)

(* A stream that no call uses, and that the pool may give to the next, is  *)
(* as good as new: no byte of an earlier call is left in it or in its      *)
(* handler's buffer (exported.ts:88), and the handler reads.               *)
FreeStreamsClean ==
    \A s \in Streams : Acquirable(s) =>
        handler[s] = "reading" /\ NoRequest(s) /\ toClient[s] = <<>>

(* The inductive invariant. *)
StreamsSound ==
    /\ TypeOK
    /\ StreamsExclusive
    /\ RequestsPending
    /\ UsedStreamsCarryTheirCall
    /\ FreeStreamsClean

(* A call is answered by the reply to its own request, which was evaluated *)
(* exactly once, though streams are used again, replies come in chunks and *)
(* other streams fail.                                                     *)
AnswersOwnCall ==
    \A c \in Calls : status[c] = "answered" => answer[c] = c /\ runs[c] = 1

(* Calls over pooled streams are remote calls: executed at most once, and  *)
(* only if they were sent.                                                 *)
Remote == INSTANCE RemoteCall
AtMostOnce == Remote!Spec

(* Every call that is sent ends, unless the exporter cannot encode its     *)
(* result: then nobody ever tells the caller.                              *)
LosesReply(c) == \E s \in Streams : using[c] = s /\ handler[s] = "failed" /\ ~EncodeFailureIsReplied
CallsSettle == \A c \in Calls : status[c] = "waiting" ~> (status[c] # "waiting" \/ LosesReply(c))

(* Whatever a waiting call waits for is on its way to it: its stream has   *)
(* ended, a piece of the reply can be read, or the handler at the other    *)
(* end has its request to read or to evaluate (imported.ts:269-280,        *)
(* transport.ts:59-94) -- unless the reply is lost.                        *)
Awaits(c, s) ==
    \/ stream[s] = "ended"
    \/ toClient[s] # <<>>
    \/ handler[s] = "reading" /\ toServer[s] # <<>>
    \/ handler[s] = "evaluating" /\ job[s] = c

CallsCanSettle ==
    \A c \in Calls : status[c] = "waiting" =>
        LosesReply(c) \/ \E s \in Streams : using[c] = s /\ Awaits(c, s)
=============================================================================

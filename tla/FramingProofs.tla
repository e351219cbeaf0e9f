---------------------------- MODULE FramingProofs ---------------------------
(***************************************************************************)
(* Framing for any calls, any streams and any number of pieces: requests   *)
(* and replies do not mix, however streams are used again and chunks fall. *)
(***************************************************************************)
EXTENDS Framing, SequenceTheorems, TLAPS

Kinds == {"request", "reply"}

LEMMA MessageFacts ==
    ASSUME NEW k \in Kinds, NEW c \in Calls
    PROVE  /\ Message(k, c) \in Seq(Bytes)
           /\ Len(Message(k, c)) = Pieces /\ Pieces >= 1
           /\ Message(k, c) # <<>>
           /\ \A d \in Calls : Message(k, d)[1] = Message(k, c)[1] => c = d
<1>1. Message(k, c) \in [1..Pieces -> Bytes]
  BY DEF Message, Bytes, Kinds
<1>2. Message(k, c) \in Seq(Bytes) /\ Len(Message(k, c)) = Pieces /\ Pieces >= 1
  BY <1>1, PiecesAssumption, IsASeq DEF Message
<1>3. \A d \in Calls : Message(k, d)[1].call = d
  BY <1>2, PiecesAssumption DEF Message
<1> QED
  BY <1>2, <1>3, EmptySeq

LEMMA Regroup ==
    \A x, y, z \in Seq(Bytes) : (x \o y) \o z = x \o (y \o z)
<1> SUFFICES ASSUME NEW x \in Seq(Bytes), NEW y \in Seq(Bytes), NEW z \in Seq(Bytes)
             PROVE  (x \o y) \o z = x \o (y \o z)
  OBVIOUS
<1> QED
  BY ConcatAssociative

(* Reading a chunk moves bytes from the stream to the buffer. *)
LEMMA ChunkFacts ==
    ASSUME NEW b \in Seq(Bytes), NEW q \in Seq(Bytes), NEW n \in 1..Len(q)
    PROVE  /\ Rest(q, n) \in Seq(Bytes)
           /\ b \o Chunk(q, n) \in Seq(Bytes)
           /\ (b \o Chunk(q, n)) \o Rest(q, n) = b \o q
           /\ b \o Chunk(q, n) # <<>>
<1>1. Len(q) \in Nat /\ n \in Nat /\ n >= 1 /\ n <= Len(q) /\ \A i \in 1..Len(q) : q[i] \in Bytes
  BY LenProperties, ElementOfSeq
<1>2. Chunk(q, n) \in Seq(Bytes) /\ Len(Chunk(q, n)) = n
  BY <1>1, SubSeqProperties DEF Chunk
<1>3. Rest(q, n) \in Seq(Bytes)
  BY <1>1, SubSeqProperties DEF Rest
<1>4. Chunk(q, n) \o Rest(q, n) = q
  <2>1. 1 \in 1..(Len(q) + 1) /\ n \in (1 - 1)..Len(q) /\ Len(q) \in n..Len(q)
    BY <1>1
  <2>2. SubSeq(q, 1, n) \o SubSeq(q, n + 1, Len(q)) = SubSeq(q, 1, Len(q))
    BY <2>1, ConcatAdjacentSubSeq
  <2> QED
    BY <2>2, SubSeqFull DEF Chunk, Rest
<1>5. (b \o Chunk(q, n)) \o Rest(q, n) = b \o q
  <2>1. (b \o Chunk(q, n)) \o Rest(q, n) = b \o (Chunk(q, n) \o Rest(q, n))
    BY <1>2, <1>3, Regroup
  <2> QED
    BY <1>4, <2>1
<1>6. b \o Chunk(q, n) \in Seq(Bytes) /\ b \o Chunk(q, n) # <<>>
  BY <1>1, <1>2, ConcatProperties, ConcatEqualIffEmpty, EmptySeq
<1> QED
  BY <1>3, <1>5, <1>6

(* A buffer that decodes, with what is to come, is one message and all of it. *)
LEMMA WholeFacts ==
    ASSUME NEW k \in Kinds, NEW c \in Calls, NEW d \in Calls,
           NEW b \in Seq(Bytes), NEW r \in Seq(Bytes),
           b \o r = Message(k, c), b = Message(k, d)
    PROVE  c = d /\ r = <<>>
<1>1. Len(b) = Pieces /\ Len(b) + Len(r) = Pieces /\ Pieces >= 1
  BY MessageFacts, ConcatProperties
<1>2. Len(r) \in Nat /\ Len(b) \in Nat
  BY LenProperties
<1>3. Len(r) = 0
  BY <1>1, <1>2
<1>4. (b \o r)[1] = b[1]
  BY <1>1, <1>2, ConcatProperties
<1> QED
  BY <1>3, <1>4, MessageFacts, EmptySeq

LEMMA InitSound == Init => StreamsSound
<1> SUFFICES ASSUME Init PROVE StreamsSound
  OBVIOUS
<1>1. TypeOK
  <2>1. <<>> \in Seq(Bytes)
    BY EmptySeq
  <2> QED
    BY <2>1 DEF Init, TypeOK
<1>2. \A s \in Streams : \A c \in Calls : ~Pending(s, c)
  <2> SUFFICES ASSUME NEW s \in Streams, NEW c \in Calls, Pending(s, c) PROVE FALSE
    OBVIOUS
  <2>1. <<>> \o <<>> = Request(c)
    BY DEF Init, Pending
  <2>2. <<>> \o <<>> = <<>>
    BY ConcatEmptySeq, EmptySeq
  <2> QED
    BY <2>1, <2>2, MessageFacts DEF Request, Kinds
<1>3. RequestsPending
  BY <1>2 DEF Init, RequestsPending, NoRequest
<1> QED
  BY <1>1, <1>3, NoneAssumption
  DEF Init, StreamsSound, StreamsExclusive, UsedStreamsCarryTheirCall, FreeStreamsClean,
      NoRequest, Acquirable

-----------------------------------------------------------------------------

(* A pending request is one request, and not empty. *)
LEMMA PendingFacts ==
    ASSUME NEW s \in Streams, NEW c \in Calls, Pending(s, c)
    PROVE  /\ ~NoRequest(s)
           /\ \A d \in Calls : Pending(s, d) => c = d
<1>1. <<>> \o <<>> = <<>>
  BY ConcatEmptySeq, EmptySeq
<1> QED
  BY <1>1, MessageFacts DEF Pending, NoRequest, Request, Kinds

(* What an open stream that is being evaluated on belongs to. *)
LEMMA EvaluatingFacts ==
    ASSUME StreamsSound, NEW s \in Streams, handler[s] = "evaluating"
    PROVE  /\ job[s] \in Calls
           /\ \A c \in Calls : using[c] = s =>
                job[s] = c /\ runs[c] = 1 /\ NoRequest(s) /\ NoReply(c, s)
           /\ stream[s] # "ended" => using[job[s]] = s
<1>1. job[s] \in Calls
  BY DEF StreamsSound, RequestsPending, TypeOK
<1>2. ASSUME NEW c \in Calls, using[c] = s
      PROVE  job[s] = c /\ runs[c] = 1 /\ NoRequest(s) /\ NoReply(c, s)
  BY <1>2 DEF StreamsSound, UsedStreamsCarryTheirCall, Carries, Pending
<1>3. stream[s] # "ended" => \E c \in Calls : using[c] = s
  BY DEF StreamsSound, FreeStreamsClean, Acquirable
<1> QED
  BY <1>1, <1>2, <1>3

-----------------------------------------------------------------------------
(* What is said of a stream survives a step on other streams. *)
LEMMA RequestFrame ==
    ASSUME NEW t \in Streams,
           handler'[t] = handler[t], buffer'[t] = buffer[t], toServer'[t] = toServer[t]
    PROVE  /\ NoRequest(t)' <=> NoRequest(t)
           /\ \A d \in Calls : Pending(t, d)' <=> Pending(t, d)
<1>1. NoRequest(t)' <=> NoRequest(t)
  BY DEF NoRequest
<1>2. \A d \in Calls : Pending(t, d)' <=> Pending(t, d)
  BY DEF Pending, Request, Message
<1> QED
  BY <1>1, <1>2

LEMMA NothingPending ==
    ASSUME NEW s \in Streams, NoRequest(s)', NEW d \in Calls, Pending(s, d)'
    PROVE  FALSE
<1>1. Request(d) = <<>> \o <<>>
  BY DEF NoRequest, Pending, Request, Message
<1>2. <<>> \o <<>> = <<>>
  BY ConcatEmptySeq, EmptySeq
<1> QED
  BY <1>1, <1>2, MessageFacts DEF Request, Kinds

LEMMA CarriesFrame ==
    ASSUME NEW t \in Streams, NEW d \in Calls, Carries(t, d),
           handler'[t] = handler[t], buffer'[t] = buffer[t], toServer'[t] = toServer[t],
           job'[t] = job[t], toClient'[t] = toClient[t],
           stream'[t] = "ended" \/ stream'[t] = stream[t],
           runs'[d] = runs[d], got'[d] = got[d], caller' = caller
    PROVE  Carries(t, d)'
<1>1. (NoRequest(t)' <=> NoRequest(t)) /\ (Pending(t, d)' <=> Pending(t, d))
  BY RequestFrame
<1>2. NoReply(d, t)' <=> NoReply(d, t)
  BY DEF NoReply
<1>3. Replying(d, t)' <=> Replying(d, t)
  BY DEF Replying, Reply, Message
<1>4. EncodeFailureIsReplied' <=> EncodeFailureIsReplied
  BY DEF EncodeFailureIsReplied
<1> QED
  BY <1>1, <1>2, <1>3, <1>4 DEF Carries

-----------------------------------------------------------------------------
(* A step of one stream s and at most one call c preserves the invariant   *)
(* if it does at that stream and that call; c is None when no call moves.  *)
LEMMA LocalStep ==
    ASSUME StreamsSound, TypeOK', caller' = caller,
           NEW s \in Streams, NEW c \in Calls \cup {None},
           \A t \in Streams \ {s} :
               /\ handler'[t] = handler[t] /\ buffer'[t] = buffer[t] /\ job'[t] = job[t]
               /\ toServer'[t] = toServer[t] /\ toClient'[t] = toClient[t] /\ stream'[t] = stream[t],
           \A d \in Calls \ {c} :
               status'[d] = status[d] /\ using'[d] = using[d] /\ got'[d] = got[d] /\ runs'[d] = runs[d],
           c \in Calls =>
               /\ using[c] \in {None, s} /\ using'[c] \in {None, s}
               /\ status'[c] = "waiting" <=> using'[c] # None
               /\ using'[c] = None => got'[c] = <<>>
               /\ using'[c] = s => \A d \in Calls \ {c} : using[d] # s
               /\ status'[c] \in {"idle", "refused"} => runs'[c] = 0
               /\ \A t \in Streams \ {s} : ~Pending(t, c),
           stream'[s] = "unopened" => \A d \in Calls : using'[d] # s,
           handler'[s] = "reading" => NoRequest(s)' \/ \E d \in Calls : Pending(s, d)',
           handler'[s] = "evaluating" <=> job'[s] # None,
           handler'[s] = "ended" => stream'[s] = "ended",
           \A d \in Calls : Pending(s, d)' =>
               /\ runs'[d] = 0
               /\ using'[d] = s \/ (status'[d] = "failed" /\ stream'[s] = "ended")
               /\ d = c \/ Pending(s, d),
           \A d \in Calls : using'[d] = s => Carries(s, d)',
           Acquirable(s)' => handler'[s] = "reading" /\ NoRequest(s)' /\ toClient'[s] = <<>>
    PROVE  StreamsSound'
<1>1. \A t \in Streams \ {s} : /\ NoRequest(t)' <=> NoRequest(t)
                              /\ \A d \in Calls : Pending(t, d)' <=> Pending(t, d)
  BY RequestFrame
<1>2. \A t \in Streams \ {s} : \A d \in Calls : using'[d] = t <=> using[d] = t
  BY NoneAssumption
<1>3. StreamsExclusive'
  <2>1. \A d \in Calls : status'[d] = "waiting" <=> using'[d] # None
    BY DEF StreamsSound, StreamsExclusive
  <2>2. \A d \in Calls : using'[d] # None => stream'[using'[d]] # "unopened"
    <3> SUFFICES ASSUME NEW d \in Calls, NEW t \in Streams, using'[d] = t
                 PROVE  stream'[t] # "unopened"
      BY DEF TypeOK
    <3>1. CASE t = s
      BY <3>1
    <3>2. CASE t # s
      BY <1>2, <3>2, NoneAssumption DEF StreamsSound, StreamsExclusive
    <3> QED
      BY <3>1, <3>2
  <2>3. ASSUME NEW d \in Calls, NEW e \in Calls, using'[d] = using'[e], using'[d] # None
        PROVE  d = e
    <3>1. PICK t \in Streams : using'[d] = t /\ using'[e] = t /\ t # None
      BY <2>3, NoneAssumption DEF TypeOK
    <3>2. using[d] = t /\ using[e] = t => d = e
      BY <3>1 DEF StreamsSound, StreamsExclusive
    <3>3. CASE t = s
      BY <3>1, <3>2, <3>3
    <3>4. CASE t # s
      BY <1>2, <3>1, <3>2, <3>4
    <3> QED
      BY <3>3, <3>4
  <2>4. \A d \in Calls : using'[d] = None => got'[d] = <<>>
    BY DEF StreamsSound, StreamsExclusive
  <2> QED
    BY <2>1, <2>2, <2>3, <2>4 DEF StreamsExclusive
<1>4. RequestsPending'
  <2>1. ASSUME NEW t \in Streams
        PROVE  /\ handler'[t] = "reading" => NoRequest(t)' \/ \E d \in Calls : Pending(t, d)'
               /\ handler'[t] = "evaluating" <=> job'[t] # None
               /\ handler'[t] = "ended" => stream'[t] = "ended"
    BY <1>1 DEF StreamsSound, RequestsPending
  <2>2. ASSUME NEW t \in Streams, NEW d \in Calls, Pending(t, d)'
        PROVE  runs'[d] = 0 /\ (using'[d] = t \/ (status'[d] = "failed" /\ stream'[t] = "ended"))
    <3>1. CASE t = s
      BY <2>2, <3>1
    <3>2. CASE t # s
      <4>1. Pending(t, d) /\ d # c
        BY <1>1, <2>2, <3>2
      <4> QED
        BY <3>2, <4>1 DEF StreamsSound, RequestsPending
    <3> QED
      BY <3>1, <3>2
  <2>3. ASSUME NEW t \in Streams, NEW u \in Streams, NEW d \in Calls, Pending(t, d)', Pending(u, d)'
        PROVE  t = u
    <3>1. \A r \in Streams \ {s} : Pending(r, d)' => Pending(r, d) /\ d # c
      BY <1>1
    <3>2. Pending(s, d)' => d = c \/ Pending(s, d)
      OBVIOUS
    <3>3. Pending(t, d) /\ Pending(u, d) => t = u
      BY DEF StreamsSound, RequestsPending
    <3> QED
      BY <2>3, <3>1, <3>2, <3>3
  <2>4. \A d \in Calls : status'[d] \in {"idle", "refused"} => runs'[d] = 0
    BY DEF StreamsSound, RequestsPending
  <2> QED
    BY <2>1, <2>2, <2>3, <2>4 DEF RequestsPending
<1>5. UsedStreamsCarryTheirCall'
  <2> SUFFICES ASSUME NEW d \in Calls, NEW t \in Streams, using'[d] = t PROVE Carries(t, d)'
    BY DEF UsedStreamsCarryTheirCall
  <2>1. CASE t = s
    BY <2>1
  <2>2. CASE t # s
    <3>1. using[d] = t /\ d # c
      BY <1>2, <2>2, NoneAssumption
    <3>2. Carries(t, d)
      BY <3>1 DEF StreamsSound, UsedStreamsCarryTheirCall
    <3> QED
      BY <2>2, <3>1, <3>2, CarriesFrame
  <2> QED
    BY <2>1, <2>2
<1>6. FreeStreamsClean'
  <2> SUFFICES ASSUME NEW t \in Streams, Acquirable(t)'
               PROVE  handler'[t] = "reading" /\ NoRequest(t)' /\ toClient'[t] = <<>>
    BY DEF FreeStreamsClean
  <2>1. CASE t = s
    BY <2>1
  <2>2. CASE t # s
    <3>1. Acquirable(t)
      BY <1>2, <2>2 DEF Acquirable
    <3> QED
      BY <1>1, <2>2, <3>1 DEF StreamsSound, FreeStreamsClean
  <2> QED
    BY <2>1, <2>2
<1> QED
  BY <1>3, <1>4, <1>5, <1>6 DEF StreamsSound

LEMMA StreamStep ==
    ASSUME StreamsSound, TypeOK', UNCHANGED <<caller, status, using, got, runs>>,
           NEW s \in Streams,
           \A t \in Streams \ {s} :
               /\ handler'[t] = handler[t] /\ buffer'[t] = buffer[t] /\ job'[t] = job[t]
               /\ toServer'[t] = toServer[t] /\ toClient'[t] = toClient[t] /\ stream'[t] = stream[t],
           stream'[s] = "unopened" => stream[s] = "unopened",
           handler'[s] = "reading" => NoRequest(s)' \/ \E d \in Calls : Pending(s, d)',
           handler'[s] = "evaluating" <=> job'[s] # None,
           handler'[s] = "ended" => stream'[s] = "ended",
           stream[s] = "ended" => stream'[s] = "ended",
           \A d \in Calls : Pending(s, d)' => Pending(s, d),
           \A d \in Calls : using[d] = s => Carries(s, d)',
           Acquirable(s)' => handler'[s] = "reading" /\ NoRequest(s)' /\ toClient'[s] = <<>>
    PROVE  StreamsSound'
<1>1. \A d \in Calls : using[d] = s => stream[s] # "unopened"
  BY NoneAssumption DEF StreamsSound, StreamsExclusive
<1>2. \A d \in Calls : Pending(s, d)' =>
        /\ runs'[d] = 0 /\ Pending(s, d)
        /\ using'[d] = s \/ (status'[d] = "failed" /\ stream'[s] = "ended")
  BY DEF StreamsSound, RequestsPending
<1>3. None \in Calls \cup {None} /\ None \notin Calls
  BY NoneAssumption
<1> HIDE DEF StreamsSound
<1>4. caller' = caller
  OBVIOUS
<1>5. \A d \in Calls \ {None} :
        status'[d] = status[d] /\ using'[d] = using[d] /\ got'[d] = got[d] /\ runs'[d] = runs[d]
  OBVIOUS
<1>6. \A d \in Calls : using'[d] = s => Carries(s, d)'
  OBVIOUS
<1>7. stream'[s] = "unopened" => \A d \in Calls : using'[d] # s
  BY <1>1
<1>8. \A d \in Calls : Pending(s, d)' =>
        /\ runs'[d] = 0
        /\ using'[d] = s \/ (status'[d] = "failed" /\ stream'[s] = "ended")
        /\ d = None \/ Pending(s, d)
  BY <1>2
<1> QED
  BY <1>3, <1>4, <1>5, <1>6, <1>7, <1>8, LocalStep

-----------------------------------------------------------------------------
(* The calling side. *)

LEMMA SendSound ==
    ASSUME StreamsSound, NEW c \in Calls, NEW s \in Streams, Send(c, s)
    PROVE  StreamsSound'
<1>1. /\ status[c] = "idle" /\ using[c] = None /\ got[c] = <<>> /\ runs[c] = 0
      /\ handler[s] = "reading" /\ NoRequest(s) /\ toClient[s] = <<>> /\ stream[s] # "ended"
      /\ \A d \in Calls : using[d] # s
      /\ s # None
  BY NoneAssumption
  DEF Send, Acquirable, StreamsSound, StreamsExclusive, FreeStreamsClean, RequestsPending, TypeOK
<1>2. Request(c) \in Seq(Bytes) /\ <<>> \o Request(c) = Request(c)
  BY MessageFacts, ConcatEmptySeq DEF Request, Kinds
<1>3. /\ toServer' = [toServer EXCEPT ![s] = Request(c)]
      /\ stream' = [stream EXCEPT ![s] = "open"]
      /\ status' = [status EXCEPT ![c] = "waiting"]
      /\ using' = [using EXCEPT ![c] = s]
      /\ UNCHANGED <<caller, toClient, buffer, handler, job, runs, got, answer>>
  BY <1>1, <1>2 DEF Send, server, NoRequest, TypeOK, StreamsSound
<1>4. TypeOK'
  BY <1>2, <1>3 DEF StreamsSound, TypeOK
<1>5. \A d \in Calls : Pending(s, d)' => d = c
  <2> SUFFICES ASSUME NEW d \in Calls, Pending(s, d)' PROVE d = c
    OBVIOUS
  <2>1. buffer'[s] = <<>> /\ toServer'[s] = Request(c)
    BY <1>1, <1>3 DEF NoRequest, StreamsSound, TypeOK
  <2>2. Request(d) = Request(c)
    BY <1>2, <2>1 DEF Pending, Request, Message
  <2> QED
    BY <2>2, MessageFacts DEF Request, Kinds
<1>6. Pending(s, c)' /\ NoReply(c, s)'
  <2>1. buffer'[s] = <<>> /\ toServer'[s] = Request(c) /\ handler'[s] = "reading"
    BY <1>1, <1>3 DEF NoRequest, StreamsSound, TypeOK
  <2> QED
    BY <1>1, <1>2, <1>3, <2>1 DEF Pending, NoReply, Request, Message
<1>7. \A t \in Streams : ~Pending(t, c)
  BY <1>1, NoneAssumption DEF StreamsSound, RequestsPending
<1>8. Carries(s, c)'
  BY <1>6 DEF Carries
<1>9. /\ handler'[s] = "reading" /\ job'[s] = None /\ stream'[s] = "open"
      /\ using'[c] = s /\ runs'[c] = 0 /\ status'[c] = "waiting"
      /\ \A d \in Calls \ {c} : using'[d] = using[d]
  BY <1>1, <1>3 DEF StreamsSound, RequestsPending, TypeOK
<1>10. ~Acquirable(s)'
  BY <1>9 DEF Acquirable
<1>11. \A t \in Streams \ {s} :
         /\ handler'[t] = handler[t] /\ buffer'[t] = buffer[t] /\ job'[t] = job[t]
         /\ toServer'[t] = toServer[t] /\ toClient'[t] = toClient[t] /\ stream'[t] = stream[t]
  BY <1>3 DEF StreamsSound, TypeOK
<1>12. \A d \in Calls \ {c} :
         status'[d] = status[d] /\ using'[d] = using[d] /\ got'[d] = got[d] /\ runs'[d] = runs[d]
  BY <1>3 DEF StreamsSound, TypeOK
<1>13. \A d \in Calls : using'[d] = s => Carries(s, d)'
  BY <1>1, <1>8, <1>9
<1>14. \A d \in Calls : Pending(s, d)' =>
         /\ runs'[d] = 0
         /\ using'[d] = s \/ (status'[d] = "failed" /\ stream'[s] = "ended")
         /\ d = c \/ Pending(s, d)
  BY <1>5, <1>9
<1> QED
  BY <1>1, <1>3, <1>4, <1>6, <1>7, <1>9, <1>10, <1>11, <1>12, <1>13, <1>14, LocalStep

LEMMA RefuseSound ==
    ASSUME StreamsSound, NEW c \in Calls, Refuse(c)
    PROVE  StreamsSound'
<1>1. /\ status[c] = "idle" /\ status' = [status EXCEPT ![c] = "refused"]
      /\ UNCHANGED <<caller, stream, toServer, toClient, buffer, handler, job, runs,
                     using, got, answer>>
  BY DEF Refuse, server
<1>2. TypeOK' /\ StreamsExclusive'
  BY <1>1 DEF StreamsSound, TypeOK, StreamsExclusive
<1>3. /\ \A s \in Streams : NoRequest(s)' <=> NoRequest(s)
      /\ \A s \in Streams : \A d \in Calls : Pending(s, d)' <=> Pending(s, d)
  BY <1>1, RequestFrame
<1>4. RequestsPending'
  BY <1>1, <1>3 DEF StreamsSound, TypeOK, RequestsPending
<1>5. UsedStreamsCarryTheirCall'
  BY <1>1, CarriesFrame DEF StreamsSound, UsedStreamsCarryTheirCall
<1>6. FreeStreamsClean'
  BY <1>1, <1>3 DEF StreamsSound, FreeStreamsClean, Acquirable
<1> QED
  BY <1>2, <1>4, <1>5, <1>6 DEF StreamsSound

(* A call that waits is nowhere but on its stream. *)
LEMMA WaitingFacts ==
    ASSUME StreamsSound, NEW c \in Calls, status[c] = "waiting"
    PROVE  /\ using[c] \in Streams /\ using[c] # None
           /\ \A d \in Calls : using[d] = using[c] => d = c
           /\ \A t \in Streams \ {using[c]} : ~Pending(t, c)
<1>1. using[c] \in Streams /\ using[c] # None
  BY NoneAssumption DEF StreamsSound, StreamsExclusive, TypeOK
<1>2. \A d \in Calls : using[d] = using[c] => d = c
  BY <1>1 DEF StreamsSound, StreamsExclusive
<1>3. \A t \in Streams \ {using[c]} : ~Pending(t, c)
  BY DEF StreamsSound, RequestsPending
<1> QED
  BY <1>1, <1>2, <1>3

LEMMA SeeEndSound ==
    ASSUME StreamsSound, NEW c \in Calls, SeeEnd(c)
    PROVE  StreamsSound'
<1>1. PICK s \in Streams :
        /\ using[c] = s /\ s # None /\ stream[s] = "ended"
        /\ \A d \in Calls : using[d] = s => d = c
        /\ \A t \in Streams \ {s} : ~Pending(t, c)
  BY WaitingFacts DEF SeeEnd
<1>2. /\ status' = [status EXCEPT ![c] = "failed"]
      /\ using' = [using EXCEPT ![c] = None] /\ got' = [got EXCEPT ![c] = <<>>]
      /\ UNCHANGED <<caller, stream, toServer, toClient, buffer, handler, job, runs, answer>>
  BY DEF SeeEnd, server
<1>3. TypeOK'
  BY <1>2, EmptySeq DEF StreamsSound, TypeOK
<1>4. /\ status'[c] = "failed" /\ using'[c] = None /\ got'[c] = <<>>
      /\ \A d \in Calls \ {c} : status'[d] = status[d] /\ using'[d] = using[d] /\ got'[d] = got[d]
  BY <1>2 DEF StreamsSound, TypeOK
<1>5. /\ NoRequest(s)' <=> NoRequest(s)
      /\ \A d \in Calls : Pending(s, d)' <=> Pending(s, d)
  BY <1>1, <1>2, RequestFrame
<1>6. \A d \in Calls : using'[d] # s
  BY <1>1, <1>4
<1>7. \A d \in Calls : Pending(s, d)' =>
        /\ runs'[d] = 0 /\ Pending(s, d)
        /\ using'[d] = s \/ (status'[d] = "failed" /\ stream'[s] = "ended")
  BY <1>1, <1>2, <1>4, <1>5 DEF StreamsSound, RequestsPending
<1>8. ~Acquirable(s)'
  BY <1>1, <1>2 DEF Acquirable
<1>9. /\ handler'[s] = "reading" => NoRequest(s)' \/ \E d \in Calls : Pending(s, d)'
      /\ handler'[s] = "evaluating" <=> job'[s] # None
      /\ handler'[s] = "ended" => stream'[s] = "ended"
  BY <1>1, <1>2, <1>5 DEF StreamsSound, RequestsPending
<1> QED
  BY <1>1, <1>2, <1>3, <1>4, <1>6, <1>7, <1>8, <1>9, LocalStep

(* What the caller takes out of its stream is its own reply: it is complete *)
(* and the stream empty, or more is to come.                               *)
LEMMA ReplyTaken ==
    ASSUME StreamsSound, NEW c \in Calls, ReceiveReply(c)
    PROVE  /\ Carries(using[c], c) /\ ~NoReply(c, using[c])
           /\ \/ /\ toClient' = [toClient EXCEPT ![using[c]] = <<>>]
                 /\ status' = [status EXCEPT ![c] = "answered"]
                 /\ answer' = [answer EXCEPT ![c] = c]
                 /\ using' = [using EXCEPT ![c] = None]
                 /\ got' = [got EXCEPT ![c] = <<>>]
              \/ \E b, q \in Seq(Bytes) :
                   /\ b \o q = Reply(c) /\ b # Reply(c)
                   /\ toClient' = [toClient EXCEPT ![using[c]] = q]
                   /\ got' = [got EXCEPT ![c] = b]
                   /\ UNCHANGED <<status, answer, using>>
<1> DEFINE s == using[c]
           bytes(n) == got[c] \o Chunk(toClient[s], n)
<1>1. PICK n \in 1..Len(toClient[s]) :
        /\ toClient' = [toClient EXCEPT ![s] = Rest(toClient[s], n)]
        /\ \/ \E d \in Calls :
                /\ bytes(n) = Reply(d)
                /\ status' = [status EXCEPT ![c] = "answered"]
                /\ answer' = [answer EXCEPT ![c] = d]
                /\ using' = [using EXCEPT ![c] = None]
                /\ got' = [got EXCEPT ![c] = <<>>]
           \/ /\ \A d \in Calls : bytes(n) # Reply(d)
              /\ got' = [got EXCEPT ![c] = bytes(n)]
              /\ UNCHANGED <<status, answer, using>>
  BY DEF ReceiveReply, Decodes, Undecodable, Reply
<1>2. s \in Streams /\ got[c] \in Seq(Bytes) /\ toClient[s] \in Seq(Bytes)
  BY WaitingFacts DEF StreamsSound, TypeOK, ReceiveReply
<1>3. ~NoReply(c, s)
  BY <1>2, EmptySeq DEF NoReply
<1>4. Carries(s, c)
  BY <1>2 DEF StreamsSound, UsedStreamsCarryTheirCall
<1>5. got[c] \o toClient[s] = Reply(c)
  BY <1>3, <1>4 DEF Carries, Replying
<1>6. /\ Rest(toClient[s], n) \in Seq(Bytes) /\ bytes(n) \in Seq(Bytes)
      /\ bytes(n) \o Rest(toClient[s], n) = Reply(c)
  BY <1>2, <1>5, ChunkFacts
<1>7. ASSUME NEW d \in Calls, bytes(n) = Reply(d)
      PROVE  d = c /\ Rest(toClient[s], n) = <<>>
  BY <1>6, <1>7, WholeFacts DEF Reply, Kinds
<1> HIDE DEF bytes
<1>8. CASE \E d \in Calls :
             /\ bytes(n) = Reply(d)
             /\ status' = [status EXCEPT ![c] = "answered"]
             /\ answer' = [answer EXCEPT ![c] = d]
             /\ using' = [using EXCEPT ![c] = None]
             /\ got' = [got EXCEPT ![c] = <<>>]
  BY <1>1, <1>3, <1>4, <1>7, <1>8
<1>9. CASE /\ \A d \in Calls : bytes(n) # Reply(d)
           /\ got' = [got EXCEPT ![c] = bytes(n)]
           /\ UNCHANGED <<status, answer, using>>
  BY <1>1, <1>3, <1>4, <1>6, <1>9
<1> QED
  BY <1>1, <1>8, <1>9

LEMMA ReceiveReplySound ==
    ASSUME StreamsSound, NEW c \in Calls, ReceiveReply(c)
    PROVE  StreamsSound'
<1>1. PICK s \in Streams :
        /\ using[c] = s /\ s # None
        /\ \A d \in Calls : using[d] = s => d = c
        /\ \A t \in Streams \ {s} : ~Pending(t, c)
  BY WaitingFacts DEF ReceiveReply
<1>2. UNCHANGED <<caller, stream, toServer, buffer, handler, job, runs>> /\ status[c] = "waiting"
  BY DEF ReceiveReply, server
<1>3. handler[s] \in {"reading", "ended"} /\ NoRequest(s) /\ runs[c] = 1
  BY <1>1, ReplyTaken DEF Carries, Replying
<1>4. NoRequest(s)'
  BY <1>2, <1>3 DEF NoRequest
<1>5. \A d \in Calls : ~Pending(s, d)'
  BY <1>4, NothingPending
<1>6. /\ handler'[s] \in {"reading", "ended"} /\ job'[s] = None
      /\ handler'[s] = "ended" => stream'[s] = "ended"
      /\ stream[s] # "unopened" /\ stream' = stream
  BY <1>1, <1>2, <1>3 DEF StreamsSound, RequestsPending, StreamsExclusive
<1>7. CASE /\ toClient' = [toClient EXCEPT ![s] = <<>>]
           /\ status' = [status EXCEPT ![c] = "answered"]
           /\ answer' = [answer EXCEPT ![c] = c]
           /\ using' = [using EXCEPT ![c] = None]
           /\ got' = [got EXCEPT ![c] = <<>>]
  <2>1. TypeOK'
    BY <1>2, <1>7, EmptySeq DEF StreamsSound, TypeOK
  <2>2. /\ toClient'[s] = <<>> /\ status'[c] = "answered" /\ using'[c] = None /\ got'[c] = <<>>
        /\ \A t \in Streams \ {s} : toClient'[t] = toClient[t]
        /\ \A d \in Calls \ {c} :
             status'[d] = status[d] /\ using'[d] = using[d] /\ got'[d] = got[d]
    BY <1>7 DEF StreamsSound, TypeOK
  <2>3. \A d \in Calls : using'[d] # s
    BY <1>1, <2>2
  <2>4. Acquirable(s)' => handler'[s] = "reading"
    BY <1>6 DEF Acquirable
  <2> QED
    BY <1>1, <1>2, <1>4, <1>5, <1>6, <2>1, <2>2, <2>3, <2>4, LocalStep
<1>8. CASE \E b, q \in Seq(Bytes) :
             /\ b \o q = Reply(c) /\ b # Reply(c)
             /\ toClient' = [toClient EXCEPT ![s] = q]
             /\ got' = [got EXCEPT ![c] = b]
             /\ UNCHANGED <<status, answer, using>>
  <2>1. PICK b, q \in Seq(Bytes) :
          /\ b \o q = Reply(c) /\ b # Reply(c)
          /\ toClient' = [toClient EXCEPT ![s] = q]
          /\ got' = [got EXCEPT ![c] = b]
          /\ UNCHANGED <<status, answer, using>>
    BY <1>8
  <2>2. TypeOK'
    BY <1>2, <2>1 DEF StreamsSound, TypeOK
  <2>3. /\ toClient'[s] = q /\ got'[c] = b
        /\ \A t \in Streams \ {s} : toClient'[t] = toClient[t]
        /\ \A d \in Calls \ {c} : got'[d] = got[d]
    BY <2>1 DEF StreamsSound, TypeOK
  <2>4. Replying(c, s)'
    BY <1>2, <1>3, <2>1, <2>3 DEF Replying, Reply, Message
  <2>5. Carries(s, c)'
    BY <1>4, <1>6, <2>4 DEF Carries
  <2>6. \A d \in Calls : using'[d] = s => Carries(s, d)'
    BY <1>1, <2>1, <2>5
  <2>7. ~Acquirable(s)'
    BY <1>1, <2>1 DEF Acquirable
  <2> QED
    BY <1>1, <1>2, <1>4, <1>5, <1>6, <2>1, <2>2, <2>3, <2>6, <2>7, LocalStep
<1> QED
  BY <1>1, <1>7, <1>8, ReplyTaken

-----------------------------------------------------------------------------
(* The serving side. *)

(* What the handler takes out of its stream is one request: it is complete *)
(* and the stream empty, or it stays pending.                              *)
LEMMA RequestTaken ==
    ASSUME StreamsSound, NEW s \in Streams, ReceiveRequest(s)
    PROVE  \E c \in Calls :
             /\ Pending(s, c) /\ runs[c] = 0
             /\ \/ /\ buffer' = [buffer EXCEPT ![s] = <<>>]
                   /\ toServer' = [toServer EXCEPT ![s] = <<>>]
                   /\ handler' = [handler EXCEPT ![s] = "evaluating"]
                   /\ job' = [job EXCEPT ![s] = c]
                   /\ runs' = [runs EXCEPT ![c] = 1]
                \/ \E b, q \in Seq(Bytes) :
                     /\ b \o q = Request(c) /\ b # <<>>
                     /\ buffer' = [buffer EXCEPT ![s] = b]
                     /\ toServer' = [toServer EXCEPT ![s] = q]
                     /\ UNCHANGED <<handler, job, runs>>
<1> DEFINE bytes(n) == buffer[s] \o Chunk(toServer[s], n)
<1>1. PICK n \in 1..Len(toServer[s]) :
        /\ toServer' = [toServer EXCEPT ![s] = Rest(toServer[s], n)]
        /\ \/ \E d \in Calls :
                /\ bytes(n) = Request(d)
                /\ buffer' = [buffer EXCEPT ![s] = <<>>]
                /\ handler' = [handler EXCEPT ![s] = "evaluating"]
                /\ job' = [job EXCEPT ![s] = d]
                /\ runs' = [runs EXCEPT ![d] = runs[d] + 1]
           \/ /\ buffer' = [buffer EXCEPT ![s] = bytes(n)]
              /\ UNCHANGED <<handler, job, runs>>
  BY DEF ReceiveRequest, Decodes, Undecodable, Request
<1>2. buffer[s] \in Seq(Bytes) /\ toServer[s] \in Seq(Bytes) /\ handler[s] = "reading"
  BY DEF StreamsSound, TypeOK, ReceiveRequest
<1>3. ~NoRequest(s)
  BY <1>2, EmptySeq DEF NoRequest
<1>4. PICK c \in Calls : Pending(s, c) /\ runs[c] = 0
  BY <1>2, <1>3 DEF StreamsSound, RequestsPending
<1>5. /\ Rest(toServer[s], n) \in Seq(Bytes) /\ bytes(n) \in Seq(Bytes)
      /\ bytes(n) \o Rest(toServer[s], n) = Request(c) /\ bytes(n) # <<>>
  BY <1>2, <1>4, ChunkFacts DEF Pending
<1>6. ASSUME NEW d \in Calls, bytes(n) = Request(d)
      PROVE  d = c /\ Rest(toServer[s], n) = <<>>
  BY <1>5, <1>6, WholeFacts DEF Request, Kinds
<1> HIDE DEF bytes
<1>7. CASE \E d \in Calls :
             /\ bytes(n) = Request(d)
             /\ buffer' = [buffer EXCEPT ![s] = <<>>]
             /\ handler' = [handler EXCEPT ![s] = "evaluating"]
             /\ job' = [job EXCEPT ![s] = d]
             /\ runs' = [runs EXCEPT ![d] = runs[d] + 1]
  <2>1. PICK d \in Calls :
          /\ bytes(n) = Request(d)
          /\ buffer' = [buffer EXCEPT ![s] = <<>>]
          /\ handler' = [handler EXCEPT ![s] = "evaluating"]
          /\ job' = [job EXCEPT ![s] = d]
          /\ runs' = [runs EXCEPT ![d] = runs[d] + 1]
    BY <1>7
  <2>2. d = c /\ Rest(toServer[s], n) = <<>>
    BY <1>6, <2>1
  <2>3. runs[d] + 1 = 1
    BY <1>4, <2>2
  <2> QED
    BY <1>1, <1>4, <2>1, <2>2, <2>3
<1>8. CASE buffer' = [buffer EXCEPT ![s] = bytes(n)] /\ UNCHANGED <<handler, job, runs>>
  BY <1>1, <1>4, <1>5, <1>8
<1> QED
  BY <1>1, <1>7, <1>8

LEMMA ReceiveRequestSound ==
    ASSUME StreamsSound, NEW s \in Streams, ReceiveRequest(s)
    PROVE  StreamsSound'
<1>1. PICK c \in Calls :
        /\ Pending(s, c) /\ runs[c] = 0
        /\ \/ /\ buffer' = [buffer EXCEPT ![s] = <<>>]
              /\ toServer' = [toServer EXCEPT ![s] = <<>>]
              /\ handler' = [handler EXCEPT ![s] = "evaluating"]
              /\ job' = [job EXCEPT ![s] = c]
              /\ runs' = [runs EXCEPT ![c] = 1]
           \/ \E b, q \in Seq(Bytes) :
                /\ b \o q = Request(c) /\ b # <<>>
                /\ buffer' = [buffer EXCEPT ![s] = b]
                /\ toServer' = [toServer EXCEPT ![s] = q]
                /\ UNCHANGED <<handler, job, runs>>
  BY RequestTaken
<1>2. handler[s] = "reading" /\ UNCHANGED <<caller, stream, toClient, status, using, got, answer>>
  BY DEF ReceiveRequest, client
<1>3. /\ ~NoRequest(s)
      /\ \A d \in Calls : Pending(s, d) => d = c
  BY <1>1, PendingFacts
<1>4. \A d \in Calls : using[d] = s => d = c /\ NoReply(c, s)
  BY <1>2, <1>3 DEF StreamsSound, UsedStreamsCarryTheirCall, Carries
<1>5. ~Acquirable(s)'
  BY <1>2, <1>3 DEF StreamsSound, FreeStreamsClean, Acquirable
<1>6. /\ using[c] = s \/ (status[c] = "failed" /\ stream[s] = "ended")
      /\ using[c] \in {None, s}
      /\ \A t \in Streams \ {s} : ~Pending(t, c)
      /\ status[c] = "waiting" <=> using[c] # None
      /\ using[c] = None => got[c] = <<>>
      /\ status[c] \notin {"idle", "refused"}
  BY <1>1, NoneAssumption DEF StreamsSound, RequestsPending, StreamsExclusive
<1>7. \A d \in Calls : using[d] = s => stream[s] # "unopened"
  BY NoneAssumption DEF StreamsSound, StreamsExclusive
<1>8. NoReply(c, s)' <=> NoReply(c, s)
  BY <1>2 DEF NoReply
<1>9. CASE /\ buffer' = [buffer EXCEPT ![s] = <<>>]
           /\ toServer' = [toServer EXCEPT ![s] = <<>>]
           /\ handler' = [handler EXCEPT ![s] = "evaluating"]
           /\ job' = [job EXCEPT ![s] = c]
           /\ runs' = [runs EXCEPT ![c] = 1]
  <2>1. TypeOK'
    BY <1>2, <1>9, EmptySeq DEF StreamsSound, TypeOK
  <2>2. /\ handler'[s] = "evaluating" /\ job'[s] = c /\ runs'[c] = 1
        /\ buffer'[s] = <<>> /\ toServer'[s] = <<>>
        /\ \A d \in Calls \ {c} : runs'[d] = runs[d]
    BY <1>9 DEF StreamsSound, TypeOK
  <2>3. \A t \in Streams \ {s} :
          /\ handler'[t] = handler[t] /\ buffer'[t] = buffer[t] /\ job'[t] = job[t]
          /\ toServer'[t] = toServer[t]
    BY <1>9 DEF StreamsSound, TypeOK
  <2>4. \A d \in Calls : ~Pending(s, d)'
    BY <2>2 DEF Pending
  <2>5. \A d \in Calls : using'[d] = s => Carries(s, d)'
    BY <1>2, <1>4, <1>8, <2>2 DEF Carries, NoRequest
  <2> QED
    BY <1>2, <1>4, <1>5, <1>6, <1>7, <2>1, <2>2, <2>3, <2>4, <2>5, NoneAssumption, LocalStep
<1>10. CASE \E b, q \in Seq(Bytes) :
              /\ b \o q = Request(c) /\ b # <<>>
              /\ buffer' = [buffer EXCEPT ![s] = b]
              /\ toServer' = [toServer EXCEPT ![s] = q]
              /\ UNCHANGED <<handler, job, runs>>
  <2>1. PICK b, q \in Seq(Bytes) :
          /\ b \o q = Request(c) /\ b # <<>>
          /\ buffer' = [buffer EXCEPT ![s] = b]
          /\ toServer' = [toServer EXCEPT ![s] = q]
          /\ UNCHANGED <<handler, job, runs>>
    BY <1>10
  <2>2. TypeOK'
    BY <1>2, <2>1 DEF StreamsSound, TypeOK
  <2>3. buffer'[s] = b /\ toServer'[s] = q
    BY <2>1 DEF StreamsSound, TypeOK
  <2>4. \A t \in Streams \ {s} : buffer'[t] = buffer[t] /\ toServer'[t] = toServer[t]
    BY <2>1 DEF StreamsSound, TypeOK
  <2>5. Pending(s, c)'
    BY <1>2, <2>1, <2>3 DEF Pending, Request, Message
  <2>6. \A d \in Calls : Pending(s, d)' => d = c
    <3> SUFFICES ASSUME NEW d \in Calls, Pending(s, d)' PROVE d = c
      OBVIOUS
    <3>1. Request(d) = Request(c)
      BY <2>1, <2>3 DEF Pending, Request, Message
    <3> QED
      BY <3>1, MessageFacts DEF Request, Kinds
  <2>7. \A d \in Calls : using'[d] = s => Carries(s, d)'
    BY <1>2, <1>4, <1>8, <2>5 DEF Carries
  <2>8. job'[s] = None /\ handler'[s] = "reading"
    BY <1>2, <2>1 DEF StreamsSound, RequestsPending, TypeOK
  <2> QED
    BY <1>1, <1>2, <1>5, <2>1, <2>2, <2>4, <2>5, <2>6, <2>7, <2>8, StreamStep
<1> QED
  BY <1>1, <1>9, <1>10

LEMMA WriteReplySound ==
    ASSUME StreamsSound, NEW s \in Streams, WriteReply(s)
    PROVE  StreamsSound'
<1>1. PICK c \in Calls :
        /\ job[s] = c /\ using[c] = s /\ runs[c] = 1 /\ NoRequest(s) /\ NoReply(c, s)
        /\ \A d \in Calls : using[d] = s => d = c
  BY EvaluatingFacts DEF WriteReply
<1>2. Reply(c) \in Seq(Bytes) /\ <<>> \o Reply(c) = Reply(c) /\ <<>> # Reply(c)
  BY MessageFacts, ConcatEmptySeq DEF Reply, Kinds
<1>3. /\ handler[s] = "evaluating" /\ stream[s] = "open"
      /\ toClient' = [toClient EXCEPT ![s] = Reply(c)]
      /\ handler' = [handler EXCEPT ![s] = "reading"]
      /\ job' = [job EXCEPT ![s] = None]
      /\ UNCHANGED <<caller, stream, toServer, buffer, runs, status, using, got, answer>>
  BY <1>1, <1>2 DEF WriteReply, client, NoReply
<1>4. TypeOK'
  BY <1>2, <1>3 DEF StreamsSound, TypeOK
<1>5. toClient'[s] = Reply(c) /\ handler'[s] = "reading" /\ job'[s] = None
  BY <1>3 DEF StreamsSound, TypeOK
<1>6. \A t \in Streams \ {s} :
        handler'[t] = handler[t] /\ job'[t] = job[t] /\ toClient'[t] = toClient[t]
  BY <1>3 DEF StreamsSound, TypeOK
<1>7. NoRequest(s)'
  BY <1>1, <1>3 DEF NoRequest
<1>8. Replying(c, s)'
  BY <1>1, <1>2, <1>3, <1>5 DEF NoReply, Replying, Reply, Message
<1>9. Carries(s, c)'
  BY <1>5, <1>7, <1>8 DEF Carries
<1>10. \A d \in Calls : ~Pending(s, d)'
  BY <1>7, NothingPending
<1>11. ~Acquirable(s)'
  BY <1>1, <1>3 DEF Acquirable
<1> QED
  BY <1>1, <1>3, <1>4, <1>5, <1>6, <1>7, <1>9, <1>10, <1>11, StreamStep

LEMMA FailHandlerSound ==
    ASSUME StreamsSound, NEW s \in Streams, FailHandler(s)
    PROVE  StreamsSound'
<1>1. /\ handler[s] = "evaluating" /\ (stream[s] = "ended" \/ ~EncodeFailureIsReplied)
      /\ handler' = [handler EXCEPT ![s] = "failed"] /\ job' = [job EXCEPT ![s] = None]
      /\ UNCHANGED <<caller, stream, toServer, toClient, buffer, runs, status, using, got, answer>>
  BY DEF FailHandler, client
<1>2. TypeOK'
  BY <1>1 DEF StreamsSound, TypeOK
<1>3. handler'[s] = "failed" /\ job'[s] = None
  BY <1>1 DEF StreamsSound, TypeOK
<1>4. \A t \in Streams \ {s} : handler'[t] = handler[t] /\ job'[t] = job[t]
  BY <1>1 DEF StreamsSound, TypeOK
<1>5. \A d \in Calls : ~Pending(s, d)'
  BY <1>3 DEF Pending
<1>6. ASSUME NEW d \in Calls, using[d] = s PROVE Carries(s, d)'
  <2>1. NoReply(d, s)
    BY <1>1, <1>6, EvaluatingFacts
  <2>2. NoReply(d, s)'
    BY <1>1, <2>1 DEF NoReply
  <2>3. stream'[s] = "ended" \/ ~EncodeFailureIsReplied'
    BY <1>1 DEF EncodeFailureIsReplied
  <2> QED
    BY <1>3, <2>2, <2>3 DEF Carries
<1>7. ~Acquirable(s)'
  BY <1>1 DEF StreamsSound, FreeStreamsClean, Acquirable
<1> QED
  BY <1>1, <1>2, <1>3, <1>4, <1>5, <1>6, <1>7, StreamStep

LEMMA EndHandlerSound ==
    ASSUME StreamsSound, NEW s \in Streams, EndHandler(s)
    PROVE  StreamsSound'
<1>1. /\ handler[s] = "reading" /\ stream[s] = "ended"
      /\ handler' = [handler EXCEPT ![s] = "ended"] /\ buffer' = [buffer EXCEPT ![s] = <<>>]
      /\ UNCHANGED <<caller, stream, toServer, toClient, job, runs, status, using, got, answer>>
  BY DEF EndHandler, client
<1>2. TypeOK'
  BY <1>1, EmptySeq DEF StreamsSound, TypeOK
<1>3. handler'[s] = "ended" /\ buffer'[s] = <<>>
  BY <1>1 DEF StreamsSound, TypeOK
<1>4. \A t \in Streams \ {s} : handler'[t] = handler[t] /\ buffer'[t] = buffer[t]
  BY <1>1 DEF StreamsSound, TypeOK
<1>5. \A d \in Calls : ~Pending(s, d)'
  BY <1>3 DEF Pending
<1>6. job'[s] = None
  BY <1>1 DEF StreamsSound, RequestsPending
<1>7. ASSUME NEW d \in Calls, using[d] = s PROVE Carries(s, d)'
  <2>1. NoReply(d, s) \/ (NoRequest(s) /\ Replying(d, s))
    BY <1>7 DEF StreamsSound, UsedStreamsCarryTheirCall, Carries
  <2>2. NoReply(d, s)' <=> NoReply(d, s)
    BY <1>1 DEF NoReply
  <2>3. Replying(d, s)' <=> Replying(d, s)
    BY <1>1 DEF Replying, Reply, Message
  <2>4. NoRequest(s) => NoRequest(s)'
    BY <1>1, <1>3 DEF NoRequest
  <2> QED
    BY <1>3, <2>1, <2>2, <2>3, <2>4 DEF Carries
<1>8. ~Acquirable(s)'
  BY <1>1 DEF Acquirable
<1> QED
  BY <1>1, <1>2, <1>3, <1>4, <1>5, <1>6, <1>7, <1>8, StreamStep

LEMMA EndStreamSound ==
    ASSUME StreamsSound, NEW s \in Streams, EndStream(s)
    PROVE  StreamsSound'
<1>1. /\ stream[s] = "open" /\ stream' = [stream EXCEPT ![s] = "ended"]
      /\ UNCHANGED <<caller, toServer, toClient, buffer, handler, job, runs,
                     status, using, got, answer>>
  BY DEF EndStream, client, server
<1>2. TypeOK'
  BY <1>1 DEF StreamsSound, TypeOK
<1>3. stream'[s] = "ended" /\ \A t \in Streams \ {s} : stream'[t] = stream[t]
  BY <1>1 DEF StreamsSound, TypeOK
<1>4. /\ NoRequest(s)' <=> NoRequest(s)
      /\ \A d \in Calls : Pending(s, d)' <=> Pending(s, d)
  BY <1>1, RequestFrame
<1>5. /\ handler'[s] = "reading" => NoRequest(s)' \/ \E d \in Calls : Pending(s, d)'
      /\ handler'[s] = "evaluating" <=> job'[s] # None
  BY <1>1, <1>4 DEF StreamsSound, RequestsPending
<1>6. ASSUME NEW d \in Calls, using[d] = s PROVE Carries(s, d)'
  <2>1. Carries(s, d)
    BY <1>6 DEF StreamsSound, UsedStreamsCarryTheirCall
  <2> QED
    BY <1>1, <1>3, <2>1, CarriesFrame
<1>7. ~Acquirable(s)'
  BY <1>3 DEF Acquirable
<1> QED
  BY <1>1, <1>2, <1>3, <1>4, <1>5, <1>6, <1>7, StreamStep

-----------------------------------------------------------------------------

LEMMA NextSound == StreamsSound /\ [Next]_vars => StreamsSound'
<1> SUFFICES ASSUME StreamsSound, [Next]_vars PROVE StreamsSound'
  OBVIOUS
<1>1. CASE \E c \in Calls : \E s \in Streams : Send(c, s)
  BY <1>1, SendSound
<1>2. CASE \E c \in Calls : Refuse(c) \/ ReceiveReply(c) \/ SeeEnd(c)
  BY <1>2, RefuseSound, ReceiveReplySound, SeeEndSound
<1>3. CASE \E s \in Streams :
             ReceiveRequest(s) \/ WriteReply(s) \/ FailHandler(s) \/ EndHandler(s) \/ EndStream(s)
  BY <1>3, ReceiveRequestSound, WriteReplySound, FailHandlerSound, EndHandlerSound, EndStreamSound
<1>4. CASE UNCHANGED vars
  <2>1. UNCHANGED <<caller, stream, toServer, toClient, buffer, handler, job, runs,
                    status, using, got, answer>>
    BY <1>4 DEF vars, server, client
  <2>2. /\ \A s \in Streams : NoRequest(s)' <=> NoRequest(s)
        /\ \A s \in Streams : \A d \in Calls : Pending(s, d)' <=> Pending(s, d)
    BY <2>1, RequestFrame
  <2>3. UsedStreamsCarryTheirCall'
    BY <2>1, CarriesFrame DEF StreamsSound, UsedStreamsCarryTheirCall
  <2>4. TypeOK' /\ StreamsExclusive'
    BY <2>1 DEF StreamsSound, TypeOK, StreamsExclusive
  <2>5. RequestsPending' /\ FreeStreamsClean'
    BY <2>1, <2>2 DEF StreamsSound, RequestsPending, FreeStreamsClean, Acquirable
  <2> QED
    BY <2>3, <2>4, <2>5 DEF StreamsSound
<1> QED
  BY <1>1, <1>2, <1>3, <1>4 DEF Next

(* No byte of one call ever reaches another: a stream is given to the next *)
(* call (stream_pool.ts:30-44) only when it and the handler's buffer at    *)
(* its end are empty (exported.ts:88, transport.ts:72).                    *)
THEOREM Sound == Spec => []StreamsSound
<1> QED
  BY InitSound, NextSound, PTL DEF Spec

-----------------------------------------------------------------------------

LEMMA ReceiveReplyAnswers ==
    ASSUME StreamsSound, NEW c \in Calls, ReceiveReply(c)
    PROVE  /\ status[c] = "waiting" /\ runs[c] = 1 /\ UNCHANGED runs
           /\ \/ /\ status' = [status EXCEPT ![c] = "answered"]
                 /\ answer' = [answer EXCEPT ![c] = c]
              \/ UNCHANGED <<status, answer>>
<1>1. runs[c] = 1
  BY ReplyTaken DEF Carries, Replying
<1> QED
  BY <1>1, ReplyTaken DEF ReceiveReply, server

LEMMA NextAnswersOwnCall ==
    ASSUME StreamsSound, AnswersOwnCall, [Next]_vars
    PROVE  AnswersOwnCall'
<1>1. CASE \E c \in Calls : \E s \in Streams : Send(c, s)
  BY <1>1 DEF Send, AnswersOwnCall, server, StreamsSound, TypeOK
<1>2. ASSUME NEW c \in Calls, Refuse(c) \/ SeeEnd(c) PROVE AnswersOwnCall'
  BY <1>2 DEF Refuse, SeeEnd, AnswersOwnCall, server, StreamsSound, TypeOK
<1>3. ASSUME NEW c \in Calls, ReceiveReply(c) PROVE AnswersOwnCall'
  <2>1. /\ status[c] = "waiting" /\ runs[c] = 1 /\ UNCHANGED runs
        /\ \/ /\ status' = [status EXCEPT ![c] = "answered"]
              /\ answer' = [answer EXCEPT ![c] = c]
           \/ UNCHANGED <<status, answer>>
    BY <1>3, ReceiveReplyAnswers
  <2> QED
    BY <2>1 DEF AnswersOwnCall, StreamsSound, TypeOK
<1>4. ASSUME NEW s \in Streams, ReceiveRequest(s) PROVE AnswersOwnCall'
  <2>1. PICK c \in Calls : runs[c] = 0 /\ (UNCHANGED runs \/ runs' = [runs EXCEPT ![c] = 1])
    BY <1>4, RequestTaken
  <2> QED
    BY <1>4, <2>1 DEF ReceiveRequest, client, AnswersOwnCall, StreamsSound, TypeOK
<1>5. ASSUME NEW s \in Streams, WriteReply(s) \/ FailHandler(s) \/ EndHandler(s) \/ EndStream(s)
      PROVE  AnswersOwnCall'
  BY <1>5 DEF WriteReply, FailHandler, EndHandler, EndStream, client, server, AnswersOwnCall
<1>6. CASE UNCHANGED vars
  BY <1>6 DEF vars, client, server, AnswersOwnCall
<1> QED
  BY <1>1, <1>2, <1>3, <1>4, <1>5, <1>6 DEF Next

(* A call is answered by the reply to its own request and by no other one  *)
(* (imported.ts:269-283), whatever streams were used again.                *)
THEOREM Answered == Spec => []AnswersOwnCall
<1>1. Init => AnswersOwnCall
  BY DEF Init, AnswersOwnCall
<1> QED
  BY <1>1, Sound, NextAnswersOwnCall, PTL DEF Spec

(* Requests are executed at most once, also those whose stream was lost:   *)
(* the streams, buffers and handlers implement RemoteCall.                 *)
THEOREM Refines == Spec => AtMostOnce
<1>1. Init => Remote!Init
  BY DEF Init, Remote!Init
<1>2. ASSUME StreamsSound, [Next]_vars PROVE [Remote!Next]_(Remote!callVars)
  <2> USE DEF Remote!Next, Remote!callVars
  <2>1. ASSUME NEW c \in Calls, NEW s \in Streams, Send(c, s) PROVE Remote!Ask(c)
    BY <2>1 DEF Send, server, Remote!Ask
  <2>2. ASSUME NEW c \in Calls, Refuse(c) PROVE Remote!Refuse(c)
    BY <2>2 DEF Refuse, server, Remote!Refuse
  <2>3. ASSUME NEW c \in Calls, ReceiveReply(c)
        PROVE  Remote!Answer(c) \/ UNCHANGED Remote!callVars
    BY <1>2, <2>3, ReceiveReplyAnswers DEF Remote!Answer
  <2>4. ASSUME NEW c \in Calls, SeeEnd(c) PROVE Remote!Fail(c)
    BY <2>4 DEF SeeEnd, server, Remote!Fail
  <2>5. ASSUME NEW s \in Streams, ReceiveRequest(s)
        PROVE  (\E c \in Calls : Remote!Run(c)) \/ UNCHANGED Remote!callVars
    <3>1. UNCHANGED <<status, answer>>
      BY <2>5 DEF ReceiveRequest, client
    <3>2. PICK c \in Calls : /\ Pending(s, c) /\ runs[c] = 0
                             /\ UNCHANGED runs \/ runs' = [runs EXCEPT ![c] = 1]
      BY <1>2, <2>5, RequestTaken
    <3>3. status[c] \in {"waiting", "failed"}
      BY <1>2, <3>2, NoneAssumption DEF StreamsSound, RequestsPending, StreamsExclusive
    <3> QED
      BY <3>1, <3>2, <3>3 DEF Remote!Run
  <2>6. ASSUME NEW s \in Streams, WriteReply(s) \/ FailHandler(s) \/ EndHandler(s) \/ EndStream(s)
        PROVE  UNCHANGED Remote!callVars
    BY <2>6 DEF WriteReply, FailHandler, EndHandler, EndStream, client, server
  <2>7. UNCHANGED vars => UNCHANGED Remote!callVars
    BY DEF vars, client, server
  <2> QED
    BY <1>2, <2>1, <2>2, <2>3, <2>4, <2>5, <2>6, <2>7 DEF Next
<1> QED
  BY <1>1, <1>2, Sound, PTL DEF Spec, AtMostOnce, Remote!Spec


-----------------------------------------------------------------------------
(* A call never waits for what nobody will do. *)

(* A complete request is taken from the buffer at once. *)
BuffersIncomplete == \A s \in Streams : \A c \in Calls : buffer[s] # Request(c)

LEMMA RequestsNotEmpty == \A c \in Calls : Request(c) # <<>>
<1> SUFFICES ASSUME NEW c \in Calls PROVE Request(c) # <<>>
  OBVIOUS
<1>1. "request" \in Kinds
  BY DEF Kinds
<1> QED
  BY <1>1, MessageFacts DEF Request

LEMMA InitIncomplete == Init => BuffersIncomplete
BY RequestsNotEmpty DEF Init, BuffersIncomplete

(* Empty bytes add nothing. *)
LEMMA NothingBehind ==
    ASSUME NEW S, NEW p \in Seq(S)
    PROVE  p \o <<>> = p
OBVIOUS

LEMMA NextIncomplete ==
    ASSUME StreamsSound, BuffersIncomplete, [Next]_vars
    PROVE  BuffersIncomplete'
<1>1. \A c \in Calls : Request(c) # <<>>
  BY RequestsNotEmpty
<1>2. buffer \in [Streams -> Seq(Bytes)]
  BY DEF StreamsSound, TypeOK
<1>3. ASSUME NEW s \in Streams, ReceiveRequest(s) PROVE BuffersIncomplete'
  <2>1. PICK bytes : /\ buffer' = [buffer EXCEPT ![s] = bytes]
                     /\ bytes = <<>> \/ Undecodable(bytes, "request")
    BY <1>3 DEF ReceiveRequest
  <2>2. \A c \in Calls : bytes # Request(c)
    BY <1>1, <2>1 DEF Undecodable, Decodes, Request
  <2> QED
    BY <1>2, <2>1, <2>2 DEF BuffersIncomplete
<1>4. ASSUME NEW s \in Streams, EndHandler(s) PROVE BuffersIncomplete'
  BY <1>1, <1>2, <1>4 DEF EndHandler, BuffersIncomplete
<1>5. CASE /\ ~ \E s \in Streams : ReceiveRequest(s) \/ EndHandler(s)
           /\ [Next]_vars
  <2>1. buffer' = buffer
    BY <1>5 DEF Next, vars, server, Send, Refuse, ReceiveReply, SeeEnd, WriteReply,
       FailHandler, EndStream
  <2> QED
    BY <2>1 DEF BuffersIncomplete, Request, Message
<1> QED
  BY <1>3, <1>4, <1>5

(* What a stream carries for its call has someone to read it. *)
LEMMA CarriedIsAwaited ==
    ASSUME StreamsSound, BuffersIncomplete,
           NEW c \in Calls, status[c] = "waiting"
    PROVE  LosesReply(c) \/ \E s \in Streams : using[c] = s /\ Awaits(c, s)
<1>1. PICK s \in Streams : using[c] = s
  BY DEF StreamsSound, StreamsExclusive, TypeOK
<1>2. /\ buffer[s] \in Seq(Bytes) /\ toServer[s] \in Seq(Bytes)
      /\ got[c] \in Seq(Bytes) /\ toClient[s] \in Seq(Bytes)
  BY <1>1 DEF StreamsSound, TypeOK
<1>3. Carries(s, c)
  BY <1>1 DEF StreamsSound, UsedStreamsCarryTheirCall
<1>4. ASSUME Pending(s, c) PROVE Awaits(c, s)
  <2>1. buffer[s] \o <<>> = buffer[s]
    BY <1>2, NothingBehind
  <2>2. toServer[s] # <<>>
    BY <1>4, <2>1 DEF Pending, BuffersIncomplete
  <2> QED
    BY <1>4, <2>2 DEF Pending, Awaits
<1>5. ASSUME Replying(c, s) PROVE Awaits(c, s)
  <2>1. got[c] \o <<>> = got[c]
    BY <1>2, NothingBehind
  <2> QED
    BY <1>5, <2>1 DEF Replying, Awaits
<1>6. handler[s] = "ended" => stream[s] = "ended"
  BY DEF StreamsSound, RequestsPending
<1> QED
  BY <1>1, <1>3, <1>4, <1>5, <1>6 DEF Carries, Awaits, LosesReply

(* Each waiting call has something under way that ends its wait or brings  *)
(* the end nearer, unless the exporter could not encode its result.        *)
THEOREM NobodyWaitsForNothing == Spec => []CallsCanSettle
<1>1. StreamsSound /\ BuffersIncomplete => CallsCanSettle
  BY CarriedIsAwaited DEF CallsCanSettle
<1>2. StreamsSound /\ BuffersIncomplete /\ [Next]_vars => BuffersIncomplete'
  BY NextIncomplete
<1> QED
  BY <1>1, <1>2, InitIncomplete, Sound, PTL DEF Spec
=============================================================================

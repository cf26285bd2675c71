----------------------------- MODULE MCLine_proofs -----------------------------
(***************************************************************************)
(* Proofs about a client-duplex line from end to end, for any number of    *)
(* incarnations, generations, occupy tasks and chunks and any capacity of  *)
(* the queue: the client occupies only a listen whose upstream answered    *)
(* (OccupiesAnswered), and DuplexLine implements LineService.              *)
(*                                                                         *)
(* Each daemon keeps its own inductive invariant (ClientLine_proofs and    *)
(* ProxyLine_proofs, as CP and PP), whatever the other one sends.  What    *)
(* is between them adds three parts: an incarnation the client knows of    *)
(* has answered (NamesAnswered), every chunk on its way or shown was read  *)
(* (AllProduced), and the chunks of a source keep their order from the     *)
(* forward task to the socket (InLine).                                    *)
(*                                                                         *)
(* The application's bytes, for any numbers of chunks, occupations and     *)
(* entries and any capacity at the proxy: they arrive in order (InOrder),  *)
(* and ClientBytes implements ByteService.  Chunks are followed from place *)
(* to place (InPlace), one sender of the TCP task is used (OneSender),     *)
(* what was lost is newer than all that went on (LostLast), and what was   *)
(* refused is older than all that is coming (Skips).                       *)
(***************************************************************************)
EXTENDS MCLine, SequenceTheorems, TLAPS

CP == INSTANCE ClientLine_proofs WITH MaxReceived <- 0
PP == INSTANCE ProxyLine_proofs

-----------------------------------------------------------------------------
(* The two daemons, as their own proofs see them *)

LEMMA ClientAssumptions == CP!WarmAssumption /\ CP!ClientBoundsAssumption
BY LineAssumption DEF LineAssumption, CP!WarmAssumption, CP!ClientBoundsAssumption

LEMMA ProxyAssumptions == PP!BoundsAssumption
BY LineAssumption DEF LineAssumption, PP!BoundsAssumption

\* Both instances of ClientLine are the same module.
LEMMA SameClient ==
  /\ Client!Chunk = CP!Chunk /\ Client!Response = CP!Response
  /\ Client!Occupy = CP!Occupy
  /\ Client!TypeOK <=> CP!TypeOK
  /\ Client!Init <=> CP!Init
  /\ Client!Task <=> CP!Task
  /\ Client!DeliverReject <=> CP!DeliverReject
  /\ \A k \in Client!Occupy : Client!PipeFails(k) <=> CP!PipeFails(k)
  /\ \A i \in Inc : Client!DeliverAccept(i) <=> CP!DeliverAccept(i)
  /\ \A c \in Client!Chunk : Client!DeliverFrame(c) <=> CP!DeliverFrame(c)
<1> USE DEF
  Client!Inc, Client!Source, Client!Occupy, Client!Chunk, Client!Response,
  Client!Session, Client!NoSession, Client!OccupyPc, Client!TypeOK, Client!Init,
  Client!Listening, Client!CloseTcp, Client!Deregister, Client!AbandonSocket,
  Client!FirstChunk, Client!ListenReady, Client!ListenFailed, Client!Responded,
  Client!WaitTimeout, Client!WaitGivesUp, Client!WaitIoError, Client!SpawnPipe,
  Client!OccupyWanted, Client!WaitOccupy, Client!WaitPipeUp, Client!WriteToApp,
  Client!StreamEnds, Client!InitiatorShouldStopOffer, Client!StopOffer,
  Client!QueuesResponse, Client!DeliverAccept, Client!DeliverFrame,
  Client!DeliverReject, Client!MayRebuild, Client!ListenUp, Client!ListenIdle,
  Client!PipeGoes, Client!Attached, Client!PipeEnds, Client!PipeStarts,
  Client!PipeRefused, Client!Current, Client!PipeOpens, Client!PipeCloses,
  Client!PipeFails, Client!Places, Client!Room, Client!WriteBlocks, Client!Task,
  CP!Inc, CP!Source, CP!Occupy, CP!Chunk, CP!Response,
  CP!Session, CP!NoSession, CP!OccupyPc, CP!TypeOK, CP!Init,
  CP!Listening, CP!CloseTcp, CP!Deregister, CP!AbandonSocket,
  CP!FirstChunk, CP!ListenReady, CP!ListenFailed, CP!Responded,
  CP!WaitTimeout, CP!WaitGivesUp, CP!WaitIoError, CP!SpawnPipe,
  CP!OccupyWanted, CP!WaitOccupy, CP!WaitPipeUp, CP!WriteToApp,
  CP!StreamEnds, CP!InitiatorShouldStopOffer, CP!StopOffer,
  CP!QueuesResponse, CP!DeliverAccept, CP!DeliverFrame,
  CP!DeliverReject, CP!MayRebuild, CP!ListenUp, CP!ListenIdle,
  CP!PipeGoes, CP!Attached, CP!PipeEnds, CP!PipeStarts,
  CP!PipeRefused, CP!Current, CP!PipeOpens, CP!PipeCloses,
  CP!PipeFails, CP!Places, CP!Room, CP!WriteBlocks, CP!Task
<1>1. /\ Client!Chunk = CP!Chunk /\ Client!Response = CP!Response
      /\ Client!Occupy = CP!Occupy
  OBVIOUS
<1>2. (Client!TypeOK <=> CP!TypeOK) /\ (Client!Init <=> CP!Init)
  OBVIOUS
<1>3. Client!Task <=> CP!Task
  OBVIOUS
<1>4. Client!DeliverReject <=> CP!DeliverReject
  OBVIOUS
<1>5. ASSUME NEW k \in Client!Occupy PROVE Client!PipeFails(k) <=> CP!PipeFails(k)
  OBVIOUS
<1>6. ASSUME NEW i \in Inc PROVE Client!DeliverAccept(i) <=> CP!DeliverAccept(i)
  OBVIOUS
<1>7. ASSUME NEW c \in Client!Chunk PROVE Client!DeliverFrame(c) <=> CP!DeliverFrame(c)
  OBVIOUS
<1> HIDE DEF Client!Occupy, Client!Chunk, Client!Response, Client!TypeOK, Client!Init,
             Client!Task, Client!DeliverReject, Client!PipeFails, Client!DeliverAccept,
             Client!DeliverFrame, CP!Occupy, CP!Chunk, CP!Response, CP!TypeOK, CP!Init,
             CP!Task, CP!DeliverReject, CP!PipeFails, CP!DeliverAccept, CP!DeliverFrame
<1> QED
  BY <1>1, <1>2, <1>3, <1>4, <1>5, <1>6, <1>7

\* Both instances of ProxyLine are the same module.
LEMMA SameProxy ==
  /\ Proxy!Inc = PP!Inc /\ Proxy!Source = PP!Source
  /\ Proxy!TypeOK <=> PP!TypeOK
  /\ Proxy!Init <=> PP!Init
  /\ Proxy!Task \/ Proxy!MarkRejected \/ Proxy!ReturnAttached => PP!Next
  /\ \A i \in Inc : Proxy!AllocateLine(i) \/ Proxy!HandshakeNoListen(i)
                      \/ Proxy!OccupyFails(i) => PP!Next
  /\ \A s \in Source : /\ Proxy!ForwardChunk(s) <=> PP!ForwardChunk(s)
                       /\ Proxy!ForwardChunk(s) => PP!Next
                       /\ Proxy!NextForward(s) = PP!NextForward(s)
BY DEF
  Inc, Source,
  Proxy!Inc, Proxy!Source, Proxy!Session, Proxy!NoSession, Proxy!NewSession,
  Proxy!HandshakePc, Proxy!OccupyPc, Proxy!TypeOK, Proxy!Init, Proxy!InboundIdle,
  Proxy!AllocateLine, Proxy!InsertReceiver, Proxy!SpawnHandshake,
  Proxy!MarkRejected, Proxy!ReturnAttached, Proxy!HandshakeGoes,
  Proxy!HandshakeListens, Proxy!HandshakeNoListen, Proxy!NeedsReverse,
  Proxy!HandshakeDials, Proxy!HandshakeGivesUp, Proxy!HandshakePipeUp,
  Proxy!UpstreamChunk, Proxy!HandshakeStreamEnds, Proxy!HandshakeRetires,
  Proxy!NextForward, Proxy!ForwardChunk, Proxy!ForwardBreaks, Proxy!DrainEnds,
  Proxy!DrainRetires, Proxy!AcceptorShouldStopAccept, Proxy!StopAccept,
  Proxy!OccupyGoes, Proxy!ClearInflight, Proxy!OccupyStarts, Proxy!OccupyRefused,
  Proxy!AfterDrain, Proxy!DrainChecksRole, Proxy!DrainChecksReceiver,
  Proxy!DrainInserts, Proxy!MayInstall, Proxy!OccupyOpens, Proxy!OccupyCloses,
  Proxy!OccupyFails, Proxy!HandshakeTask, Proxy!OccupyTask, Proxy!Task,
  PP!Inc, PP!Source, PP!Session, PP!NoSession, PP!NewSession,
  PP!HandshakePc, PP!OccupyPc, PP!TypeOK, PP!Init, PP!InboundIdle,
  PP!AllocateLine, PP!InsertReceiver, PP!SpawnHandshake,
  PP!MarkRejected, PP!ReturnAttached, PP!HandshakeGoes,
  PP!HandshakeListens, PP!HandshakeNoListen, PP!NeedsReverse,
  PP!HandshakeDials, PP!HandshakeGivesUp, PP!HandshakePipeUp,
  PP!UpstreamChunk, PP!HandshakeStreamEnds, PP!HandshakeRetires,
  PP!NextForward, PP!ForwardChunk, PP!ForwardBreaks, PP!DrainEnds,
  PP!DrainRetires, PP!AcceptorShouldStopAccept, PP!StopAccept,
  PP!OccupyGoes, PP!ClearInflight, PP!OccupyStarts, PP!OccupyRefused,
  PP!AfterDrain, PP!DrainChecksRole, PP!DrainChecksReceiver,
  PP!DrainInserts, PP!MayInstall, PP!OccupyOpens, PP!OccupyCloses,
  PP!OccupyFails, PP!HandshakeTask, PP!OccupyTask, PP!Task, PP!Next

-----------------------------------------------------------------------------
(* The inductive invariant *)

Chunk == Client!Chunk
Response == Client!Response

NetTypeOK ==
  /\ offers \in BOOLEAN
  /\ accepts \in SUBSET Inc
  /\ frames \in Seq(Chunk)
  /\ rejects \in SUBSET Source

\* An incarnation the client can occupy, or will hear of, has answered.
NamesAnswered ==
  /\ \A i \in accepts : read[i] >= 1
  /\ session.peer # 0 => read[session.peer] >= 1
  /\ OccupiesAnswered

Elements(s) == {s[i] : i \in DOMAIN s}

\* A chunk is shown only after it was read, and a frame has passed the forward
\* task of its source.
Produced(c) == c[2] <= IF c \in Response THEN read[c[1]] ELSE PP!Passed(c[1])

AllProduced ==
  \A c \in Elements(app) \cup Elements(queue) \cup Elements(frames) : Produced(c)

\* Frames of one source are in the order they were read.
Later(c, d) ==
  c \notin Response /\ d \notin Response /\ c[1] = d[1] => c[2] < d[2]

Ordered(s) == \A i, j \in DOMAIN s : i < j => Later(s[i], s[j])
AllLater(S, T) == \A c \in S, d \in T : Later(c, d)

\* Nothing overtakes between the forward task and the socket, and no
\* responseChunk travels as a frame.
InLine ==
  /\ Elements(frames) \cap Response = {}
  /\ Ordered(app) /\ Ordered(queue) /\ Ordered(frames)
  /\ AllLater(Elements(app), Elements(queue))
  /\ AllLater(Elements(app), Elements(frames))
  /\ AllLater(Elements(queue), Elements(frames))

IInv ==
  /\ CP!IInv /\ PP!IInv /\ NetTypeOK
  /\ NamesAnswered /\ AllProduced /\ InLine

-----------------------------------------------------------------------------
(* Sequences of chunks *)

LEMMA EmptyChunks == <<>> \in Seq(Chunk) /\ Elements(<<>>) = {} /\ Ordered(<<>>)
BY DEF Elements, Ordered

LEMMA ElementsTyped == ASSUME NEW s \in Seq(Chunk) PROVE Elements(s) \subseteq Chunk
BY DEF Elements

LEMMA AppendChunk ==
  ASSUME NEW s \in Seq(Chunk), NEW c \in Chunk
  PROVE  /\ Append(s, c) \in Seq(Chunk)
         /\ Elements(Append(s, c)) = Elements(s) \cup {c}
         /\ Ordered(s) /\ AllLater(Elements(s), {c}) => Ordered(Append(s, c))
<1> DEFINE a == Append(s, c)
<1>1. /\ a \in Seq(Chunk) /\ DOMAIN s = 1 .. Len(s) /\ DOMAIN a = 1 .. Len(s) + 1
      /\ \A k \in 1 .. Len(s) : a[k] = s[k]
      /\ a[Len(s) + 1] = c
      /\ Len(s) \in Nat
  BY AppendProperties, LenProperties
<1> HIDE DEF a
<1>2. \A k : k \in 1 .. Len(s) + 1 <=> k \in 1 .. Len(s) \/ k = Len(s) + 1
  BY <1>1
<1>3. Elements(a) = Elements(s) \cup {c}
  BY <1>1, <1>2 DEF Elements
<1>4. ASSUME Ordered(s), AllLater(Elements(s), {c}) PROVE Ordered(a)
  <2> SUFFICES ASSUME NEW i \in DOMAIN a, NEW j \in DOMAIN a, i < j
               PROVE  Later(a[i], a[j])
    BY DEF Ordered
  <2>1. i \in DOMAIN s /\ a[i] = s[i] /\ s[i] \in Elements(s)
    BY <1>1 DEF Elements
  <2>2. CASE j \in DOMAIN s
    BY <1>1, <1>4, <2>1, <2>2 DEF Ordered
  <2>3. CASE j = Len(s) + 1
    BY <1>1, <1>4, <2>1, <2>3 DEF AllLater
  <2> QED
    BY <1>1, <1>2, <2>2, <2>3
<1> QED
  BY <1>1, <1>3, <1>4 DEF a

LEMMA TailChunks ==
  ASSUME NEW s \in Seq(Chunk), s # <<>>
  PROVE  /\ Tail(s) \in Seq(Chunk) /\ Head(s) \in Elements(s)
         /\ Elements(Tail(s)) \subseteq Elements(s)
         /\ Ordered(s) => Ordered(Tail(s)) /\ AllLater({Head(s)}, Elements(Tail(s)))
<1> DEFINE t == Tail(s)
<1>1. /\ t \in Seq(Chunk) /\ Len(t) = Len(s) - 1 /\ Len(s) \in Nat /\ Len(s) > 0
      /\ DOMAIN s = 1 .. Len(s) /\ DOMAIN t = 1 .. Len(t)
      /\ \A k \in 1 .. Len(t) : t[k] = s[k + 1]
      /\ Head(s) = s[1]
  BY HeadTailProperties, LenProperties, EmptySeq
<1> HIDE DEF t
<1>2. 1 \in DOMAIN s /\ \A k \in DOMAIN t : k + 1 \in DOMAIN s /\ t[k] = s[k + 1]
  BY <1>1
<1>3. Head(s) \in Elements(s) /\ Elements(t) \subseteq Elements(s)
  BY <1>1, <1>2 DEF Elements
<1>4. ASSUME Ordered(s) PROVE Ordered(t) /\ AllLater({Head(s)}, Elements(t))
  <2>1. ASSUME NEW i \in DOMAIN t, NEW j \in DOMAIN t, i < j PROVE Later(t[i], t[j])
    <3>1. i + 1 < j + 1
      BY <1>1, <2>1
    <3> QED
      BY <1>2, <1>4, <3>1 DEF Ordered
  <2>2. ASSUME NEW j \in DOMAIN t PROVE Later(s[1], t[j])
    <3>1. 1 < j + 1
      BY <1>1
    <3> QED
      BY <1>2, <1>4, <3>1 DEF Ordered
  <2> QED
    BY <1>1, <2>1, <2>2 DEF Ordered, AllLater, Elements
<1> QED
  BY <1>1, <1>3, <1>4 DEF t

-----------------------------------------------------------------------------
(* The steps, as each daemon and the network see them *)

\* A frame is one of the chunks the client takes for a frame.
LEMMA HeadFrame ==
  ASSUME NetTypeOK, InLine, frames # <<>>
  PROVE  Head(frames) \in Chunk \ Response /\ Head(frames) \in Client!Chunk
BY TailChunks, ElementsTyped DEF NetTypeOK, InLine, Chunk

LEMMA ClientSide ==
  ASSUME NetTypeOK, InLine, [Next]_vars PROVE [CP!Step]_(CP!vars)
<1>1. CASE UNCHANGED clientVars
  BY <1>1 DEF clientVars, CP!vars
<1>2. CASE Client!Task \/ Client!DeliverReject
  BY <1>2, SameClient DEF CP!Step
<1>3. ASSUME NEW k \in Client!Occupy, Client!PipeFails(k) PROVE CP!Step
  BY <1>3, SameClient DEF CP!Step
<1>4. ASSUME NEW i \in Inc, Client!DeliverAccept(i) PROVE CP!Step
  BY <1>4, SameClient DEF CP!Step, CP!Inc, Inc
<1>5. CASE DeliverFrame
  BY <1>5, HeadFrame, SameClient DEF DeliverFrame, CP!Step, Chunk, Response
<1> QED
  BY <1>1, <1>2, <1>3, <1>4, <1>5
     DEF Next, vars, ClientTask, ProxyTask, PostOffer, DeliverOffer, RefuseOffer,
         PostAccept, DeliverAccept, ProxyFails, DeliverRejectToProxy, ForwardChunk,
         LoseFrame, DeliverPing, PipeFails, DeliverRejectToClient, netVars

LEMMA ProxySide == ASSUME [Next]_vars PROVE [PP!Next]_(PP!vars)
<1>1. CASE UNCHANGED proxyVars
  BY <1>1 DEF proxyVars, PP!vars
<1>2. CASE Proxy!Task \/ Proxy!MarkRejected \/ Proxy!ReturnAttached
  BY <1>2, SameProxy
<1>3. ASSUME NEW i \in Inc, \/ Proxy!AllocateLine(i) \/ Proxy!HandshakeNoListen(i)
                            \/ Proxy!OccupyFails(i)
      PROVE  PP!Next
  BY <1>3, SameProxy
<1>4. ASSUME NEW s \in Source, Proxy!ForwardChunk(s) PROVE PP!Next
  BY <1>4, SameProxy
<1> QED
  BY <1>1, <1>2, <1>3, <1>4
     DEF Next, vars, ClientTask, ProxyTask, PostOffer, DeliverOffer, RefuseOffer,
         PostAccept, DeliverAccept, ProxyFails, DeliverRejectToProxy, ForwardChunk,
         DeliverFrame, LoseFrame, DeliverPing, PipeFails, DeliverRejectToClient,
         netVars

\* No step is of both daemons.
LEMMA OneSide == ASSUME [Next]_vars PROVE UNCHANGED clientVars \/ UNCHANGED proxyVars
BY DEF Next, vars, ClientTask, ProxyTask, PostOffer, DeliverOffer, RefuseOffer,
       PostAccept, DeliverAccept, ProxyFails, DeliverRejectToProxy, ForwardChunk,
       DeliverFrame, LoseFrame, DeliverPing, PipeFails, DeliverRejectToClient,
       netVars

\* The steps of the client that bring it no message of the proxy's.
ClientAlone ==
  /\ CP!OwnStep \/ UNCHANGED clientVars
  /\ frames' = frames /\ accepts' = accepts

\* Who moves accepts and frames.
LEMMA MessageSteps ==
  ASSUME [Next]_vars
  PROVE  \/ ClientAlone
         \/ \E i \in Inc : PostAccept(i) \/ DeliverAccept(i)
         \/ \E s \in Source : ForwardChunk(s)
         \/ DeliverFrame \/ LoseFrame
<1>1. CASE ClientTask \/ DeliverRejectToClient
  BY <1>1, SameClient
     DEF ClientTask, DeliverRejectToClient, ClientAlone, CP!OwnStep, netVars
<1>2. ASSUME NEW k \in Client!Occupy, PipeFails(k) PROVE ClientAlone
  BY <1>2, SameClient DEF PipeFails, ClientAlone, CP!OwnStep
<1>3. CASE /\ UNCHANGED <<clientVars, frames, accepts>>
  BY <1>3 DEF ClientAlone
<1> QED
  BY <1>1, <1>2, <1>3
     DEF Next, vars, ProxyTask, PostOffer, DeliverOffer, RefuseOffer,
         ProxyFails, DeliverRejectToProxy, DeliverPing, netVars

\* What was read stays read, and what passed the forward task has passed it.
LEMMA Monotone ==
  ASSUME PP!IInv, [Next]_vars
  PROVE  /\ \A s \in Source : read[s] <= read'[s] /\ PP!Passed(s) <= PP!Passed(s)'
         /\ \A s \in Source : /\ read[s] \in Nat /\ read'[s] \in Nat
                              /\ PP!Passed(s) \in Int /\ PP!Passed(s)' \in Int
<1>1. [PP!Next]_(PP!vars)
  BY ProxySide
<1>2. PP!IInv'
  BY <1>1, PP!NextKeeps, ProxyAssumptions
<1>3. /\ PP!TypeOK /\ PP!Answered /\ PP!TypeOK'
  BY <1>2 DEF PP!IInv
<1>4. \A s \in PP!Source : read[s] <= read'[s] /\ PP!Passed(s) <= PP!Passed(s)'
  BY <1>1, <1>3, PP!PassedSteps, ProxyAssumptions
<1>5. PP!Source = Source
  BY DEF PP!Source, Source
<1>6. /\ read \in [Source -> 0 .. MaxChunks] /\ backlog \in [Source -> 0 .. MaxChunks]
      /\ read' \in [Source -> 0 .. MaxChunks] /\ backlog' \in [Source -> 0 .. MaxChunks]
  BY <1>3, <1>5 DEF PP!TypeOK
<1> QED
  BY <1>4, <1>5, <1>6, LineAssumption DEF PP!Passed, LineAssumption

-----------------------------------------------------------------------------
(* Every step keeps the invariant *)

LEMMA FramesTypeNext ==
  ASSUME IInv, [Next]_vars PROVE accepts' \in SUBSET Inc /\ frames' \in Seq(Chunk)'
<1> DEFINE Typed == accepts' \in SUBSET Inc /\ frames' \in Seq(Chunk)'
<1> USE DEF IInv, NetTypeOK
<1>1. CASE ClientAlone
  BY <1>1 DEF ClientAlone, Chunk, Client!Chunk, Client!Source
<1>2. ASSUME NEW i \in Inc, PostAccept(i) \/ DeliverAccept(i) PROVE Typed
  BY <1>2 DEF PostAccept, DeliverAccept, netVars, Chunk, Client!Chunk, Client!Source
<1>3. ASSUME NEW s \in Source, ForwardChunk(s) PROVE Typed
  <2>1. Proxy!NextForward(s) \in Chunk
    <3>1. PP!ForwardChunk(s) /\ PP!NextForward(s) = Proxy!NextForward(s) /\ s \in PP!Source
      BY <1>3, SameProxy DEF ForwardChunk, PP!Source, Source
    <3>2. /\ PP!NextForward(s) = <<s, PP!Passed(s) + 1>>
          /\ PP!Passed(s) + 1 \in 1 .. MaxChunks
      BY <3>1, PP!ForwardedChunk, ProxyAssumptions DEF PP!IInv
    <3> QED
      BY <3>1, <3>2 DEF Chunk, Client!Chunk, Client!Source, Source
  <2> QED
    BY <1>3, <2>1, AppendChunk DEF ForwardChunk, Chunk, Client!Chunk, Client!Source
<1>4. CASE DeliverFrame \/ LoseFrame
  BY <1>4, TailChunks DEF DeliverFrame, LoseFrame, Chunk, Client!Chunk, Client!Source
<1> QED
  BY <1>1, <1>2, <1>3, <1>4, MessageSteps

LEMMA NetTypeNext == ASSUME IInv, [Next]_vars PROVE NetTypeOK'
<1>1. accepts' \in SUBSET Inc /\ frames' \in Seq(Chunk)'
  BY FramesTypeNext
<1>2. offers \in BOOLEAN /\ rejects \in SUBSET Source /\ 0 \in Source
  BY LineAssumption DEF IInv, NetTypeOK, Source, LineAssumption
<1>3. \A k \in Client!Occupy : pipe[k].target \in Source
  <2>1. CP!TypeOK
    BY DEF IInv, CP!IInv
  <2> QED
    BY <2>1, SameClient DEF CP!TypeOK, CP!Source, Source
<1>4. offers' \in BOOLEAN
  BY <1>2
     DEF Next, vars, ClientTask, ProxyTask, PostOffer, DeliverOffer, RefuseOffer,
         PostAccept, DeliverAccept, ProxyFails, DeliverRejectToProxy, ForwardChunk,
         DeliverFrame, LoseFrame, DeliverPing, PipeFails, DeliverRejectToClient,
         netVars
<1>5. rejects' \in SUBSET Source
  BY <1>2, <1>3
     DEF Next, vars, ClientTask, ProxyTask, PostOffer, DeliverOffer, RefuseOffer,
         PostAccept, DeliverAccept, ProxyFails, DeliverRejectToProxy, ForwardChunk,
         DeliverFrame, LoseFrame, DeliverPing, PipeFails, DeliverRejectToClient,
         netVars
<1> QED
  BY <1>1, <1>4, <1>5 DEF NetTypeOK

LEMMA NamesNext == ASSUME IInv, [Next]_vars PROVE NamesAnswered'
<1>1. \A i \in Source : read[i] >= 1 => read'[i] >= 1
  BY Monotone DEF IInv
<1>2. /\ \A i \in Inc : i \in Source
      /\ accepts \in SUBSET Inc
      /\ session.peer \in Source /\ \A k \in Client!Occupy : pipe[k].target \in Source
      /\ CP!TypeOK
  <2>1. CP!TypeOK
    BY DEF IInv, CP!IInv
  <2>2. session.peer \in CP!Source /\ \A k \in CP!Occupy : pipe[k].target \in CP!Source
    BY <2>1 DEF CP!TypeOK, CP!Session
  <2> QED
    BY <2>1, <2>2, SameClient, LineAssumption
       DEF CP!Source, Source, Inc, IInv, NetTypeOK, LineAssumption
<1>3. NamesAnswered
  BY DEF IInv
<1>4. CASE UNCHANGED clientVars /\ accepts' = accepts
  BY <1>1, <1>2, <1>3, <1>4 DEF NamesAnswered, OccupiesAnswered, clientVars
<1>5. CASE CP!OwnStep /\ accepts' = accepts
  <2>1. /\ session'.peer \in {0, session.peer}
        /\ \A k \in Client!Occupy : pipe'[k].target \in {pipe[k].target, session.peer}
    BY <1>2, <1>5, CP!PeerSteps, ClientAssumptions, SameClient
  <2> QED
    BY <1>1, <1>2, <1>3, <1>5, <2>1 DEF NamesAnswered, OccupiesAnswered
<1>6. ASSUME NEW i \in Inc, PostAccept(i) PROVE NamesAnswered'
  <2>1. i \in accepting
    BY <1>6 DEF PostAccept, Proxy!MayPostAccept
  <2>2. read[i] >= 1
    BY <2>1 DEF IInv, PP!IInv, PP!Answered, PP!Inc, Inc
  <2>3. UNCHANGED <<clientVars, proxyVars>> /\ accepts' = accepts \cup {i}
    BY <1>6 DEF PostAccept
  <2> QED
    BY <1>3, <2>2, <2>3 DEF NamesAnswered, OccupiesAnswered, clientVars, proxyVars
<1>7. ASSUME NEW i \in Inc, DeliverAccept(i) PROVE NamesAnswered'
  <2>1. /\ i \in accepts /\ read' = read /\ accepts' = accepts /\ pipe' = pipe
        /\ session' = [session EXCEPT !.status = "attached", !.peer = i,
                                      !.delivered = @ \/ Client!QueuesResponse]
    BY <1>7 DEF DeliverAccept, Client!DeliverAccept, proxyVars, netVars
  <2>2. session \in CP!Session
    BY <1>2 DEF CP!TypeOK
  <2>3. session'.peer = i
    BY <2>1, <2>2 DEF CP!Session
  <2> QED
    BY <1>3, <2>1, <2>3 DEF NamesAnswered, OccupiesAnswered
<1>8. CASE DeliverFrame
  <2>1. UNCHANGED <<session, pipe, accepts, read>>
    BY <1>8 DEF DeliverFrame, Client!DeliverFrame, proxyVars
  <2> QED
    BY <1>3, <2>1 DEF NamesAnswered, OccupiesAnswered
<1> QED
  BY <1>4, <1>5, <1>6, <1>7, <1>8, MessageSteps DEF ClientAlone, ForwardChunk, LoseFrame

\* A produced chunk stays one, whatever was read since.
LEMMA ProducedStays ==
  ASSUME IInv, [Next]_vars, NEW c \in Chunk, Produced(c) PROVE Produced(c)'
<1>1. c[1] \in Source /\ c[2] \in Nat
  BY LineAssumption DEF Chunk, Client!Chunk, Client!Source, Source, LineAssumption
<1>2. PP!IInv
  BY DEF IInv
<1>3. /\ read[c[1]] <= read'[c[1]] /\ read[c[1]] \in Nat /\ read'[c[1]] \in Nat
      /\ PP!Passed(c[1]) <= PP!Passed(c[1])'
      /\ PP!Passed(c[1]) \in Int /\ PP!Passed(c[1])' \in Int
  BY <1>1, <1>2, Monotone
<1>4. c \in Response => c[2] <= read[c[1]]
  BY DEF Produced
<1>5. c \notin Response => c[2] <= PP!Passed(c[1])
  BY DEF Produced
<1> QED
  BY <1>1, <1>3, <1>4, <1>5 DEF Produced, Response, Client!Response, Client!Inc

\* Fewer chunks on their way are in order if more were.
LEMMA AllLaterSubsets ==
  ASSUME NEW S, NEW T, NEW S1 \in SUBSET S, NEW T1 \in SUBSET T, AllLater(S, T)
  PROVE  AllLater(S1, T1)
BY DEF AllLater

LEMMA ChunksNext == ASSUME IInv, [Next]_vars PROVE AllProduced' /\ InLine'
<1> DEFINE All == Elements(app) \cup Elements(queue) \cup Elements(frames)
<1>a. app \in Seq(Chunk) /\ queue \in Seq(Chunk) /\ frames \in Seq(Chunk)
  BY SameClient DEF IInv, NetTypeOK, CP!IInv, CP!TypeOK, Chunk
<1>b. All \subseteq Chunk
  BY <1>a, ElementsTyped
<1>c. AllProduced /\ InLine
  BY DEF IInv
<1>d. ASSUME NEW c \in Chunk, c \in All \/ Produced(c)' PROVE Produced(c)'
  BY <1>c, <1>d, ProducedStays DEF AllProduced
<1>e. /\ Response' = Response
      /\ \A c, d : Later(c, d)' <=> Later(c, d)
  BY DEF Response, Client!Response, Client!Inc, Later
<1>f. ASSUME Elements(app)' \cup Elements(queue)' \cup Elements(frames)' \subseteq All
      PROVE  AllProduced'
  BY <1>b, <1>d, <1>f DEF AllProduced
<1> DEFINE InLineAfter ==
      /\ Elements(frames') \cap Response = {}
      /\ Ordered(app') /\ Ordered(queue') /\ Ordered(frames')
      /\ AllLater(Elements(app'), Elements(queue'))
      /\ AllLater(Elements(app'), Elements(frames'))
      /\ AllLater(Elements(queue'), Elements(frames'))
<1>g. InLineAfter => InLine'
  BY <1>e DEF InLine, Ordered, AllLater, Elements
<1>h. /\ Elements(frames) \cap Response = {}
      /\ Ordered(app) /\ Ordered(queue) /\ Ordered(frames)
      /\ AllLater(Elements(app), Elements(queue))
      /\ AllLater(Elements(app), Elements(frames))
      /\ AllLater(Elements(queue), Elements(frames))
  BY <1>c DEF InLine
<1>1. CASE app' = app /\ queue' \in {queue, <<>>} /\ frames' = frames
  <2>1. Elements(queue') \subseteq Elements(queue) /\ Ordered(queue')
    BY <1>1, <1>h, EmptyChunks
  <2>2. InLineAfter
    BY <1>1, <1>h, <2>1, AllLaterSubsets
  <2>3. Elements(app)' \cup Elements(queue)' \cup Elements(frames)' \subseteq All
    BY <1>1, <2>1 DEF Elements
  <2> QED
    BY <1>f, <1>g, <2>2, <2>3
<1>2. CASE CP!WriteToApp /\ frames' = frames
  <2> DEFINE h == Head(queue)
  <2>1. /\ queue # <<>> /\ app' = Append(app, h) /\ queue' = Tail(queue)
    BY <1>2 DEF CP!WriteToApp
  <2>2. /\ h \in Elements(queue) /\ h \in Chunk
        /\ Elements(queue') \subseteq Elements(queue)
        /\ Ordered(queue') /\ AllLater({h}, Elements(queue'))
    BY <1>a, <1>b, <1>h, <2>1, TailChunks
  <2>3. Elements(app') = Elements(app) \cup {h} /\ Ordered(app')
    <3>1. AllLater(Elements(app), {h})
      BY <1>h, <2>2 DEF AllLater
    <3> QED
      BY <1>a, <1>h, <2>1, <2>2, <3>1, AppendChunk
  <2>4. InLineAfter
    BY <1>2, <1>h, <2>2, <2>3 DEF AllLater
  <2>5. Elements(app)' \cup Elements(queue)' \cup Elements(frames)' \subseteq All
    BY <1>2, <2>2, <2>3 DEF Elements
  <2> QED
    BY <1>f, <1>g, <2>4, <2>5
<1>3. ASSUME NEW i \in Inc, DeliverAccept(i) PROVE AllProduced' /\ InLine'
  <2>1. /\ app' = app /\ frames' = frames /\ queue' \in {queue, Append(queue, <<i, 1>>)}
        /\ read' = read /\ i \in accepts
    BY <1>3 DEF DeliverAccept, Client!DeliverAccept, netVars, proxyVars
  <2>2. CASE queue' = queue
    BY <1>1, <2>1, <2>2
  <2>3. CASE queue' = Append(queue, <<i, 1>>)
    <3>1. <<i, 1>> \in Chunk /\ <<i, 1>> \in Response
      BY LineAssumption
         DEF Chunk, Client!Chunk, Client!Source, Response, Client!Response, Client!Inc,
             Inc, LineAssumption
    <3>2. Produced(<<i, 1>>)'
      <4>1. read[i] >= 1 /\ read[i] \in Nat
        BY <2>1, Monotone, LineAssumption
           DEF IInv, NamesAnswered, Source, Inc, LineAssumption
      <4> QED
        BY <2>1, <3>1, <4>1 DEF Produced, Response, Client!Response, Client!Inc
    <3>3. \A d : Later(<<i, 1>>, d) /\ Later(d, <<i, 1>>)
      BY <3>1 DEF Later
    <3>4. Elements(queue') = Elements(queue) \cup {<<i, 1>>} /\ Ordered(queue')
      <4>1. AllLater(Elements(queue), {<<i, 1>>})
        BY <3>3 DEF AllLater
      <4> QED
        BY <1>a, <1>h, <2>3, <3>1, <4>1, AppendChunk
    <3>5. InLineAfter
      BY <1>h, <2>1, <3>3, <3>4 DEF AllLater
    <3>6. AllProduced'
      BY <1>b, <1>d, <2>1, <3>1, <3>2, <3>4 DEF AllProduced, Elements
    <3> QED
      BY <1>g, <3>5, <3>6
  <2> QED
    BY <2>1, <2>2, <2>3
<1>4. ASSUME NEW s \in Source, ForwardChunk(s) PROVE AllProduced' /\ InLine'
  <2>0. PICK c : c = <<s, PP!Passed(s) + 1>>
    OBVIOUS
  <2>1. PP!ForwardChunk(s) /\ PP!NextForward(s) = Proxy!NextForward(s) /\ s \in PP!Source
    BY <1>4, SameProxy DEF ForwardChunk, PP!Source, Source
  <2>2. /\ PP!NextForward(s) = c
        /\ PP!Passed(s) + 1 \in 1 .. MaxChunks
        /\ PP!Passed(s)' = PP!Passed(s) + 1
        /\ s \in PP!Inc => PP!Passed(s) + 1 # 1
    BY <2>0, <2>1, PP!ForwardedChunk, ProxyAssumptions DEF IInv, PP!IInv
  <2>3. app' = app /\ queue' = queue /\ frames' = Append(frames, c)
    BY <1>4, <2>1, <2>2 DEF ForwardChunk, clientVars
  <2>4. c \in Chunk /\ c \notin Response
    BY <2>0, <2>2
       DEF Chunk, Client!Chunk, Client!Source, Source, Response, Client!Response,
           Client!Inc, PP!Inc
  <2>5. PP!Passed(s) \in Int /\ PP!Passed(s)' \in Int
    BY Monotone DEF IInv
  <2>6. Produced(c)'
    BY <1>e, <2>0, <2>2, <2>4, <2>5 DEF Produced
  <2>7. \A d \in All : Later(d, c)
    <3> SUFFICES ASSUME NEW d \in All, d \notin Response, d[1] = s
                 PROVE  d[2] < PP!Passed(s) + 1
      BY <2>0 DEF Later
    <3>1. d[2] <= PP!Passed(s) /\ d[2] \in Int
      BY <1>b, <1>c DEF AllProduced, Produced, Chunk, Client!Chunk
    <3> QED
      BY <2>5, <3>1
  <2>8. Elements(frames') = Elements(frames) \cup {c} /\ Ordered(frames')
    <3>1. AllLater(Elements(frames), {c})
      BY <2>7 DEF AllLater
    <3> QED
      BY <1>a, <1>h, <2>3, <2>4, <3>1, AppendChunk
  <2>9. InLineAfter
    BY <1>h, <2>3, <2>4, <2>7, <2>8 DEF AllLater
  <2>10. AllProduced'
    BY <1>b, <1>d, <2>3, <2>4, <2>6, <2>8 DEF AllProduced, Elements
  <2> QED
    BY <1>g, <2>9, <2>10
<1>5. CASE DeliverFrame \/ LoseFrame
  <2> DEFINE c == Head(frames)
  <2>1. /\ frames # <<>> /\ app' = app /\ frames' = Tail(frames)
        /\ queue' \in {queue, Append(queue, c)}
    BY <1>5 DEF DeliverFrame, LoseFrame, Client!DeliverFrame, clientVars
  <2>2. /\ c \in Elements(frames) /\ c \in Chunk
        /\ Elements(frames') \subseteq Elements(frames)
        /\ Ordered(frames') /\ AllLater({c}, Elements(frames'))
    BY <1>a, <1>b, <1>h, <2>1, TailChunks
  <2>3. CASE queue' = queue
    <3>1. InLineAfter
      BY <1>h, <2>1, <2>2, <2>3, AllLaterSubsets
    <3>2. Elements(app)' \cup Elements(queue)' \cup Elements(frames)' \subseteq All
      BY <2>1, <2>2, <2>3 DEF Elements
    <3> QED
      BY <1>f, <1>g, <3>1, <3>2
  <2>4. CASE queue' = Append(queue, c)
    <3>1. Elements(queue') = Elements(queue) \cup {c} /\ Ordered(queue')
      <4>1. AllLater(Elements(queue), {c})
        BY <1>h, <2>2 DEF AllLater
      <4> QED
        BY <1>a, <1>h, <2>2, <2>4, <4>1, AppendChunk
    <3>2. InLineAfter
      BY <1>h, <2>1, <2>2, <3>1 DEF AllLater
    <3>3. Elements(app)' \cup Elements(queue)' \cup Elements(frames)' \subseteq All
      BY <2>1, <2>2, <3>1 DEF Elements
    <3> QED
      BY <1>f, <1>g, <3>2, <3>3
  <2> QED
    BY <2>1, <2>3, <2>4
<1>6. CASE ClientAlone
  <2>1. CASE UNCHANGED clientVars
    BY <1>1, <1>6, <2>1 DEF ClientAlone, clientVars
  <2>2. CASE CP!OwnStep
    <3>1. CP!WriteToApp \/ (app' = app /\ queue' \in {queue, <<>>})
      BY <2>2, CP!OwnSteps, ClientAssumptions
    <3> QED
      BY <1>1, <1>2, <1>6, <3>1 DEF ClientAlone
  <2> QED
    BY <1>6, <2>1, <2>2 DEF ClientAlone
<1>7. ASSUME NEW i \in Inc, PostAccept(i) PROVE AllProduced' /\ InLine'
  BY <1>1, <1>7 DEF PostAccept, clientVars
<1> QED
  BY <1>3, <1>4, <1>5, <1>6, <1>7, MessageSteps

LEMMA NextKeeps == ASSUME IInv, [Next]_vars PROVE IInv'
<1>1. CP!IInv'
  <2>1. [CP!Step]_(CP!vars)
    BY ClientSide DEF IInv
  <2> QED
    BY <2>1, CP!StepKeeps, ClientAssumptions DEF IInv
<1>2. PP!IInv'
  BY ProxySide, PP!NextKeeps, ProxyAssumptions DEF IInv
<1> QED
  BY <1>1, <1>2, NetTypeNext, NamesNext, ChunksNext DEF IInv

LEMMA InitEstablishes == Init => IInv
<1> SUFFICES ASSUME Init PROVE IInv
  OBVIOUS
<1>1. CP!IInv
  BY SameClient, CP!InitInv, ClientAssumptions DEF Init
<1>2. PP!IInv
  BY SameProxy, PP!InitInv, ProxyAssumptions DEF Init
<1>3. app = <<>> /\ queue = <<>> /\ frames = <<>> /\ accepts = {}
  BY DEF Init, Client!Init
<1>4. NetTypeOK
  BY <1>3, EmptyChunks DEF Init, NetTypeOK
<1>5. NamesAnswered
  BY DEF Init, Client!Init, Client!NoSession, NamesAnswered, OccupiesAnswered
<1>6. AllProduced /\ InLine
  BY <1>3, EmptyChunks DEF AllProduced, InLine, AllLater
<1> QED
  BY <1>1, <1>2, <1>4, <1>5, <1>6 DEF IInv

THEOREM LineInvariance == Spec => []IInv
<1>1. IInv /\ [Next]_vars => IInv'
  BY NextKeeps
<1> QED
  BY <1>1, InitEstablishes, PTL DEF Spec

-----------------------------------------------------------------------------
(* LineService *)

\* The line starts as the service does.
LEMMA StartsServed == Init => Service!Init
BY DEF Init, Client!Init, Proxy!Init, Proxy!Source, Source, Service!Init

\* A chunk moved to the socket is one the service may deliver: it was produced,
\* it was not shown before, and it follows those of its source.
LEMMA WriteReceives ==
  ASSUME IInv, CP!WriteToApp, read' = read
  PROVE  \E i \in Source, n \in 1 .. MaxChunks : Service!Receive(i, n)
<1> DEFINE h == Head(queue)
<1>1. /\ tcp \in {"wait", "stream"} /\ queue # <<>> /\ tcp' = tcp
      /\ app' = Append(app, h)
  BY DEF CP!WriteToApp
<1>2. /\ CP!TypeOK /\ CP!ResponseExactlyOnce
      /\ app \in Seq(Chunk) /\ queue \in Seq(Chunk)
  BY SameClient DEF IInv, CP!IInv, CP!TypeOK, Chunk
<1>3. h \in Elements(queue) /\ h \in Chunk
  BY <1>1, <1>2, TailChunks, ElementsTyped
<1>4. PICK i \in Source, n \in 1 .. MaxChunks : h = <<i, n>>
  BY <1>3 DEF Chunk, Client!Chunk, Client!Source, Source
<1>5. \A k \in DOMAIN app : app[k] \in Elements(app) /\ Later(app[k], h)
  BY <1>3 DEF IInv, InLine, AllLater, Elements
<1>6. n <= read[i]
  <2>1. Produced(h)
    BY <1>3 DEF IInv, AllProduced
  <2>2. PP!Passed(i) <= read[i] /\ read[i] \in Nat /\ PP!Passed(i) \in Int
    <3>1. PP!TypeOK
      BY DEF IInv, PP!IInv
    <3>2. read[i] \in 0 .. MaxChunks /\ backlog[i] \in 0 .. MaxChunks
      BY <3>1 DEF PP!TypeOK, PP!Source, Source
    <3> QED
      BY <3>2, LineAssumption DEF PP!Passed, LineAssumption
  <2> QED
    BY <1>4, <2>1, <2>2, LineAssumption DEF Produced, LineAssumption
<1>7. \A k \in DOMAIN app : app[k] # h
  <2>1. CASE h \in Response
    BY <1>1, <1>2, <2>1, CP!HeadResponse, ClientAssumptions, SameClient DEF Response
  <2>2. CASE h \notin Response
    BY <1>4, <1>5, <2>2 DEF Later
  <2> QED
    BY <2>1, <2>2
<1>8. ~Service!Contains(app, <<i, n>>)
  <2>1. \A k \in 1 .. Len(app) : k \in DOMAIN app
    BY <1>2, LenProperties
  <2> QED
    BY <1>4, <1>7, <2>1 DEF Service!Contains
<1>9. \/ <<i, n>> \in Client!Response
      \/ \A c \in Service!ToSet(app) \ Client!Response : c[1] = i => c[2] < n
  BY <1>4, <1>5 DEF Service!ToSet, Later, Response
<1> QED
  BY <1>1, <1>4, <1>6, <1>8, <1>9 DEF Service!Receive

\* Every step of the line is one of the service, or none.
LEMMA StepsServed ==
  ASSUME IInv, [Next]_vars PROVE [Service!Next]_(Service!vars)
<1>1. CASE UNCHANGED clientVars
  <2>1. \/ read' = read
        \/ \E s \in Source : read[s] < MaxChunks /\ read' = [read EXCEPT ![s] = @ + 1]
    BY ProxySide, PP!ReadSteps, ProxyAssumptions DEF IInv, PP!IInv, PP!Source, Source
  <2>2. tcp' = tcp /\ app' = app
    BY <1>1 DEF clientVars
  <2>3. CASE read' = read
    BY <2>2, <2>3 DEF Service!vars
  <2>4. ASSUME NEW s \in Source, read[s] < MaxChunks, read' = [read EXCEPT ![s] = @ + 1]
        PROVE  Service!Produce(s)
    BY <2>2, <2>4 DEF Service!Produce
  <2> QED
    BY <2>1, <2>3, <2>4 DEF Service!Next
<1>2. CASE UNCHANGED proxyVars
  <2>1. read' = read
    BY <1>2 DEF proxyVars
  <2>2. \/ CP!WriteToApp
        \/ /\ app' = app
           /\ \/ tcp' = tcp
              \/ tcp = "idle" /\ tcp' \in {"listen", "wait"}
              \/ tcp = "listen" /\ tcp' = "wait"
              \/ tcp = "wait" /\ tcp' = "stream" /\ app # <<>>
              \/ tcp # "done" /\ tcp' = "done"
    BY ClientSide, CP!SocketSteps, ClientAssumptions DEF IInv, CP!IInv
  <2>3. CASE CP!WriteToApp
    BY <2>1, <2>3, WriteReceives DEF Service!Next
  <2>4. CASE app' = app /\ (tcp' = tcp \/ (tcp = "listen" /\ tcp' = "wait"))
    BY <2>1, <2>4 DEF Service!vars
  <2>5. CASE app' = app /\ tcp = "idle" /\ tcp' \in {"listen", "wait"}
    BY <2>1, <2>5 DEF Service!Next, Service!Pause
  <2>6. CASE app' = app /\ tcp = "wait" /\ tcp' = "stream" /\ app # <<>>
    BY <2>1, <2>6 DEF Service!Next, Service!Open
  <2>7. CASE app' = app /\ tcp # "done" /\ tcp' = "done"
    <3>1. tcp \in {"idle", "listen", "wait", "stream"}
      BY <2>7 DEF IInv, CP!IInv, CP!TypeOK
    <3> QED
      BY <2>1, <2>7, <3>1 DEF Service!Next, Service!Close
  <2> QED
    BY <2>2, <2>3, <2>4, <2>5, <2>6, <2>7
<1> QED
  BY <1>1, <1>2, OneSide

-----------------------------------------------------------------------------
(* The theorems *)

LEMMA TypesFollow == IInv => TypeOK
BY SameClient, SameProxy DEF IInv, CP!IInv, PP!IInv, NetTypeOK, TypeOK, Chunk

\* Both daemons and what is under way between them keep their types together.
THEOREM LineTypes == Spec => []TypeOK
BY TypesFollow, LineInvariance, PTL

\* run_dynamic_local_tcp_stream occupies a temporary listen only of an
\* incarnation whose upstream has answered, however the accepts, retirements,
\* second allocations and rejects of the line overtake each other.
THEOREM OnlyAnswered == Spec => []OccupiesAnswered
<1>1. IInv => OccupiesAnswered
  BY DEF IInv, NamesAnswered
<1> QED
  BY <1>1, LineInvariance, PTL

\* The line implements LineService: whatever the two daemons and the network
\* do, what the application sees are chunks read from an upstream, the frames
\* of each in order and none twice, and its own bytes wait for the first.
THEOREM ImplementsService == Spec => LineServed
<1>1. IInv /\ [Next]_vars => [Service!Next]_(Service!vars)
  BY StepsServed
<1> QED
  BY <1>1, StartsServed, LineInvariance, PTL DEF Spec, LineServed, Service!Spec
-----------------------------------------------------------------------------
(* The application's bytes: their inductive invariant                       *)

Rising(s) == \A i, j \in DOMAIN s : i < j => s[i] < s[j]
Below(S, T) == \A a \in S, b \in T : a < b

\* Where a chunk can be, the oldest first.
Arrived == Elements(upstream)
Queued == Elements(toUpstream)
OnWire == Elements(wire)
FirstBlob == IF spawned.first = 0 THEN {} ELSE {spawned.first}
InChannel == Elements(channel)
Kept == Elements(pending)

\* u arrived, q queued, w on the wire, f first blob, c in the channel, p kept.
Lined(u, q, w, f, c, p) ==
  /\ Below(u, q \cup w \cup f \cup c \cup p) /\ Below(q, w \cup f \cup c \cup p)
  /\ Below(w, f \cup c \cup p) /\ Below(f, c \cup p) /\ Below(c, p)

InPlace ==
  /\ Rising(upstream) /\ Rising(toUpstream) /\ Rising(wire)
  /\ Rising(channel) /\ Rising(pending)
  /\ Lined(Arrived, Queued, OnWire, FirstBlob, InChannel, Kept)
  /\ Arrived \subseteq 1 .. reads
  /\ Queued \cup OnWire \cup FirstBlob \cup InChannel \cup Kept \subseteq 2 .. reads

\* The TCP task asks for one occupation, whose first blob is resume, and sends
\* through one sender only; a channel nobody reads is empty.
OneSender ==
  /\ ~entry.tried => resume = 0 /\ mine = 0 /\ entry.pipe = 0 /\ spawned.pc = "off"
  /\ spawned.first \in {0, resume}
  /\ spawned.pc \in {"off", "up"} => spawned.first = 0
  /\ spawned.pc = "first" => spawned.first # 0
  /\ spawned.pc \in {"open", "first", "up"} => spawned.nr # 0
  /\ entry.pipe <= spawned.nr /\ mine <= spawned.nr
  /\ task = "wait" => mine = 0
  /\ task \in {"flush", "stream"} => mine # 0
  /\ task = "stream" => pending = <<>>
  /\ channel # <<>> => Bytes!Running(mine)
  /\ mine = 0 => OnWire \subseteq {resume}
  /\ proxy = "none" <=> upstream = <<>>
  /\ upstream # <<>> => 1 \in Arrived

\* Nothing is lost but what the run may lose while the sender works, and what
\* was lost is newer than everything that was sent on.
Accounted ==
  Arrived \cup Queued \cup OnWire \cup FirstBlob \cup InChannel \cup Kept
    \cup refused \cup {resume}

Lost == (2 .. reads) \ Accounted

\* The sender of the TCP task, if it has one, works.
Whole == mine = 0 \/ Bytes!Running(mine)

LostLast ==
  /\ Below(Arrived, Lost)
  /\ proxy # "gone" => Below(Queued \cup OnWire \cup FirstBlob \cup InChannel, Lost)
  /\ proxy # "gone" /\ Whole => Lost = {}

BytesInv == Bytes!TypeOK /\ InPlace /\ OneSender /\ LostLast

-----------------------------------------------------------------------------
(* Rising sequences                                                         *)

LEMMA RisingEmpty == Rising(<<>>) /\ Elements(<<>>) = {}
BY DEF Rising, Elements

LEMMA AppendElements ==
  ASSUME NEW S, NEW s \in Seq(S), NEW x \in S
  PROVE  Elements(Append(s, x)) = Elements(s) \cup {x}
<1> DEFINE a == Append(s, x)
<1>1. /\ DOMAIN a = 1 .. Len(s) + 1 /\ DOMAIN s = 1 .. Len(s) /\ Len(s) \in Nat
      /\ \A i \in DOMAIN s : i \in DOMAIN a /\ a[i] = s[i]
      /\ a[Len(s) + 1] = x
  BY AppendProperties, LenProperties
<1> HIDE DEF a
<1>2. Len(s) + 1 \in DOMAIN a /\ \A i \in DOMAIN a : i \in DOMAIN s \/ i = Len(s) + 1
  BY <1>1
<1> QED
  BY <1>1, <1>2 DEF Elements, a

LEMMA RisingAppend ==
  ASSUME NEW S, NEW s \in Seq(S), NEW x \in S, Rising(s), Below(Elements(s), {x})
  PROVE  Rising(Append(s, x)) /\ Elements(Append(s, x)) = Elements(s) \cup {x}
<1> DEFINE a == Append(s, x)
<1>1. /\ DOMAIN a = 1 .. Len(s) + 1 /\ DOMAIN s = 1 .. Len(s) /\ Len(s) \in Nat
      /\ \A i \in DOMAIN s : i \in DOMAIN a /\ a[i] = s[i]
      /\ a[Len(s) + 1] = x
  BY AppendProperties, LenProperties
<1> HIDE DEF a
<1>2. \A i \in DOMAIN a : i \in DOMAIN s \/ i = Len(s) + 1
  BY <1>1
<1>3. ASSUME NEW i \in DOMAIN a, NEW j \in DOMAIN a, i < j PROVE a[i] < a[j]
  <2>1. i \in DOMAIN s /\ a[i] = s[i]
    BY <1>1, <1>3
  <2>2. CASE j \in DOMAIN s
    BY <2>1, <2>2, <1>1, <1>3 DEF Rising
  <2>3. CASE j = Len(s) + 1
    BY <2>1, <2>3, <1>1 DEF Below, Elements
  <2> QED
    BY <2>2, <2>3, <1>2
<1> QED
  BY <1>3, AppendElements DEF Rising, a

LEMMA RisingTail ==
  ASSUME NEW S, NEW s \in Seq(S), s # <<>>, Rising(s)
  PROVE  /\ Rising(Tail(s)) /\ Elements(s) = {Head(s)} \cup Elements(Tail(s))
         /\ Below({Head(s)}, Elements(Tail(s)))
<1> DEFINE t == Tail(s)
<1>1. /\ Len(t) = Len(s) - 1 /\ Len(s) \in Nat /\ Len(s) > 0
      /\ DOMAIN s = 1 .. Len(s) /\ DOMAIN t = 1 .. Len(t)
      /\ \A k \in 1 .. Len(t) : t[k] = s[k + 1]
      /\ Head(s) = s[1]
  BY HeadTailProperties, LenProperties, EmptySeq
<1> HIDE DEF t
<1>2. /\ 1 \in DOMAIN s
      /\ \A i \in DOMAIN t : i + 1 \in DOMAIN s /\ t[i] = s[i + 1] /\ i \in Nat /\ i >= 1
      /\ \A i \in DOMAIN s : i = 1 \/ (i - 1 \in DOMAIN t /\ s[i] = t[i - 1])
  BY <1>1
<1>3. ASSUME NEW i \in DOMAIN t, NEW j \in DOMAIN t, i < j PROVE t[i] < t[j]
  <2>1. i + 1 < j + 1
    BY <1>2, <1>3
  <2> QED
    BY <1>2, <2>1 DEF Rising
<1>4. ASSUME NEW i \in DOMAIN t PROVE s[1] < t[i]
  <2>1. 1 < i + 1
    BY <1>2
  <2> QED
    BY <1>2, <2>1 DEF Rising
<1>5. Elements(s) = {Head(s)} \cup Elements(t)
  BY <1>1, <1>2 DEF Elements
<1> QED
  BY <1>1, <1>3, <1>4, <1>5 DEF Rising, Below, Elements, t

\* A prefix keeps the older elements.
LEMMA RisingPrefix ==
  ASSUME NEW S, NEW s \in Seq(S), Rising(s), NEW n \in 0 .. Len(s)
  PROVE  LET p == SubSeq(s, 1, n)
         IN  /\ p \in Seq(S) /\ Rising(p) /\ Elements(p) \subseteq Elements(s)
             /\ Below(Elements(p), Elements(s) \ Elements(p))
<1> DEFINE p == SubSeq(s, 1, n)
<1>1. /\ p \in Seq(S) /\ DOMAIN p = 1 .. n /\ DOMAIN s = 1 .. Len(s) /\ Len(s) \in Nat
      /\ \A i \in 1 .. n : p[i] = s[i]
  BY SubSeqProperties, LenProperties
<1> HIDE DEF p
<1>2. \A i \in DOMAIN p : i \in DOMAIN s /\ p[i] = s[i]
  BY <1>1
<1>3. ASSUME NEW i \in DOMAIN p, NEW j \in DOMAIN s, s[j] \notin Elements(p)
      PROVE  p[i] < s[j]
  <2>1. j \notin DOMAIN p
    BY <1>2, <1>3 DEF Elements
  <2>2. i < j
    BY <1>1, <2>1
  <2> QED
    BY <1>2, <2>2 DEF Rising
<1>4. Rising(p) /\ Elements(p) \subseteq Elements(s)
  BY <1>2 DEF Rising, Elements
<1>5. Below(Elements(p), Elements(s) \ Elements(p))
  BY <1>3 DEF Below, Elements
<1> QED
  BY <1>1, <1>4, <1>5 DEF p

LEMMA RisingConcat ==
  ASSUME NEW S, NEW s \in Seq(S), NEW t \in Seq(S),
         Rising(s), Rising(t), Below(Elements(s), Elements(t))
  PROVE  /\ s \o t \in Seq(S) /\ Rising(s \o t)
         /\ Elements(s \o t) = Elements(s) \cup Elements(t)
<1> DEFINE u == s \o t
<1>1. /\ u \in Seq(S) /\ Len(u) = Len(s) + Len(t)
      /\ \A i \in 1 .. Len(u) : u[i] = IF i <= Len(s) THEN s[i] ELSE t[i - Len(s)]
  BY ConcatProperties
<1>2. /\ DOMAIN u = 1 .. Len(u) /\ DOMAIN s = 1 .. Len(s) /\ DOMAIN t = 1 .. Len(t)
      /\ Len(s) \in Nat /\ Len(t) \in Nat
  BY <1>1, LenProperties
<1> HIDE DEF u
<1>3. \A i \in DOMAIN u : \/ i \in DOMAIN s /\ u[i] = s[i]
                          \/ i - Len(s) \in DOMAIN t /\ u[i] = t[i - Len(s)]
  BY <1>1, <1>2
<1>4. \A i \in DOMAIN s : i \in DOMAIN u /\ u[i] = s[i]
  BY <1>1, <1>2
<1>5. \A i \in DOMAIN t : i + Len(s) \in DOMAIN u /\ u[i + Len(s)] = t[i]
  BY <1>1, <1>2
<1>6. ASSUME NEW i \in DOMAIN u, NEW j \in DOMAIN u, i < j PROVE u[i] < u[j]
  <2>1. CASE i \in DOMAIN s /\ j \in DOMAIN s
    BY <2>1, <1>4, <1>6 DEF Rising
  <2>2. CASE i \in DOMAIN s /\ j \notin DOMAIN s
    BY <2>2, <1>3, <1>4 DEF Below, Elements
  <2>3. CASE i \notin DOMAIN s
    <3>1. /\ i - Len(s) \in DOMAIN t /\ u[i] = t[i - Len(s)]
          /\ j - Len(s) \in DOMAIN t /\ u[j] = t[j - Len(s)]
      BY <2>3, <1>2, <1>3, <1>6
    <3>2. i - Len(s) < j - Len(s)
      BY <1>2, <1>6
    <3> QED
      BY <3>1, <3>2 DEF Rising
  <2> QED
    BY <2>1, <2>2, <2>3
<1>7. Elements(u) = Elements(s) \cup Elements(t)
  BY <1>3, <1>4, <1>5 DEF Elements
<1> QED
  BY <1>1, <1>6, <1>7 DEF Rising, u

-----------------------------------------------------------------------------
(* The application's bytes: each step keeps the invariant                   *)

LEMMA Bounds ==
  /\ MaxReads \in Nat /\ MaxReads >= 1 /\ MaxPipes \in Nat /\ MaxPipes >= 1
  /\ Entries \in Nat /\ Entries >= 1 /\ ProxyCap \in Nat /\ ProxyCap >= 1
BY MCBytes DEF Bytes!BytesAssumption

LEMMA BytesInit == Bytes!Init => BytesInv
<1> SUFFICES ASSUME Bytes!Init PROVE BytesInv
  OBVIOUS
<1> USE DEF Bytes!Init
<1>1. Bytes!TypeOK
  <2>1. eof \in BOOLEAN
    OBVIOUS
  <2>2. reads \in Bytes!Chunk /\ Len(toUpstream) <= ProxyCap
    BY Bounds DEF Bytes!Chunk
  <2>3. entry \in [status : {"waiting", "attached", "gone"}, pipe : Bytes!Pipe \cup {0},
                   tried : BOOLEAN]
    OBVIOUS
  <2>4. spawned \in [pc : {"off", "start", "open", "first", "up", "pause", "end"},
                     nr : Bytes!Pipe \cup {0}, left : 0 .. Entries,
                     first : Bytes!Chunk \cup {0}]
    BY Bounds
  <2>5. <<>> \in Seq(Bytes!Chunk)
    OBVIOUS
  <2> QED
    BY <2>1, <2>2, <2>3, <2>4, <2>5 DEF Bytes!TypeOK
<1>2. InPlace
  BY RisingEmpty DEF InPlace, Lined, Below, Arrived, Queued, OnWire, FirstBlob, InChannel, Kept
<1>3. OneSender
  BY RisingEmpty DEF OneSender, OnWire
<1>4. LostLast
  BY RisingEmpty DEF LostLast, Lost, Below, Arrived, Queued, OnWire, FirstBlob, InChannel
<1> QED
  BY <1>1, <1>2, <1>3, <1>4 DEF BytesInv

\* What is on the wire stays typed when its end is lost.
LEMMA PrefixTyped ==
  ASSUME NEW S, NEW s \in Seq(S), NEW n \in 0 .. Len(s) PROVE SubSeq(s, 1, n) \in Seq(S)
BY SubSeqProperties

LEMMA TakeOne ==
  ASSUME NEW S, NEW s \in Seq(S), s # <<>> PROVE Head(s) \in S /\ Tail(s) \in Seq(S)
BY HeadTailProperties

\* A step that moves no chunk on: it may lose some.
Losing ==
  /\ UNCHANGED <<upstream, pending, resume, refused>>
  /\ reads' = reads \/ (reads < MaxReads /\ reads' = reads + 1)
  /\ toUpstream' = toUpstream \/ (toUpstream' = <<>> /\ proxy' = "gone")
  /\ wire' = wire \/ (Bytes!LoseTail /\ spawned.pc = "up" /\ channel' = <<>>)
  /\ channel' = channel \/ channel' = <<>>
  /\ spawned'.first = spawned.first \/ spawned'.first = 0
  /\ Whole' => Whole /\ reads' = reads /\ channel' = channel /\ (wire' = wire \/ mine = 0)
  /\ proxy = "gone" => proxy' = "gone"

Sends == Bytes!SendChunk /\ Bytes!CanSend

LEMMA BytesSteps ==
  ASSUME BytesInv, [Bytes!Next]_(Bytes!vars)
  PROVE  \/ Losing \/ Bytes!BufferChunk \/ Bytes!WaitOccupy \/ Bytes!FlushPending \/ Sends
         \/ Bytes!WriteFirst \/ Bytes!WriteFrame \/ Bytes!ProxyHandshake
         \/ Bytes!FrameArrives \/ Bytes!WriteUpstream
<1>1. spawned = [pc |-> spawned.pc, nr |-> spawned.nr, left |-> spawned.left,
                 first |-> spawned.first]
  BY DEF BytesInv, Bytes!TypeOK
<1>0. OneSender /\ mine \in Nat /\ spawned.nr \in Nat
  BY DEF BytesInv, Bytes!TypeOK, Bytes!Pipe
<1> USE <1>0 DEF Bytes!tcpVars, Bytes!proxyVars, Losing, Whole, Bytes!Running, OneSender,
                 Bytes!CanSend
<1>2. CASE UNCHANGED Bytes!vars
  BY <1>2 DEF Bytes!vars
<1>3. CASE Bytes!TcpTask
  BY <1>3 DEF Bytes!TcpTask, Bytes!WriteResponse, Bytes!WaitPipeUp, Bytes!WaitGivesUp,
              Bytes!FlushFails, Bytes!FlushDone
<1>4. CASE Bytes!Application
  BY <1>4 DEF Bytes!Application, Bytes!EofInWait, Bytes!SendChunk, Bytes!EofInStream,
              Bytes!CloseLine, Sends
<1>5. CASE Bytes!OccupyTask
  <2>1. CASE Bytes!PipeStarts
    <3>1. channel = <<>> /\ channel' = channel /\ mine' = mine /\ reads' = reads
          /\ wire' = wire
      BY <2>1 DEF Bytes!PipeStarts
    <3>2. spawned'.first = spawned.first
      BY <1>1, <2>1 DEF Bytes!PipeStarts
    <3>3. spawned'.pc = "end" \/ spawned'.nr = spawned.nr + 1
      BY <1>1, <2>1 DEF Bytes!PipeStarts
    <3>4. Whole' => Whole
      BY <3>1, <3>3
    <3> QED
      BY <2>1, <3>1, <3>2, <3>4 DEF Bytes!PipeStarts
  <2>2. CASE Bytes!PipeCancelled
    BY <1>1, <2>2 DEF Bytes!PipeCancelled, Bytes!PipeReturns
  <2>3. CASE Bytes!PipeOpens
    BY <1>1, <2>3 DEF Bytes!PipeOpens
  <2>4. CASE Bytes!PipeRetries
    BY <1>1, <2>4 DEF Bytes!PipeRetries
  <2> QED
    BY <1>5, <2>1, <2>2, <2>3, <2>4 DEF Bytes!OccupyTask
<1>6. CASE Bytes!DeliverAccept
  BY <1>6 DEF Bytes!DeliverAccept
<1>7. CASE Bytes!ProxyTask
  BY <1>7 DEF Bytes!ProxyTask, Bytes!ProxyStreams
<1>8. CASE Bytes!Fault
  <2>1. CASE Bytes!EntryFails
    <3>1. spawned'.first = spawned.first \/ spawned'.first = 0
      BY <1>1, <2>1 DEF Bytes!EntryFails, Bytes!PipeFails
    <3>2. spawned'.nr = spawned.nr /\ (channel' = channel \/ spawned'.pc = "end")
      BY <1>1, <2>1 DEF Bytes!EntryFails, Bytes!PipeFails
    <3>3. mine' = mine /\ spawned.pc \in {"open", "first"} /\ channel' \in {channel, <<>>}
      BY <2>1 DEF Bytes!EntryFails, Bytes!PipeFails
    <3>4. Whole' => Whole /\ channel' = channel
      BY <3>2, <3>3
    <3> QED
      BY <2>1, <3>1, <3>3, <3>4 DEF Bytes!EntryFails
  <2>2. CASE Bytes!PipeBreaks
    BY <1>1, <2>2 DEF Bytes!PipeBreaks, Bytes!PipeFails
  <2>3. CASE Bytes!PipeCloses
    BY <1>1, <2>3 DEF Bytes!PipeCloses, Bytes!PipeReturns
  <2>4. CASE Bytes!HeartbeatStops
    BY <1>1, <2>4 DEF Bytes!HeartbeatStops, Bytes!PipeReturns
  <2> QED
    BY <1>8, <2>1, <2>2, <2>3, <2>4
       DEF Bytes!Fault, Bytes!WaitIoError, Bytes!WaitTimeout, Bytes!StreamIoError,
           Bytes!CloseLine, Bytes!DeliverReject, Bytes!ListenIdle, Bytes!ProxyRetires
<1> QED
  BY <1>2, <1>3, <1>4, <1>5, <1>6, <1>7, <1>8 DEF Bytes!Next, Bytes!Calm

Places ==
  /\ pending \in Seq(Bytes!Chunk) /\ channel \in Seq(Bytes!Chunk)
  /\ wire \in Seq(Bytes!Chunk) /\ toUpstream \in Seq(Bytes!Chunk)
  /\ upstream \in Seq(Bytes!Chunk)

LEMMA ByteFacts ==
  ASSUME BytesInv
  PROVE  /\ Places /\ reads \in Bytes!Chunk /\ reads \in Nat /\ 1 \in Bytes!Chunk
         /\ reads < MaxReads => reads + 1 \in Bytes!Chunk
         /\ InPlace /\ OneSender /\ LostLast
         /\ spawned.first \in Bytes!Chunk \cup {0} /\ resume \in Bytes!Chunk \cup {0}
         /\ mine \in Nat /\ spawned.nr \in Nat /\ entry.pipe \in Nat
         /\ Bytes!Chunk \subseteq Nat
BY Bounds DEF BytesInv, Bytes!TypeOK, Places, Bytes!Chunk, Bytes!Pipe

LEMMA LinedLess ==
  ASSUME NEW u, NEW q, NEW w, NEW f, NEW c, NEW p, Lined(u, q, w, f, c, p),
         NEW q1 \in SUBSET q, NEW w1 \in SUBSET w, NEW f1 \in SUBSET f, NEW c1 \in SUBSET c
  PROVE  Lined(u, q1, w1, f1, c1, p)
BY DEF Lined, Below

\* A step that loses no chunk but those the run may lose.
Moving ==
  /\ Accounted \cap (2 .. reads) \subseteq Accounted'
  /\ reads' = reads \/ (reads' = reads + 1 /\ reads + 1 \in Accounted')
  /\ Arrived' \subseteq Arrived
       \/ (proxy # "gone" /\ Arrived' \subseteq Arrived \cup Queued \cup {1})
  /\ Queued' \cup OnWire' \cup FirstBlob' \cup InChannel'
       \subseteq Queued \cup OnWire \cup FirstBlob \cup InChannel \/ Whole

LEMMA MovingSender ==
  ASSUME BytesInv,
         \/ Bytes!BufferChunk \/ Bytes!WaitOccupy \/ Bytes!FlushPending \/ Sends
         \/ Bytes!WriteFirst \/ Bytes!WriteFrame \/ Bytes!ProxyHandshake
         \/ Bytes!FrameArrives \/ Bytes!WriteUpstream
  PROVE  /\ Whole' => Whole
         /\ proxy = "gone" => proxy' = "gone"
         /\ Bytes!WaitOccupy \/ Bytes!FlushPending \/ Sends => Whole
<1>1. OneSender /\ spawned = [pc |-> spawned.pc, nr |-> spawned.nr, left |-> spawned.left,
                              first |-> spawned.first]
  BY DEF BytesInv, Bytes!TypeOK
<1> QED
  BY <1>1
     DEF Whole, OneSender, Bytes!Running, Bytes!CanSend, Sends, Bytes!BufferChunk,
         Bytes!WaitOccupy, Bytes!FlushPending, Bytes!SendChunk, Bytes!WriteFirst,
         Bytes!WriteFrame, Bytes!ProxyHandshake, Bytes!FrameArrives, Bytes!WriteUpstream,
         Bytes!tcpVars, Bytes!proxyVars

\* Each chunk moves to the end of the next place.
LEMMA InPlaceNext ==
  ASSUME BytesInv, [Bytes!Next]_(Bytes!vars) PROVE InPlace' /\ Places' /\ (Losing \/ Moving)
<1>a. /\ pending \in Seq(Bytes!Chunk) /\ channel \in Seq(Bytes!Chunk)
      /\ wire \in Seq(Bytes!Chunk) /\ toUpstream \in Seq(Bytes!Chunk)
      /\ upstream \in Seq(Bytes!Chunk)
  BY ByteFacts DEF Places
<1>b. /\ Rising(upstream) /\ Rising(toUpstream) /\ Rising(wire)
      /\ Rising(channel) /\ Rising(pending)
      /\ Lined(Arrived, Queued, OnWire, FirstBlob, InChannel, Kept)
      /\ Arrived \subseteq 1 .. reads
      /\ Queued \cup OnWire \cup FirstBlob \cup InChannel \cup Kept \subseteq 2 .. reads
  BY ByteFacts DEF InPlace
<1>c. reads \in Nat /\ reads >= 1
  BY ByteFacts DEF Bytes!Chunk
<1>d. ASSUME reads' = reads \/ reads' = reads + 1
      PROVE  reads' \in Nat /\ 1 .. reads \subseteq 1 .. reads' /\ 2 .. reads \subseteq 2 .. reads'
  BY <1>c, <1>d
<1>e. ASSUME reads' = reads + 1
      PROVE  /\ reads' \in 2 .. reads' /\ \A n \in 1 .. reads : n < reads'
             /\ \A n \in 2 .. reads : n < reads'
  BY <1>c, <1>e
<1>1. CASE Losing
  <2>1. upstream' = upstream /\ pending' = pending /\ Arrived' = Arrived /\ Kept' = Kept
    BY <1>1 DEF Losing, Arrived, Kept
  <2>2. /\ toUpstream' \in Seq(Bytes!Chunk) /\ Rising(toUpstream') /\ Queued' \subseteq Queued
        /\ channel' \in Seq(Bytes!Chunk) /\ Rising(channel') /\ InChannel' \subseteq InChannel
    <3>1. \A s \in Seq(Bytes!Chunk) : <<>> \in Seq(Bytes!Chunk) /\ Elements(<<>>) \subseteq Elements(s)
      BY RisingEmpty
    <3>2. /\ toUpstream' = toUpstream \/ toUpstream' = <<>>
          /\ channel' = channel \/ channel' = <<>>
      BY <1>1 DEF Losing
    <3>3. toUpstream' \in Seq(Bytes!Chunk) /\ Rising(toUpstream') /\ Queued' \subseteq Queued
      BY <1>a, <1>b, <3>1, <3>2, RisingEmpty DEF Queued
    <3>4. channel' \in Seq(Bytes!Chunk) /\ Rising(channel') /\ InChannel' \subseteq InChannel
      BY <1>a, <1>b, <3>1, <3>2, RisingEmpty DEF InChannel
    <3> QED
      BY <3>3, <3>4
  <2>3. wire' \in Seq(Bytes!Chunk) /\ Rising(wire') /\ OnWire' \subseteq OnWire
    BY <1>1, <1>a, <1>b, RisingPrefix DEF Losing, OnWire, Bytes!LoseTail
  <2>4. FirstBlob' \subseteq FirstBlob
    BY <1>1 DEF Losing, FirstBlob
  <2>5. Lined(Arrived, Queued, OnWire, FirstBlob, InChannel, Kept)'
    BY <1>b, <2>1, <2>2, <2>3, <2>4, LinedLess
  <2>6. /\ 1 .. reads \subseteq 1 .. reads' /\ 2 .. reads \subseteq 2 .. reads'
    BY <1>1, <1>d DEF Losing
  <2> QED
    BY <1>1, <1>a, <1>b, <2>1, <2>2, <2>3, <2>4, <2>5, <2>6 DEF InPlace, Places
<1>2. CASE Bytes!BufferChunk
  <2>1. /\ UNCHANGED <<upstream, toUpstream, wire, channel>> /\ spawned' = spawned
        /\ pending' = Append(pending, reads + 1) /\ reads' = reads + 1
        /\ reads + 1 \in Bytes!Chunk
    BY <1>2, ByteFacts DEF Bytes!BufferChunk, Bytes!proxyVars
  <2>2. UNCHANGED <<Arrived, Queued, OnWire, FirstBlob, InChannel>>
    BY <2>1 DEF Arrived, Queued, OnWire, FirstBlob, InChannel
  <2>3. \A n \in Arrived \cup Queued \cup OnWire \cup FirstBlob \cup InChannel \cup Kept :
          n < reads + 1
    BY <1>b, <1>e, <2>1
  <2>4. Rising(pending') /\ Kept' = Kept \cup {reads + 1} /\ pending' \in Seq(Bytes!Chunk)
    BY <1>a, <1>b, <2>1, <2>3, RisingAppend, AppendProperties DEF Kept, Below
  <2>5. Lined(Arrived, Queued, OnWire, FirstBlob, InChannel, Kept)'
    BY <1>b, <2>2, <2>3, <2>4 DEF Lined, Below
  <2>6. /\ 1 .. reads \subseteq 1 .. reads' /\ 2 .. reads \subseteq 2 .. reads'
        /\ reads + 1 \in 2 .. reads'
    BY <1>d, <1>e, <2>1
  <2>7. refused' = refused /\ resume' = resume
    BY <1>2 DEF Bytes!BufferChunk, Bytes!proxyVars
  <2>m. Moving
    BY <2>1, <2>2, <2>4, <2>7 DEF Moving, Accounted
  <2> QED
    BY <2>m, <1>a, <1>b, <2>1, <2>2, <2>4, <2>5, <2>6 DEF InPlace, Places
<1>3. CASE Bytes!WaitOccupy
  <2>1. /\ UNCHANGED <<upstream, toUpstream, wire, channel, reads>>
        /\ pending' = Bytes!TakePending(pending)
        /\ resume' = IF pending = <<>> THEN 0 ELSE Head(pending)
        /\ spawned'.first \in {spawned.first, resume'}
        /\ ~entry.tried
    <3>1. spawned = [pc |-> spawned.pc, nr |-> spawned.nr, left |-> spawned.left,
                     first |-> spawned.first]
      BY DEF BytesInv, Bytes!TypeOK
    <3> QED
      BY <1>3, <3>1 DEF Bytes!WaitOccupy, Bytes!proxyVars
  <2>2. spawned.first = 0 /\ channel = <<>>
    BY <2>1, ByteFacts DEF OneSender, Bytes!Running
  <2>3. UNCHANGED <<Arrived, Queued, OnWire, InChannel>>
    BY <2>1 DEF Arrived, Queued, OnWire, InChannel
  <2>4. InChannel = {} /\ FirstBlob = {}
    BY <2>2, RisingEmpty DEF InChannel, FirstBlob
  <2>7. refused' = refused /\ resume = 0 /\ Whole
    BY <1>3, <2>1, ByteFacts, MovingSender
       DEF Bytes!WaitOccupy, Bytes!proxyVars, OneSender
  <2>5. CASE pending = <<>>
    <3>1. pending' = pending /\ FirstBlob' = {}
      BY <2>1, <2>2, <2>5 DEF Bytes!TakePending, FirstBlob
    <3>2. Kept' = Kept
      BY <3>1 DEF Kept
    <3>3. Moving
      BY <2>1, <2>3, <2>4, <2>7, <3>1, <3>2 DEF Moving, Accounted
    <3> QED
      BY <1>a, <1>b, <2>1, <2>3, <2>4, <3>1, <3>2, <3>3 DEF InPlace, Places
  <2>6. CASE pending # <<>>
    <3>1. pending' = Tail(pending) /\ FirstBlob' \subseteq {Head(pending)}
      BY <2>1, <2>2, <2>6 DEF Bytes!TakePending, FirstBlob
    <3>2. /\ Rising(pending') /\ Kept = {Head(pending)} \cup Kept'
          /\ Below({Head(pending)}, Kept') /\ pending' \in Seq(Bytes!Chunk)
      BY <1>a, <1>b, <2>6, <3>1, RisingTail, TakeOne DEF Kept
    <3>3. Lined(Arrived, Queued, OnWire, FirstBlob, InChannel, Kept)'
      BY <1>b, <2>3, <2>4, <3>1, <3>2 DEF Lined, Below
    <3>4. resume' = Head(pending)
      BY <2>1, <2>6
    <3>5. Moving
      BY <2>1, <2>3, <2>4, <2>7, <3>2, <3>4 DEF Moving, Accounted
    <3> QED
      BY <1>a, <1>b, <2>1, <2>3, <2>4, <3>1, <3>2, <3>3, <3>5 DEF InPlace, Places
  <2> QED
    BY <2>5, <2>6
<1>4. CASE Bytes!FlushPending
  <2> DEFINE h == Head(pending)
  <2>1. /\ UNCHANGED <<upstream, toUpstream, wire, reads>> /\ spawned' = spawned
        /\ pending # <<>> /\ channel' = Append(channel, h) /\ pending' = Tail(pending)
    BY <1>4 DEF Bytes!FlushPending, Bytes!proxyVars
  <2>2. UNCHANGED <<Arrived, Queued, OnWire, FirstBlob>>
    BY <2>1 DEF Arrived, Queued, OnWire, FirstBlob
  <2>3. /\ Rising(pending') /\ Kept = {h} \cup Kept' /\ Below({h}, Kept')
        /\ pending' \in Seq(Bytes!Chunk) /\ h \in Bytes!Chunk
    BY <1>a, <1>b, <2>1, RisingTail, TakeOne DEF Kept
  <2> HIDE DEF h
  <2>4. Below(Elements(channel), {h})
    BY <1>b, <2>3 DEF Lined, Below, InChannel
  <2>5. Rising(channel') /\ InChannel' = InChannel \cup {h} /\ channel' \in Seq(Bytes!Chunk)
    BY <1>a, <1>b, <2>1, <2>3, <2>4, RisingAppend, AppendProperties DEF InChannel
  <2>6. Lined(Arrived, Queued, OnWire, FirstBlob, InChannel, Kept)'
    BY <1>b, <2>2, <2>3, <2>5 DEF Lined, Below
  <2>7. refused' = refused /\ resume' = resume /\ Whole
    BY <1>4, MovingSender DEF Bytes!FlushPending, Bytes!proxyVars
  <2>m. Moving
    BY <2>1, <2>2, <2>3, <2>5, <2>7 DEF Moving, Accounted
  <2> QED
    BY <2>m, <1>a, <1>b, <2>1, <2>2, <2>3, <2>5, <2>6 DEF InPlace, Places
<1>5. CASE Sends
  <2>1. /\ UNCHANGED <<upstream, toUpstream, wire, pending>> /\ spawned' = spawned
        /\ channel' = Append(channel, reads + 1) /\ reads' = reads + 1
        /\ reads + 1 \in Bytes!Chunk /\ pending = <<>>
    BY <1>5, ByteFacts DEF Sends, Bytes!SendChunk, Bytes!proxyVars, OneSender
  <2>2. UNCHANGED <<Arrived, Queued, OnWire, FirstBlob, Kept>> /\ Kept = {}
    BY <2>1, RisingEmpty DEF Arrived, Queued, OnWire, FirstBlob, Kept
  <2>3. \A n \in Arrived \cup Queued \cup OnWire \cup FirstBlob \cup InChannel : n < reads + 1
    BY <1>b, <1>e, <2>1
  <2>4. /\ Rising(channel') /\ InChannel' = InChannel \cup {reads + 1}
        /\ channel' \in Seq(Bytes!Chunk)
    BY <1>a, <1>b, <2>1, <2>3, RisingAppend, AppendProperties DEF InChannel, Below
  <2>5. Lined(Arrived, Queued, OnWire, FirstBlob, InChannel, Kept)'
    BY <1>b, <2>2, <2>3, <2>4 DEF Lined, Below
  <2>6. /\ 1 .. reads \subseteq 1 .. reads' /\ 2 .. reads \subseteq 2 .. reads'
        /\ reads + 1 \in 2 .. reads'
    BY <1>d, <1>e, <2>1
  <2>7. refused' = refused /\ resume' = resume /\ Whole
    BY <1>5, MovingSender DEF Sends, Bytes!SendChunk, Bytes!proxyVars
  <2>m. Moving
    BY <2>1, <2>2, <2>4, <2>7 DEF Moving, Accounted
  <2> QED
    BY <2>m, <1>a, <1>b, <2>1, <2>2, <2>4, <2>5, <2>6 DEF InPlace, Places
<1>6. CASE Bytes!WriteFirst
  <2> DEFINE h == spawned.first
  <2>1. /\ UNCHANGED <<upstream, toUpstream, channel, pending, reads>> /\ spawned'.first = 0
        /\ wire' = Append(wire, h)
    <3>1. spawned = [pc |-> spawned.pc, nr |-> spawned.nr, left |-> spawned.left,
                     first |-> spawned.first]
      BY DEF BytesInv, Bytes!TypeOK
    <3> QED
      BY <1>6, <3>1 DEF Bytes!WriteFirst, Bytes!proxyVars, Bytes!tcpVars
  <2>2. UNCHANGED <<Arrived, Queued, InChannel, Kept>> /\ FirstBlob' = {}
    BY <2>1 DEF Arrived, Queued, InChannel, Kept, FirstBlob
  <2>3. FirstBlob = {h} /\ h \in Bytes!Chunk
    BY <1>6, ByteFacts DEF Bytes!WriteFirst, OneSender, FirstBlob
  <2> HIDE DEF h
  <2>4. Below(Elements(wire), {h})
    BY <1>b, <2>3 DEF Lined, Below, OnWire
  <2>5. Rising(wire') /\ OnWire' = OnWire \cup {h} /\ wire' \in Seq(Bytes!Chunk)
    BY <1>a, <1>b, <2>1, <2>3, <2>4, RisingAppend, AppendProperties DEF OnWire
  <2>6. Lined(Arrived, Queued, OnWire, FirstBlob, InChannel, Kept)'
    BY <1>b, <2>2, <2>3, <2>5 DEF Lined, Below
  <2>7. refused' = refused /\ resume' = resume
    BY <1>6 DEF Bytes!WriteFirst, Bytes!proxyVars, Bytes!tcpVars
  <2>m. Moving
    BY <2>1, <2>2, <2>3, <2>5, <2>7 DEF Moving, Accounted
  <2> QED
    BY <2>m, <1>a, <1>b, <2>1, <2>2, <2>3, <2>5, <2>6 DEF InPlace, Places
<1>7. CASE Bytes!WriteFrame
  <2> DEFINE h == Head(channel)
  <2>1. /\ UNCHANGED <<upstream, toUpstream, pending, reads>> /\ spawned' = spawned
        /\ channel # <<>> /\ wire' = Append(wire, h) /\ channel' = Tail(channel)
        /\ spawned.pc = "up"
    BY <1>7 DEF Bytes!WriteFrame, Bytes!proxyVars, Bytes!tcpVars
  <2>2. UNCHANGED <<Arrived, Queued, FirstBlob, Kept>> /\ FirstBlob = {}
    BY <2>1, ByteFacts DEF Arrived, Queued, FirstBlob, Kept, OneSender
  <2>3. /\ Rising(channel') /\ InChannel = {h} \cup InChannel' /\ Below({h}, InChannel')
        /\ channel' \in Seq(Bytes!Chunk) /\ h \in Bytes!Chunk
    BY <1>a, <1>b, <2>1, RisingTail, TakeOne DEF InChannel
  <2> HIDE DEF h
  <2>4. Below(Elements(wire), {h})
    BY <1>b, <2>3 DEF Lined, Below, OnWire
  <2>5. Rising(wire') /\ OnWire' = OnWire \cup {h} /\ wire' \in Seq(Bytes!Chunk)
    BY <1>a, <1>b, <2>1, <2>3, <2>4, RisingAppend, AppendProperties DEF OnWire
  <2>6. Lined(Arrived, Queued, OnWire, FirstBlob, InChannel, Kept)'
    BY <1>b, <2>2, <2>3, <2>5 DEF Lined, Below
  <2>7. refused' = refused /\ resume' = resume
    BY <1>7 DEF Bytes!WriteFrame, Bytes!proxyVars, Bytes!tcpVars
  <2>m. Moving
    BY <2>1, <2>2, <2>3, <2>5, <2>7 DEF Moving, Accounted
  <2> QED
    BY <2>m, <1>a, <1>b, <2>1, <2>2, <2>3, <2>5, <2>6 DEF InPlace, Places
<1>8. CASE Bytes!ProxyHandshake
  <2>1. /\ UNCHANGED <<toUpstream, wire, channel, pending, reads>> /\ spawned' = spawned
        /\ upstream = <<>> /\ upstream' = <<1>>
    BY <1>8, ByteFacts DEF Bytes!ProxyHandshake, Bytes!tcpVars, OneSender
  <2>2. UNCHANGED <<Queued, OnWire, FirstBlob, InChannel, Kept>>
    BY <2>1 DEF Queued, OnWire, FirstBlob, InChannel, Kept
  <2>3. Rising(upstream') /\ Arrived' = {1} /\ upstream' \in Seq(Bytes!Chunk)
    BY <2>1, ByteFacts DEF Rising, Arrived, Elements
  <2>4. \A n \in 2 .. reads : 1 < n
    BY <1>c
  <2>5. Lined(Arrived, Queued, OnWire, FirstBlob, InChannel, Kept)'
    BY <1>b, <2>2, <2>3, <2>4 DEF Lined, Below
  <2>6. 1 \in 1 .. reads
    BY <1>c
  <2>7. refused' = refused /\ resume' = resume /\ proxy = "none" /\ Arrived = {}
    BY <1>8, <2>1, RisingEmpty DEF Bytes!ProxyHandshake, Bytes!tcpVars, Arrived
  <2>m. Moving
    BY <2>1, <2>2, <2>3, <2>7 DEF Moving, Accounted
  <2> QED
    BY <2>m, <1>a, <1>b, <2>1, <2>2, <2>3, <2>5, <2>6 DEF InPlace, Places
<1>9. CASE Bytes!FrameArrives
  <2> DEFINE h == Head(wire)
  <2>1. /\ UNCHANGED <<upstream, channel, pending, reads>> /\ spawned' = spawned
        /\ wire # <<>> /\ wire' = Tail(wire)
        /\ toUpstream' \in {toUpstream, Append(toUpstream, h)}
    BY <1>9 DEF Bytes!FrameArrives, Bytes!tcpVars
  <2>2. UNCHANGED <<Arrived, FirstBlob, InChannel, Kept>>
    BY <2>1 DEF Arrived, FirstBlob, InChannel, Kept
  <2>3. /\ Rising(wire') /\ OnWire = {h} \cup OnWire' /\ Below({h}, OnWire')
        /\ wire' \in Seq(Bytes!Chunk) /\ h \in Bytes!Chunk
    BY <1>a, <1>b, <2>1, RisingTail, TakeOne DEF OnWire
  <2> HIDE DEF h
  <2>4. Below(Elements(toUpstream), {h})
    BY <1>b, <2>3 DEF Lined, Below, Queued
  <2>5. /\ Rising(toUpstream') /\ toUpstream' \in Seq(Bytes!Chunk)
        /\ Queued' = Queued \/ Queued' = Queued \cup {h}
    <3>1. CASE toUpstream' = toUpstream
      BY <1>a, <1>b, <3>1 DEF Queued
    <3>2. CASE toUpstream' = Append(toUpstream, h)
      BY <1>a, <1>b, <2>3, <2>4, <3>2, RisingAppend, AppendProperties DEF Queued
    <3> QED
      BY <2>1, <3>1, <3>2
  <2>6. Lined(Arrived, Queued, OnWire, FirstBlob, InChannel, Kept)'
    BY <1>b, <2>2, <2>3, <2>5 DEF Lined, Below
  <2>7. /\ resume' = resume
        /\ \/ toUpstream' = Append(toUpstream, Head(wire)) /\ refused' = refused
           \/ toUpstream' = toUpstream /\ refused' = refused \cup {h}
    BY <1>9 DEF Bytes!FrameArrives, Bytes!tcpVars, h
  <2>8. \/ Queued' = Queued \cup {h} /\ refused' = refused
        \/ Queued' = Queued /\ refused' = refused \cup {h}
    <3>1. CASE toUpstream' = Append(toUpstream, h) /\ refused' = refused
      <4>1. Elements(toUpstream') = Elements(toUpstream) \cup {h}
        BY <1>a, <2>3, <3>1, AppendElements
      <4> QED
        BY <3>1, <4>1 DEF Queued
    <3>2. CASE toUpstream' = toUpstream /\ refused' = refused \cup {h}
      BY <3>2 DEF Queued
    <3> QED
      BY <2>7, <3>1, <3>2 DEF h
  <2>m. Moving
    BY <2>1, <2>2, <2>3, <2>7, <2>8 DEF Moving, Accounted
  <2> QED
    BY <2>m, <1>a, <1>b, <2>1, <2>2, <2>3, <2>5, <2>6 DEF InPlace, Places
<1>10. CASE Bytes!WriteUpstream
  <2> DEFINE h == Head(toUpstream)
  <2>1. /\ UNCHANGED <<wire, channel, pending, reads>> /\ spawned' = spawned
        /\ toUpstream # <<>> /\ toUpstream' = Tail(toUpstream)
        /\ upstream' = Append(upstream, h)
    BY <1>10 DEF Bytes!WriteUpstream, Bytes!tcpVars
  <2>2. UNCHANGED <<OnWire, FirstBlob, InChannel, Kept>>
    BY <2>1 DEF OnWire, FirstBlob, InChannel, Kept
  <2>3. /\ Rising(toUpstream') /\ Queued = {h} \cup Queued' /\ Below({h}, Queued')
        /\ toUpstream' \in Seq(Bytes!Chunk) /\ h \in Bytes!Chunk
    BY <1>a, <1>b, <2>1, RisingTail, TakeOne DEF Queued
  <2> HIDE DEF h
  <2>4. Below(Elements(upstream), {h})
    BY <1>b, <2>3 DEF Lined, Below, Arrived
  <2>5. Rising(upstream') /\ Arrived' = Arrived \cup {h} /\ upstream' \in Seq(Bytes!Chunk)
    BY <1>a, <1>b, <2>1, <2>3, <2>4, RisingAppend, AppendProperties DEF Arrived
  <2>6. Lined(Arrived, Queued, OnWire, FirstBlob, InChannel, Kept)'
    BY <1>b, <2>2, <2>3, <2>5 DEF Lined, Below
  <2>7. h \in 1 .. reads
    BY <1>b, <1>c, <2>3
  <2>8. refused' = refused /\ resume' = resume /\ proxy = "draining"
    BY <1>10 DEF Bytes!WriteUpstream, Bytes!tcpVars
  <2>m. Moving
    BY <2>1, <2>2, <2>3, <2>5, <2>8 DEF Moving, Accounted
  <2> QED
    BY <2>m, <1>a, <1>b, <2>1, <2>2, <2>3, <2>5, <2>6, <2>7 DEF InPlace, Places
<1> QED
  BY <1>1, <1>2, <1>3, <1>4, <1>5, <1>6, <1>7, <1>8, <1>9, <1>10, BytesSteps

LEMMA OneSenderNext == ASSUME BytesInv, [Bytes!Next]_(Bytes!vars) PROVE OneSender'
<1>a. /\ OneSender /\ mine \in Nat /\ spawned.nr \in Nat /\ entry.pipe \in Nat
      /\ spawned = [pc |-> spawned.pc, nr |-> spawned.nr, left |-> spawned.left,
                    first |-> spawned.first]
      /\ entry = [status |-> entry.status, pipe |-> entry.pipe, tried |-> entry.tried]
      /\ task \in {"wait", "flush", "stream", "done"}
  BY ByteFacts DEF BytesInv, Bytes!TypeOK
<1>b. OnWire \subseteq 2 .. reads /\ wire \in Seq(Bytes!Chunk)
  BY ByteFacts DEF InPlace, Places
<1> USE DEF Bytes!Next, Bytes!Calm, Bytes!TcpTask, Bytes!Application, Bytes!OccupyTask,
            Bytes!ProxyTask, Bytes!Fault, Bytes!vars, Bytes!tcpVars, Bytes!proxyVars,
            Bytes!WriteResponse, Bytes!WaitPipeUp, Bytes!WaitGivesUp, Bytes!WaitOccupy,
            Bytes!TakePending, Bytes!FlushPending, Bytes!FlushFails, Bytes!FlushDone,
            Bytes!BufferChunk, Bytes!EofInWait, Bytes!SendChunk, Bytes!EofInStream,
            Bytes!CloseLine, Bytes!PipeStarts, Bytes!PipeOpens, Bytes!WriteFirst,
            Bytes!WriteFrame, Bytes!PipeCancelled, Bytes!PipeReturns, Bytes!PipeRetries,
            Bytes!DeliverAccept, Bytes!ProxyHandshake, Bytes!ProxyStreams,
            Bytes!FrameArrives, Bytes!WriteUpstream, Bytes!WaitIoError, Bytes!WaitTimeout,
            Bytes!StreamIoError, Bytes!EntryFails, Bytes!PipeBreaks, Bytes!PipeCloses,
            Bytes!PipeFails, Bytes!HeartbeatStops, Bytes!DeliverReject, Bytes!ListenIdle,
            Bytes!ProxyRetires, Bytes!RemoveSession, Bytes!CanSend, Bytes!Running
<1>1. ~entry'.tried => resume' = 0 /\ mine' = 0 /\ entry'.pipe = 0 /\ spawned'.pc = "off"
  BY <1>a DEF OneSender
<1>s. /\ resume' = resume \/ ~entry.tried
      /\ \/ spawned' = spawned
         \/ spawned.pc = "off" /\ spawned'.pc = "start" /\ spawned'.first = resume'
              /\ spawned'.nr = spawned.nr
         \/ spawned'.pc = "open" /\ spawned'.first = spawned.first
              /\ spawned'.nr = spawned.nr + 1
         \/ spawned'.pc \in {"end", "pause", "start"} /\ spawned'.first \in {0, spawned.first}
              /\ spawned'.nr = spawned.nr
         \/ spawned.pc = "open" /\ spawned'.pc = (IF spawned.first = 0 THEN "up" ELSE "first")
              /\ spawned'.first = spawned.first /\ spawned'.nr = spawned.nr
         \/ spawned.pc = "first" /\ spawned'.pc = "up" /\ spawned'.first = 0
              /\ spawned'.nr = spawned.nr
         \/ spawned.pc \in {"open", "first"} /\ spawned'.pc = "open"
              /\ spawned'.first \in {0, spawned.first} /\ spawned'.nr = spawned.nr
  <2>1. resume' = resume \/ ~entry.tried
    OBVIOUS
  <2>2. \/ spawned' = spawned
        \/ Bytes!WaitOccupy \/ Bytes!PipeStarts \/ Bytes!PipeOpens \/ Bytes!WriteFirst
        \/ spawned' = [spawned EXCEPT !.pc = "end", !.first = 0]
        \/ \E c \in {"end", "pause", "start"} : spawned' = [spawned EXCEPT !.pc = c]
        \/ Bytes!EntryFails
    OBVIOUS
  <2>3. CASE Bytes!WaitOccupy
    BY <1>a, <2>1, <2>3 DEF OneSender
  <2>4. CASE Bytes!PipeStarts
    BY <1>a, <2>1, <2>4
  <2>5. CASE Bytes!PipeOpens
    BY <1>a, <2>1, <2>5
  <2>6. CASE Bytes!WriteFirst
    BY <1>a, <2>1, <2>6
  <2>7. CASE Bytes!EntryFails
    BY <1>a, <2>1, <2>7
  <2> HIDE DEF Bytes!WaitOccupy, Bytes!PipeStarts, Bytes!PipeOpens, Bytes!WriteFirst,
               Bytes!EntryFails
  <2> QED
    BY <1>a, <2>1, <2>2, <2>3, <2>4, <2>5, <2>6, <2>7
<1>2. /\ spawned'.first \in {0, resume'}
      /\ spawned'.pc \in {"off", "up"} => spawned'.first = 0
      /\ spawned'.pc = "first" => spawned'.first # 0
  <2> HIDE DEF Bytes!Next
  <2> QED
    BY <1>a, <1>s DEF OneSender
<1>3. spawned'.pc \in {"open", "first", "up"} => spawned'.nr # 0
  <2> HIDE DEF Bytes!Next
  <2> QED
    BY <1>a, <1>s DEF OneSender
<1>4. entry'.pipe <= spawned'.nr /\ mine' <= spawned'.nr
  <2>1. entry'.pipe \in {entry.pipe, 0, spawned.nr} /\ mine' \in {mine, entry.pipe}
    BY <1>a
  <2> HIDE DEF Bytes!Next
  <2> QED
    BY <1>a, <1>s, <2>1 DEF OneSender
<1>5. (task' = "wait" => mine' = 0) /\ (task' \in {"flush", "stream"} => mine' # 0)
  BY <1>a DEF OneSender
<1>6. task' = "stream" => pending' = <<>>
  BY <1>a DEF OneSender
<1>7. channel' # <<>> => Bytes!Running(mine)'
  BY <1>a DEF OneSender
<1>8. ASSUME mine' = 0 PROVE OnWire' \subseteq {resume'}
  <2>0. mine = 0 /\ channel = <<>> /\ OnWire \subseteq {resume}
    BY <1>a, <1>8 DEF OneSender
  <2>1. \/ wire' = wire
        \/ wire' = Append(wire, spawned.first) /\ spawned.pc = "first"
        \/ wire # <<>> /\ wire' = Tail(wire)
        \/ Bytes!LoseTail
    BY <2>0
  <2>2. resume' = resume \/ OnWire = {}
    BY <1>a, <1>b, <2>0, <1>s DEF OneSender
  <2>3. wire' # wire => resume' = resume
    OBVIOUS
  <2> HIDE DEF Bytes!Next
  <2>4. CASE wire' = wire
    BY <2>0, <2>2, <2>4 DEF OnWire
  <2>5. CASE wire' = Append(wire, spawned.first) /\ spawned.pc = "first"
    <3>1. spawned.first = resume /\ spawned.first \in Bytes!Chunk
      BY <1>a, <2>5, ByteFacts DEF OneSender
    <3>2. OnWire' = OnWire \cup {resume}
      BY <1>b, <2>5, <3>1, AppendElements DEF OnWire
    <3> QED
      BY <2>0, <2>2, <2>3, <2>4, <3>2
  <2>6. CASE wire # <<>> /\ wire' = Tail(wire)
    <3>1. OnWire' \subseteq OnWire
      BY <1>b, <2>6, RisingTail, ByteFacts DEF OnWire, InPlace
    <3> QED
      BY <2>0, <2>3, <2>4, <3>1
  <2>7. CASE Bytes!LoseTail
    <3>1. OnWire' \subseteq OnWire
      BY <1>b, <2>7, RisingPrefix, ByteFacts DEF OnWire, InPlace, Bytes!LoseTail
    <3> QED
      BY <2>0, <2>3, <2>4, <3>1
  <2> QED
    BY <2>1, <2>4, <2>5, <2>6, <2>7
<1>9. (proxy' = "none" <=> upstream' = <<>>) /\ (upstream' # <<>> => 1 \in Arrived')
  <2>1. \/ upstream' = upstream /\ (proxy' = "none" <=> proxy = "none")
        \/ upstream' = <<1>> /\ proxy' = "accepted"
        \/ /\ proxy = "draining" /\ proxy' = proxy /\ toUpstream # <<>>
           /\ upstream' = Append(upstream, Head(toUpstream))
    OBVIOUS
  <2> HIDE DEF Bytes!Next
  <2>2. CASE upstream' = upstream /\ (proxy' = "none" <=> proxy = "none")
    BY <1>a, <2>2 DEF OneSender, Arrived
  <2>3. CASE upstream' = <<1>> /\ proxy' = "accepted"
    BY <2>3 DEF Arrived, Elements
  <2>4. CASE /\ proxy = "draining" /\ proxy' = proxy /\ toUpstream # <<>>
             /\ upstream' = Append(upstream, Head(toUpstream))
    <3>1. upstream # <<>> /\ 1 \in Elements(upstream)
      BY <1>a, <2>4 DEF OneSender, Arrived
    <3>2. Elements(upstream') = Elements(upstream) \cup {Head(toUpstream)}
      BY <2>4, ByteFacts, TakeOne, AppendElements DEF Places
    <3> QED
      BY <2>4, <3>1, <3>2, RisingEmpty DEF Arrived
  <2> QED
    BY <2>1, <2>2, <2>3, <2>4
<1> QED
  BY <1>1, <1>2, <1>3, <1>4, <1>5, <1>6, <1>7, <1>8, <1>9 DEF OneSender

LEMMA BytesTyped == ASSUME BytesInv, [Bytes!Next]_(Bytes!vars) PROVE Bytes!TypeOK'
<1> DEFINE EntryType == [status : {"waiting", "attached", "gone"}, pipe : Bytes!Pipe \cup {0},
                         tried : BOOLEAN]
           Pc == {"off", "start", "open", "first", "up", "pause", "end"}
           SpawnedType == [pc : Pc, nr : Bytes!Pipe \cup {0}, left : 0 .. Entries,
                           first : Bytes!Chunk \cup {0}]
           Task == /\ task \in {"wait", "flush", "stream", "done"}
                   /\ reads \in Bytes!Chunk
                   /\ resume \in Bytes!Chunk \cup {0} /\ mine \in Bytes!Pipe \cup {0}
                   /\ answer \in {"none", "queued", "written"}
                   /\ proxy \in {"none", "accepted", "draining", "gone"}
                   /\ refused \subseteq Bytes!Chunk
<1>a. /\ Places /\ Len(toUpstream) <= ProxyCap /\ Task /\ entry \in EntryType
      /\ spawned \in SpawnedType /\ eof \in BOOLEAN
  BY DEF BytesInv, Bytes!TypeOK, Places
<1>b. reads < MaxReads => reads + 1 \in Bytes!Chunk
  BY ByteFacts
<1>g. \A s \in Seq(Bytes!Chunk) : s # <<>> => /\ Head(s) \in Bytes!Chunk
                                              /\ Tail(s) \in Seq(Bytes!Chunk)
  BY TakeOne
<1> USE DEF Bytes!Next, Bytes!Calm, Bytes!TcpTask, Bytes!Application, Bytes!OccupyTask,
            Bytes!ProxyTask, Bytes!Fault, Bytes!vars, Bytes!tcpVars, Bytes!proxyVars,
            Bytes!WriteResponse, Bytes!WaitPipeUp, Bytes!WaitGivesUp, Bytes!WaitOccupy,
            Bytes!TakePending, Bytes!FlushPending, Bytes!FlushFails, Bytes!FlushDone,
            Bytes!BufferChunk, Bytes!EofInWait, Bytes!SendChunk, Bytes!EofInStream,
            Bytes!CloseLine, Bytes!PipeStarts, Bytes!PipeOpens, Bytes!WriteFirst,
            Bytes!WriteFrame, Bytes!PipeCancelled, Bytes!PipeReturns, Bytes!PipeRetries,
            Bytes!DeliverAccept, Bytes!ProxyHandshake, Bytes!ProxyStreams,
            Bytes!FrameArrives, Bytes!WriteUpstream, Bytes!WaitIoError, Bytes!WaitTimeout,
            Bytes!StreamIoError, Bytes!EntryFails, Bytes!PipeBreaks, Bytes!PipeCloses,
            Bytes!PipeFails, Bytes!HeartbeatStops, Bytes!DeliverReject, Bytes!ListenIdle,
            Bytes!ProxyRetires
<1>1. eof' \in BOOLEAN
  BY <1>a
<1>2. Len(toUpstream') <= ProxyCap
  BY <1>a, Bounds DEF Places
<1>3. Task'
  BY <1>a, <1>b, <1>g DEF Places
<1>4. entry' \in EntryType
  <2>1. \/ entry' \in {entry, Bytes!RemoveSession, [entry EXCEPT !.pipe = 0],
                       [entry EXCEPT !.tried = TRUE], [entry EXCEPT !.status = "attached"]}
        \/ entry' = [entry EXCEPT !.pipe = spawned.nr]
    OBVIOUS
  <2> QED
    BY <1>a, <2>1 DEF Bytes!RemoveSession
<1>5. spawned' \in SpawnedType
  <2>1. \/ spawned' = spawned
        \/ \E c \in Pc : spawned' = [spawned EXCEPT !.pc = c]
        \/ \E c \in Pc, f \in {0, resume'} : spawned' = [spawned EXCEPT !.pc = c, !.first = f]
        \/ /\ spawned.nr < MaxPipes
           /\ spawned' = [spawned EXCEPT !.pc = "open", !.nr = @ + 1, !.left = Entries]
        \/ /\ spawned.left > 1
           /\ \E f \in {0, spawned.first} :
                spawned' = [spawned EXCEPT !.pc = "open", !.left = @ - 1, !.first = f]
    OBVIOUS
  <2>2. resume' \in Bytes!Chunk \cup {0}
    BY <1>3
  <2> HIDE DEF Bytes!Next
  <2>3. spawned.nr < MaxPipes => spawned.nr + 1 \in Bytes!Pipe
    BY <1>a, Bounds DEF Bytes!Pipe
  <2>4. (spawned.left > 1 => spawned.left - 1 \in 0 .. Entries) /\ Entries \in 0 .. Entries
    BY <1>a, Bounds
  <2>5. ASSUME NEW c \in Pc, NEW f \in {0, resume'},
               \/ spawned' = [spawned EXCEPT !.pc = c]
               \/ spawned' = [spawned EXCEPT !.pc = c, !.first = f]
        PROVE  spawned' \in SpawnedType
    BY <1>a, <2>2, <2>5
  <2>6. ASSUME spawned.nr < MaxPipes,
               spawned' = [spawned EXCEPT !.pc = "open", !.nr = @ + 1, !.left = Entries]
        PROVE  spawned' \in SpawnedType
    BY <1>a, <2>3, <2>4, <2>6
  <2>7. ASSUME spawned.left > 1, NEW f \in {0, spawned.first},
               spawned' = [spawned EXCEPT !.pc = "open", !.left = @ - 1, !.first = f]
        PROVE  spawned' \in SpawnedType
    BY <1>a, <2>4, <2>7
  <2> HIDE DEF SpawnedType
  <2> QED
    BY <1>a, <2>1, <2>5, <2>6, <2>7
<1>6. Places'
  BY InPlaceNext
<1> QED
  BY <1>1, <1>2, <1>3, <1>4, <1>5, <1>6 DEF Bytes!TypeOK, Places

LEMMA LostNext ==
  ASSUME BytesInv, [Bytes!Next]_(Bytes!vars) PROVE LostLast'
<1> DEFINE Sent == Queued \cup OnWire \cup FirstBlob \cup InChannel
<1>a. /\ Below(Arrived, Lost)
      /\ proxy # "gone" => Below(Sent, Lost)
      /\ proxy # "gone" /\ Whole => Lost = {}
  BY ByteFacts DEF LostLast
<1>b. /\ Lined(Arrived, Queued, OnWire, FirstBlob, InChannel, Kept)
      /\ Arrived \subseteq 1 .. reads /\ Sent \cup Kept \subseteq 2 .. reads
      /\ Rising(wire) /\ Rising(channel)
  BY ByteFacts DEF InPlace
<1>c. reads \in Nat /\ reads >= 1
  BY ByteFacts DEF Bytes!Chunk
<1>d. \A n \in 2 .. reads' : n \in 2 .. reads \/ (n = reads + 1 /\ reads' = reads + 1)
  BY <1>c, BytesSteps
     DEF Losing, Sends, Bytes!BufferChunk, Bytes!WaitOccupy, Bytes!FlushPending,
         Bytes!SendChunk, Bytes!WriteFirst, Bytes!WriteFrame, Bytes!ProxyHandshake,
         Bytes!FrameArrives, Bytes!WriteUpstream, Bytes!tcpVars
<1>e. LostLast' <=> /\ Below(Arrived', Lost')
                    /\ proxy' # "gone" => Below(Sent', Lost')
                    /\ proxy' # "gone" /\ Whole' => Lost' = {}
  BY DEF LostLast, Below
<1>1. CASE Losing
  <2>1. /\ Arrived' = Arrived /\ Kept' = Kept /\ resume' = resume /\ refused' = refused
        /\ proxy' # "gone" => Queued' = Queued /\ proxy # "gone"
        /\ FirstBlob' \subseteq FirstBlob
        /\ InChannel' = InChannel \/ InChannel' = {}
    BY <1>1, RisingEmpty DEF Losing, Arrived, Kept, Queued, FirstBlob, InChannel
  <2>2. FirstBlob \subseteq {resume}
    BY ByteFacts DEF OneSender, FirstBlob
  <2>3. \/ wire' = wire /\ OnWire' = OnWire
        \/ /\ OnWire' \subseteq OnWire /\ Below(OnWire', OnWire \ OnWire')
           /\ InChannel' = {} /\ FirstBlob = {}
    <3>1. CASE wire' = wire
      BY <3>1 DEF OnWire
    <3>2. CASE Bytes!LoseTail /\ spawned.pc = "up" /\ channel' = <<>>
      <4>1. InChannel' = {} /\ FirstBlob = {}
        BY <3>2, RisingEmpty, ByteFacts DEF InChannel, FirstBlob, OneSender
      <4>2. OnWire' \subseteq OnWire /\ Below(OnWire', OnWire \ OnWire')
        <5>1. PICK n \in 0 .. Len(wire) : wire' = SubSeq(wire, 1, n)
          BY <3>2 DEF Bytes!LoseTail
        <5>2. wire \in Seq(Bytes!Chunk)
          BY ByteFacts DEF Places
        <5> QED
          BY <1>b, <5>1, <5>2, RisingPrefix DEF OnWire
      <4> QED
        BY <4>1, <4>2
    <3> QED
      BY <1>1, <3>1, <3>2 DEF Losing
  <2> DEFINE New == {n \in 2 .. reads' : n \notin 2 .. reads}
             Cut == OnWire \ OnWire'
             Shut == InChannel \ InChannel'
  <2>4. Lost' \subseteq Lost \cup New \cup Cut \cup Shut \cup (Queued \ Queued')
    BY <2>1, <2>2, <2>3, <1>d DEF Lost, Accounted
  <2>5. \A n \in New : n = reads + 1 /\ \A k \in Arrived \cup Sent : k < n
    BY <1>b, <1>c, <1>d
  <2>6. Below(Arrived', Lost')
    BY <1>a, <1>b, <2>1, <2>4, <2>5 DEF Below, Lined
  <2>7. ASSUME proxy' # "gone" PROVE Below(Sent', Lost')
    <3>1. Sent' \subseteq Sent /\ Below(Sent, Lost) /\ Below(Sent, New)
      BY <1>a, <2>1, <2>3, <2>5, <2>7 DEF Below
    <3>2. Queued' = Queued /\ Lost' \subseteq Lost \cup New \cup Cut \cup Shut
      BY <2>1, <2>4, <2>7
    <3>3. Below(Sent', Cut)
      BY <1>b, <2>1, <2>3, <3>2 DEF Below, Lined
    <3>4. Below(Sent', Shut)
      <4>1. CASE InChannel' = InChannel
        BY <4>1 DEF Below
      <4>2. CASE InChannel' = {}
        <5>1. Sent' \subseteq Queued \cup OnWire \cup FirstBlob
          BY <2>1, <2>3, <3>2, <4>2
        <5>2. Below(Queued \cup OnWire \cup FirstBlob, InChannel)
          BY <1>b DEF Below, Lined
        <5> HIDE DEF Sent
        <5> QED
          BY <5>1, <5>2 DEF Below
      <4> QED
        BY <2>1, <4>1, <4>2
    <3> HIDE DEF New, Cut, Shut
    <3> QED
      BY <3>1, <3>2, <3>3, <3>4 DEF Below
  <2>8. ASSUME proxy' # "gone", Whole' PROVE Lost' = {}
    <3>1. /\ Whole /\ reads' = reads /\ channel' = channel /\ (wire' = wire \/ mine = 0)
          /\ Lost = {} /\ Queued' = Queued
      BY <1>1, <1>a, <2>1, <2>8 DEF Losing
    <3>2. New = {} /\ Shut = {}
      BY <3>1 DEF InChannel
    <3>3. OnWire \ OnWire' \subseteq {resume}
      BY <3>1, <2>3, ByteFacts DEF OneSender, OnWire
    <3>4. resume' \notin Lost'
      BY DEF Lost, Accounted
    <3> HIDE DEF New, Shut
    <3> QED
      BY <2>1, <2>4, <3>1, <3>2, <3>3, <3>4
  <2> HIDE DEF Sent
  <2> QED
    BY <1>e, <2>6, <2>7, <2>8
<1>2. CASE Moving /\ ~Losing
  <2>1. Lost' \subseteq Lost
    BY <1>2, <1>d DEF Moving, Lost
  <2>2. /\ Whole' => Whole
        /\ proxy = "gone" => proxy' = "gone"
    BY <1>2, BytesSteps, MovingSender
  <2>3. Below(Arrived', Lost')
    <3>1. \A n \in Lost' : 1 < n
      BY <1>c DEF Lost
    <3>2. Below(Arrived, Lost')
      BY <1>a, <2>1 DEF Below
    <3>3. proxy # "gone" => Below(Queued, Lost')
      BY <1>a, <2>1 DEF Below
    <3> QED
      BY <1>2, <3>1, <3>2, <3>3 DEF Moving, Below
  <2>4. ASSUME proxy' # "gone" PROVE Below(Sent', Lost')
    <3>1. CASE Whole
      <4>1. Lost' = {}
        BY <1>a, <2>1, <2>2, <2>4, <3>1
      <4> QED
        BY <4>1 DEF Below
    <3>2. CASE ~Whole
      <4>1. Sent' \subseteq Sent
        BY <1>2, <3>2 DEF Moving
      <4>2. Below(Sent, Lost)
        BY <1>a, <2>2, <2>4
      <4> HIDE DEF Sent
      <4> QED
        BY <2>1, <4>1, <4>2 DEF Below
    <3> QED
      BY <3>1, <3>2
  <2>5. proxy' # "gone" /\ Whole' => Lost' = {}
    BY <1>a, <2>1, <2>2
  <2> HIDE DEF Sent
  <2> QED
    BY <1>e, <2>3, <2>4, <2>5
<1> QED
  BY <1>1, <1>2, InPlaceNext

LEMMA BytesNext == ASSUME BytesInv, [Bytes!Next]_(Bytes!vars) PROVE BytesInv'
<1>1. Bytes!TypeOK'
  BY BytesTyped
<1> QED
  BY <1>1, InPlaceNext, OneSenderNext, LostNext DEF BytesInv

-----------------------------------------------------------------------------
(* ByteService                                                              *)

\* What has yet to reach the proxy.
Coming == OnWire \cup FirstBlob \cup InChannel \cup Kept

\* A refused chunk is older than all that is still coming and in no place any
\* more; and until the TCP task has asked for its occupation all chunks but the
\* first are kept, so that a first blob is the second chunk.
Skips ==
  /\ refused \subseteq 2 .. reads
  /\ Below(refused, Coming)
  /\ refused \cap (Arrived \cup Queued) = {}
  /\ resume \in {0, 2}
  /\ ~entry.tried => Kept = 2 .. reads

LEMMA SkipsInit == Bytes!Init => Skips
<1> SUFFICES ASSUME Bytes!Init PROVE Skips
  OBVIOUS
<1>1. refused = {} /\ resume = 0 /\ Kept = {} /\ reads = 1
  BY RisingEmpty DEF Bytes!Init, Kept
<1>2. 2 .. reads = {}
  BY <1>1
<1> QED
  BY <1>1, <1>2 DEF Skips, Below

\* occupy_spawned is never reset.
LEMMA TriedStays ==
  ASSUME BytesInv, [Bytes!Next]_(Bytes!vars) PROVE entry.tried => entry'.tried
<1>1. entry = [status |-> entry.status, pipe |-> entry.pipe, tried |-> entry.tried]
  BY DEF BytesInv, Bytes!TypeOK
<1>2. \/ entry' = entry
      \/ entry' = Bytes!RemoveSession
      \/ \E p \in Bytes!Pipe \cup {0} : entry' = [entry EXCEPT !.pipe = p]
      \/ entry' = [entry EXCEPT !.tried = TRUE]
      \/ entry' = [entry EXCEPT !.status = "attached"]
  <2>1. CASE UNCHANGED Bytes!vars
    BY <2>1 DEF Bytes!vars
  <2>2. CASE Bytes!TcpTask
    BY <2>2 DEF Bytes!TcpTask, Bytes!WriteResponse, Bytes!WaitOccupy, Bytes!WaitPipeUp,
                Bytes!WaitGivesUp, Bytes!FlushPending, Bytes!FlushFails, Bytes!FlushDone
  <2>3. CASE Bytes!Application
    BY <2>3 DEF Bytes!Application, Bytes!BufferChunk, Bytes!EofInWait, Bytes!SendChunk,
                Bytes!EofInStream, Bytes!CloseLine
  <2>4. CASE Bytes!OccupyTask
    <3>1. spawned.nr \in Bytes!Pipe \cup {0}
      BY DEF BytesInv, Bytes!TypeOK
    <3> QED
      BY <2>4, <3>1
         DEF Bytes!OccupyTask, Bytes!PipeStarts, Bytes!PipeOpens, Bytes!WriteFirst,
             Bytes!WriteFrame, Bytes!PipeCancelled, Bytes!PipeReturns, Bytes!PipeRetries
  <2>5. CASE Bytes!DeliverAccept
    BY <2>5 DEF Bytes!DeliverAccept
  <2>6. CASE Bytes!ProxyTask
    BY <2>6 DEF Bytes!ProxyTask, Bytes!ProxyHandshake, Bytes!ProxyStreams,
                Bytes!FrameArrives, Bytes!WriteUpstream
  <2>7. CASE Bytes!Fault
    BY <2>7
       DEF Bytes!Fault, Bytes!WaitIoError, Bytes!WaitTimeout, Bytes!StreamIoError,
           Bytes!CloseLine, Bytes!EntryFails, Bytes!PipeFails, Bytes!PipeBreaks,
           Bytes!PipeCloses, Bytes!PipeReturns, Bytes!HeartbeatStops, Bytes!DeliverReject,
           Bytes!ListenIdle, Bytes!ProxyRetires
  <2> QED
    BY <2>1, <2>2, <2>3, <2>4, <2>5, <2>6, <2>7 DEF Bytes!Next, Bytes!Calm
<1> QED
  BY <1>1, <1>2 DEF Bytes!RemoveSession

\* A chunk that is coming was coming before, or is the one just read; a chunk
\* is with the proxy if it was, or if it is the offer's.
LEMMA Flows ==
  ASSUME BytesInv, [Bytes!Next]_(Bytes!vars), ~Bytes!FrameArrives
  PROVE  /\ refused' = refused
         /\ reads' = reads \/ reads' = reads + 1
         /\ reads' = reads => Coming' \subseteq Coming
         /\ Coming' \subseteq Coming \cup {reads'}
         /\ Arrived' \cup Queued' \subseteq Arrived \cup Queued \cup {1}
<1>a. Places
  BY ByteFacts
<1>b. /\ Rising(upstream) /\ Rising(toUpstream) /\ Rising(wire)
      /\ Rising(channel) /\ Rising(pending)
  BY ByteFacts DEF InPlace
<1>c. \A s, x : s \in Seq(Bytes!Chunk) /\ x \in Bytes!Chunk =>
        Elements(Append(s, x)) = Elements(s) \cup {x}
  BY AppendElements
<1>d. \A s : s \in Seq(Bytes!Chunk) /\ s # <<>> /\ Rising(s) =>
        Elements(s) = {Head(s)} \cup Elements(Tail(s)) /\ Head(s) \in Bytes!Chunk
  BY RisingTail, TakeOne
<1>e. Elements(<<>>) = {}
  BY RisingEmpty
<1>s. spawned = [pc |-> spawned.pc, nr |-> spawned.nr, left |-> spawned.left,
                 first |-> spawned.first]
  BY DEF BytesInv, Bytes!TypeOK
<1> USE DEF Coming, Arrived, Queued, OnWire, FirstBlob, InChannel, Kept, Bytes!tcpVars,
            Bytes!proxyVars
<1>1. CASE Losing
  <2>1. Elements(wire') \subseteq Elements(wire)
    <3>1. CASE wire' = wire
      BY <3>1
    <3>2. CASE Bytes!LoseTail
      BY <1>a, <1>b, <3>2, RisingPrefix DEF Bytes!LoseTail, Places
    <3> QED
      BY <1>1, <3>1, <3>2 DEF Losing
  <2> QED
    BY <1>1, <1>e, <2>1 DEF Losing
<1>2. CASE Bytes!BufferChunk
  BY <1>2, <1>a, <1>c, ByteFacts DEF Bytes!BufferChunk, Places
<1>3. CASE Bytes!WaitOccupy
  <2>1. /\ UNCHANGED <<upstream, toUpstream, wire, channel, reads, refused>>
        /\ pending' = Bytes!TakePending(pending)
        /\ resume' = IF pending = <<>> THEN 0 ELSE Head(pending)
        /\ spawned'.first \in {spawned.first, resume'}
    BY <1>3, <1>s DEF Bytes!WaitOccupy
  <2>2. Elements(pending') \subseteq Elements(pending)
    BY <1>a, <1>b, <1>d, <2>1 DEF Bytes!TakePending, Places
  <2>3. FirstBlob' \subseteq FirstBlob \cup Elements(pending)
    BY <1>a, <1>b, <1>d, <2>1 DEF Places
  <2> QED
    BY <2>1, <2>2, <2>3
<1>4. CASE Bytes!FlushPending
  BY <1>4, <1>a, <1>b, <1>c, <1>d DEF Bytes!FlushPending, Places
<1>5. CASE Sends
  <2>1. /\ UNCHANGED <<upstream, toUpstream, wire, pending, refused>> /\ spawned' = spawned
        /\ channel' = Append(channel, reads + 1) /\ reads' = reads + 1
        /\ reads + 1 \in Bytes!Chunk
    BY <1>5, ByteFacts DEF Sends, Bytes!SendChunk
  <2>2. Elements(channel') = Elements(channel) \cup {reads + 1}
    BY <1>a, <1>c, <2>1 DEF Places
  <2>3. reads + 1 # reads
    BY <2>1, ByteFacts
  <2> QED
    BY <2>1, <2>2, <2>3
<1>6. CASE Bytes!WriteFirst
  <2>1. spawned.first \in Bytes!Chunk /\ spawned.first # 0
    BY <1>6, ByteFacts DEF Bytes!WriteFirst, OneSender
  <2> QED
    BY <1>6, <1>a, <1>c, <1>s, <2>1 DEF Bytes!WriteFirst, Places
<1>7. CASE Bytes!WriteFrame
  BY <1>7, <1>a, <1>b, <1>c, <1>d DEF Bytes!WriteFrame, Places
<1>8. CASE Bytes!ProxyHandshake
  <2>1. Elements(<<1>>) = {1}
    BY DEF Elements
  <2> QED
    BY <1>8, <2>1 DEF Bytes!ProxyHandshake
<1>9. CASE Bytes!WriteUpstream
  BY <1>9, <1>a, <1>b, <1>c, <1>d DEF Bytes!WriteUpstream, Places
<1> QED
  BY <1>1, <1>2, <1>3, <1>4, <1>5, <1>6, <1>7, <1>8, <1>9, BytesSteps

\* The chunk a frame carries leaves the wire, for the queue or for good.
LEMMA FrameFlows ==
  ASSUME BytesInv, Bytes!FrameArrives
  PROVE  \E h \in OnWire :
           /\ OnWire = {h} \cup OnWire' /\ Below({h}, OnWire')
           /\ UNCHANGED <<upstream, FirstBlob, InChannel, Kept, reads, resume>>
           /\ \/ Queued' = Queued \cup {h} /\ refused' = refused
              \/ Queued' = Queued /\ refused' = refused \cup {h}
<1>1. /\ wire \in Seq(Bytes!Chunk) /\ toUpstream \in Seq(Bytes!Chunk) /\ Rising(wire)
      /\ wire # <<>>
  BY ByteFacts DEF Places, InPlace, Bytes!FrameArrives
<1>2. /\ OnWire = {Head(wire)} \cup Elements(Tail(wire))
      /\ Below({Head(wire)}, Elements(Tail(wire))) /\ Head(wire) \in Bytes!Chunk
  BY <1>1, RisingTail, TakeOne DEF OnWire
<1>3. wire' = Tail(wire)
  BY DEF Bytes!FrameArrives
<1>4. Elements(Append(toUpstream, Head(wire))) = Elements(toUpstream) \cup {Head(wire)}
  BY <1>1, <1>2, AppendElements
<1>5. /\ UNCHANGED <<upstream, FirstBlob, InChannel, Kept, reads, resume>>
      /\ \/ toUpstream' = Append(toUpstream, Head(wire)) /\ refused' = refused
         \/ toUpstream' = toUpstream /\ refused' = refused \cup {Head(wire)}
  BY DEF Bytes!FrameArrives, Bytes!tcpVars, FirstBlob, InChannel, Kept
<1> QED
  BY <1>2, <1>3, <1>4, <1>5 DEF OnWire, Queued

LEMMA SkipsNext ==
  ASSUME BytesInv, Skips, [Bytes!Next]_(Bytes!vars) PROVE Skips'
<1>a. reads \in Nat /\ reads >= 1
  BY ByteFacts DEF Bytes!Chunk
<1>b. /\ refused \subseteq 2 .. reads /\ Below(refused, Coming)
      /\ refused \cap (Arrived \cup Queued) = {}
  BY DEF Skips
<1>1. CASE Bytes!FrameArrives
  <2>1. PICK h \in OnWire :
          /\ OnWire = {h} \cup OnWire' /\ Below({h}, OnWire')
          /\ UNCHANGED <<upstream, FirstBlob, InChannel, Kept, reads, resume>>
          /\ \/ Queued' = Queued \cup {h} /\ refused' = refused
             \/ Queued' = Queued /\ refused' = refused \cup {h}
    BY <1>1, FrameFlows
  <2>2. Arrived' = Arrived /\ entry' = entry
    BY <1>1, <2>1 DEF Arrived, Bytes!FrameArrives
  <2>3. /\ h \in 2 .. reads /\ h \in Coming /\ Coming' \subseteq Coming
        /\ Below({h}, Coming')
    <3>1. Below(OnWire, FirstBlob \cup InChannel \cup Kept) /\ OnWire \subseteq 2 .. reads
      BY ByteFacts DEF InPlace, Lined
    <3> QED
      BY <2>1, <3>1 DEF Coming, Below
  <2>4. h \notin refused /\ h \notin Arrived \cup Queued
    <3>1. Below(Arrived, OnWire) /\ Below(Queued, OnWire)
      BY ByteFacts DEF InPlace, Lined, Below
    <3>2. ~(h < h)
      BY <2>3
    <3> QED
      BY <1>b, <2>3, <3>1, <3>2 DEF Below
  <2>5. refused' \subseteq 2 .. reads' /\ Below(refused', Coming')
    BY <1>b, <2>1, <2>3 DEF Below
  <2>6. refused' \cap (Arrived' \cup Queued') = {}
    BY <1>b, <2>1, <2>2, <2>4
  <2>7. resume' \in {0, 2} /\ (~entry'.tried => Kept' = 2 .. reads')
    BY <2>1, <2>2 DEF Skips
  <2> QED
    BY <2>5, <2>6, <2>7 DEF Skips
<1>2. CASE ~Bytes!FrameArrives
  <2>1. /\ refused' = refused /\ (reads' = reads \/ reads' = reads + 1)
        /\ reads' = reads => Coming' \subseteq Coming
        /\ Coming' \subseteq Coming \cup {reads'}
        /\ Arrived' \cup Queued' \subseteq Arrived \cup Queued \cup {1}
    BY <1>2, Flows
  <2>2. refused' \subseteq 2 .. reads' /\ Below(refused', Coming')
    <3>1. CASE reads' = reads
      BY <1>b, <2>1, <3>1 DEF Below
    <3>2. CASE reads' = reads + 1
      <4>1. \A n \in refused : n \in 2 .. reads' /\ n < reads'
        BY <1>a, <1>b, <3>2
      <4> QED
        BY <1>b, <2>1, <4>1 DEF Below
    <3> QED
      BY <2>1, <3>1, <3>2
  <2>3. refused' \cap (Arrived' \cup Queued') = {}
    <3>1. 1 \notin refused
      BY <1>b
    <3> QED
      BY <1>b, <2>1, <3>1
  <2>4. resume' \in {0, 2}
    <3>1. CASE Bytes!WaitOccupy
      <4>1. CASE pending = <<>>
        BY <3>1, <4>1 DEF Bytes!WaitOccupy
      <4>2. CASE pending # <<>>
        <5>1. resume' = Head(pending) /\ Kept = 2 .. reads
          BY <3>1, <4>2 DEF Bytes!WaitOccupy, Skips
        <5>2. Kept = {Head(pending)} \cup Elements(Tail(pending))
              /\ Below({Head(pending)}, Elements(Tail(pending)))
          BY <4>2, ByteFacts, RisingTail DEF Places, InPlace, Kept
        <5>3. Head(pending) \in 2 .. reads
          BY <5>1, <5>2
        <5>4. 2 \in Kept
          BY <1>a, <5>1, <5>3
        <5> QED
          BY <5>1, <5>2, <5>3, <5>4 DEF Below
      <4> QED
        BY <4>1, <4>2
    <3>2. CASE ~Bytes!WaitOccupy
      <4>1. resume' = resume
        BY <3>2, BytesSteps
           DEF Losing, Sends, Bytes!BufferChunk, Bytes!FlushPending, Bytes!SendChunk,
               Bytes!WriteFirst, Bytes!WriteFrame, Bytes!ProxyHandshake,
               Bytes!FrameArrives, Bytes!WriteUpstream, Bytes!tcpVars
      <4> QED
        BY <4>1 DEF Skips
    <3> QED
      BY <3>1, <3>2
  <2>5. ASSUME ~entry'.tried PROVE Kept' = 2 .. reads'
    <3>1. ~entry.tried /\ Kept = 2 .. reads
      BY <2>5, TriedStays DEF Skips
    <3>2. mine = 0 /\ spawned.pc = "off" /\ channel = <<>> /\ Whole
      BY <3>1, ByteFacts DEF OneSender, Whole, Bytes!Running
    <3>3. mine' = 0 /\ Whole'
      BY <2>5, OneSenderNext DEF OneSender, Whole
    <3>4. CASE Losing
      BY <3>1, <3>3, <3>4 DEF Losing, Kept
    <3>5. CASE Bytes!BufferChunk
      <4>1. pending' = Append(pending, reads + 1) /\ reads' = reads + 1
        BY <3>5 DEF Bytes!BufferChunk
      <4>2. Kept' = Kept \cup {reads + 1}
        BY <3>5, <4>1, ByteFacts, AppendElements DEF Bytes!BufferChunk, Places, Kept
      <4> QED
        BY <1>a, <3>1, <4>1, <4>2
    <3>6. ~Bytes!WaitOccupy
      <4>1. entry = [status |-> entry.status, pipe |-> entry.pipe, tried |-> entry.tried]
        BY DEF BytesInv, Bytes!TypeOK
      <4> QED
        BY <2>5, <4>1 DEF Bytes!WaitOccupy
    <3>7. ~Bytes!FlushPending /\ ~Sends
      BY <3>2 DEF Bytes!FlushPending, Sends, Bytes!CanSend, Bytes!Running
    <3>8. CASE Bytes!WriteFirst \/ Bytes!WriteFrame \/ Bytes!ProxyHandshake
                 \/ Bytes!WriteUpstream
      <4>1. pending' = pending /\ reads' = reads
        BY <3>8
           DEF Bytes!WriteFirst, Bytes!WriteFrame, Bytes!ProxyHandshake,
               Bytes!WriteUpstream, Bytes!tcpVars
      <4> QED
        BY <3>1, <4>1 DEF Kept
    <3> QED
      BY <1>2, <3>4, <3>5, <3>6, <3>7, <3>8, BytesSteps
  <2> QED
    BY <2>2, <2>3, <2>4, <2>5 DEF Skips
<1> QED
  BY <1>1, <1>2

\* Everything before the head of the proxy's queue is settled: what is missing
\* is newer than the queue, and what is on its way comes behind it.
LEMMA HeadSettles ==
  ASSUME BytesInv, Skips, proxy = "draining", toUpstream # <<>>
  PROVE  /\ Head(toUpstream) \in 1 .. reads /\ Head(toUpstream) \notin refused
         /\ Below(Arrived, {Head(toUpstream)})
         /\ 1 .. Head(toUpstream) - 1 \subseteq Arrived \cup refused \cup {resume}
<1> DEFINE h == Head(toUpstream)
           rest == Elements(Tail(toUpstream))
<1>1. Queued = {h} \cup rest /\ Below({h}, rest)
  BY ByteFacts, RisingTail DEF Places, InPlace, Queued
<1> HIDE DEF h, rest
<1>2. /\ Lined(Arrived, Queued, OnWire, FirstBlob, InChannel, Kept)
      /\ h \in 2 .. reads /\ reads \in Nat
  BY <1>1, ByteFacts DEF InPlace
<1>3. Below(Queued, Lost) /\ 1 \in Arrived
  BY ByteFacts DEF LostLast, OneSender, Below
<1>4. ASSUME NEW c \in 1 .. h - 1 PROVE c \in Arrived \cup refused \cup {resume}
  <2>1. c < h /\ ~(h < c) /\ c # h /\ (c = 1 \/ c \in 2 .. reads)
    BY <1>2
  <2>2. c \notin Lost
    BY <1>1, <1>3, <2>1 DEF Below
  <2>3. c \notin Queued \cup OnWire \cup FirstBlob \cup InChannel \cup Kept
    BY <1>1, <1>2, <2>1 DEF Lined, Below
  <2> QED
    BY <1>3, <2>1, <2>2, <2>3 DEF Lost, Accounted
<1>5. h \notin refused /\ Below(Arrived, {h})
  BY <1>1, <1>2 DEF Skips, Lined, Below
<1> QED
  BY <1>2, <1>4, <1>5 DEF h

\* The line starts as the service does.
LEMMA StartsStream == Bytes!Init => ByteStream!Init
BY DEF Bytes!Init, ByteStream!Init

\* Every step on the bytes is one of the service, or none.
LEMMA StepsStream ==
  ASSUME BytesInv, Skips, [Bytes!Next]_(Bytes!vars)
  PROVE  [ByteStream!Next]_(ByteStream!vars)
<1>a. reads \in Nat /\ reads >= 1 /\ MaxReads \in Nat
  BY Bounds, ByteFacts DEF Bytes!Chunk
<1>b. ByteStream!ToSet(upstream) = Arrived
  BY DEF ByteStream!ToSet, Arrived, Elements
<1>c. ByteStream!Settled = Arrived \cup refused
  BY <1>b DEF ByteStream!Settled
<1>1. CASE UNCHANGED <<upstream, resume, refused>>
            /\ (reads' = reads \/ (reads < MaxReads /\ reads' = reads + 1))
  BY <1>1 DEF ByteStream!Next, ByteStream!Read, ByteStream!vars
<1>2. CASE Bytes!WaitOccupy
  <2>1. /\ UNCHANGED <<upstream, reads, refused>>
        /\ resume' = IF pending = <<>> THEN 0 ELSE Head(pending)
        /\ resume = 0 /\ Kept = 2 .. reads
    BY <1>2, ByteFacts DEF Bytes!WaitOccupy, Bytes!proxyVars, OneSender, Skips
  <2>2. CASE pending = <<>>
    BY <2>1, <2>2 DEF ByteStream!vars
  <2>3. CASE pending # <<>>
    <3>1. Head(pending) \in Kept
      BY <2>3, ByteFacts, RisingTail DEF Places, InPlace, Kept
    <3>2. reads >= 2 /\ resume' = 2 /\ 2 \in Kept
      <4>1. resume' \in {0, 2}
        BY SkipsNext DEF Skips
      <4> QED
        BY <1>a, <2>1, <2>3, <3>1, <4>1
    <3>3. Arrived \cup refused \subseteq {1}
      <4>1. Below(Arrived, Kept) /\ Below(refused, Kept)
        BY ByteFacts DEF InPlace, Lined, Skips, Coming, Below
      <4>2. Arrived \cup refused \subseteq 1 .. reads
        <5>1. Arrived \subseteq 1 .. reads /\ refused \subseteq 2 .. reads
          BY ByteFacts DEF InPlace, Skips
        <5> QED
          BY <1>a, <5>1
      <4>3. \A n \in Arrived \cup refused : n < 2 /\ n \in 1 .. reads
        BY <3>2, <4>1, <4>2 DEF Below
      <4> QED
        BY <1>a, <4>3
    <3>4. ByteStream!Spare
      BY <1>c, <2>1, <3>2, <3>3 DEF ByteStream!Spare
    <3> QED
      BY <3>4 DEF ByteStream!Next
  <2> QED
    BY <2>2, <2>3
<1>3. CASE Bytes!FrameArrives
  <2>1. PICK h \in OnWire :
          /\ UNCHANGED <<upstream, reads, resume>>
          /\ refused' = refused \/ refused' = refused \cup {h}
    BY <1>3, FrameFlows
  <2>2. CASE refused' = refused
    BY <2>1, <2>2 DEF ByteStream!vars
  <2>3. CASE refused' = refused \cup {h}
    <3>1. h \in 2 .. reads /\ h # 1
      BY ByteFacts DEF InPlace
    <3>2. \A d \in Arrived \cup refused : d < h
      BY ByteFacts DEF InPlace, Lined, Skips, Coming, Below
    <3>3. ByteStream!Refuse(h)
      BY <1>c, <2>1, <2>3, <3>1, <3>2 DEF ByteStream!Refuse
    <3>4. h \in 1 .. reads
      BY <1>a, <3>1
    <3> QED
      BY <3>3, <3>4 DEF ByteStream!Next
  <2> QED
    BY <2>1, <2>2, <2>3
<1>4. CASE Bytes!ProxyHandshake
  <2>1. /\ upstream = <<>> /\ upstream' = <<1>> /\ UNCHANGED <<reads, refused, resume>>
    BY <1>4, ByteFacts DEF Bytes!ProxyHandshake, Bytes!tcpVars, OneSender
  <2>2. 1 \notin refused /\ 1 \in 1 .. reads /\ 1 .. 1 - 1 = {} /\ Arrived = {}
    BY <1>a, <2>1, RisingEmpty DEF Skips, Arrived
  <2>3. upstream' = Append(upstream, 1)
    BY <2>1
  <2>4. ByteStream!Deliver(1)
    BY <1>b, <2>1, <2>2, <2>3 DEF ByteStream!Deliver
  <2> QED
    BY <2>2, <2>4 DEF ByteStream!Next
<1>5. CASE Bytes!WriteUpstream
  <2>1. /\ proxy = "draining" /\ toUpstream # <<>> /\ UNCHANGED <<reads, refused, resume>>
        /\ upstream' = Append(upstream, Head(toUpstream))
    BY <1>5 DEF Bytes!WriteUpstream, Bytes!tcpVars
  <2>2. /\ Head(toUpstream) \in 1 .. reads /\ Head(toUpstream) \notin refused
        /\ \A d \in Arrived : d < Head(toUpstream)
        /\ 1 .. Head(toUpstream) - 1 \subseteq Arrived \cup refused \cup {resume}
    BY <2>1, HeadSettles DEF Below
  <2>3. ByteStream!Deliver(Head(toUpstream))
    BY <1>b, <1>c, <2>1, <2>2 DEF ByteStream!Deliver
  <2> QED
    BY <2>2, <2>3 DEF ByteStream!Next
<1>6. CASE Losing
  BY <1>1, <1>6 DEF Losing
<1>7. CASE Bytes!BufferChunk \/ Bytes!FlushPending \/ Sends \/ Bytes!WriteFirst
             \/ Bytes!WriteFrame
  <2>1. /\ UNCHANGED <<upstream, resume, refused>>
        /\ reads' = reads \/ (reads < MaxReads /\ reads' = reads + 1)
    BY <1>7
       DEF Bytes!BufferChunk, Bytes!FlushPending, Sends, Bytes!SendChunk,
           Bytes!WriteFirst, Bytes!WriteFrame, Bytes!tcpVars, Bytes!proxyVars
  <2> QED
    BY <1>1, <2>1
<1> QED
  BY <1>2, <1>3, <1>4, <1>5, <1>6, <1>7, BytesSteps

-----------------------------------------------------------------------------
(* The application's bytes: the theorems                                    *)

LEMMA FirstBlobRises ==
  LET f == IF spawned.first = 0 THEN <<>> ELSE <<spawned.first>>
  IN  Rising(f) /\ Elements(f) = FirstBlob
BY DEF Rising, Elements, FirstBlob

\* The places one after the other are Travelling.
LEMMA PlacesRise == BytesInv => Bytes!InOrder
<1> SUFFICES ASSUME BytesInv PROVE Rising(Bytes!Travelling)
  BY DEF Bytes!InOrder, Rising
<1> DEFINE f == IF spawned.first = 0 THEN <<>> ELSE <<spawned.first>>
           t1 == upstream \o toUpstream
           t2 == t1 \o wire
           t3 == t2 \o f
           t4 == t3 \o channel
           t5 == t4 \o pending
<1>a. /\ pending \in Seq(Bytes!Chunk) /\ channel \in Seq(Bytes!Chunk)
      /\ wire \in Seq(Bytes!Chunk) /\ toUpstream \in Seq(Bytes!Chunk)
      /\ upstream \in Seq(Bytes!Chunk)
  BY ByteFacts DEF Places
<1>b. /\ Rising(upstream) /\ Rising(toUpstream) /\ Rising(wire)
      /\ Rising(channel) /\ Rising(pending)
      /\ Lined(Arrived, Queued, OnWire, FirstBlob, InChannel, Kept)
  BY ByteFacts DEF InPlace
<1>c. f \in Seq(Bytes!Chunk) /\ Rising(f) /\ Elements(f) = FirstBlob
  BY FirstBlobRises, ByteFacts
<1> HIDE DEF f
<1>1. t1 \in Seq(Bytes!Chunk) /\ Rising(t1) /\ Elements(t1) = Arrived \cup Queued
  <2>1. Below(Elements(upstream), Elements(toUpstream))
    BY <1>b DEF Lined, Below, Arrived, Queued
  <2> QED
    BY <1>a, <1>b, <2>1, RisingConcat DEF Arrived, Queued
<1> HIDE DEF t1
<1>2. t2 \in Seq(Bytes!Chunk) /\ Rising(t2) /\ Elements(t2) = Arrived \cup Queued \cup OnWire
  <2>1. Below(Elements(t1), Elements(wire))
    BY <1>b, <1>1 DEF Lined, Below, OnWire
  <2>2. /\ t1 \o wire \in Seq(Bytes!Chunk) /\ Rising(t1 \o wire)
        /\ Elements(t1 \o wire) = Elements(t1) \cup Elements(wire)
    <3>1. wire \in Seq(Bytes!Chunk) /\ Rising(wire) /\ t1 \in Seq(Bytes!Chunk) /\ Rising(t1)
      BY <1>a, <1>b, <1>1
    <3> QED
      BY <2>1, <3>1, RisingConcat, SMTT(30)
  <2> QED
    BY <1>1, <2>2 DEF OnWire
<1> HIDE DEF t2
<1>3. /\ t3 \in Seq(Bytes!Chunk) /\ Rising(t3)
      /\ Elements(t3) = Arrived \cup Queued \cup OnWire \cup FirstBlob
  <2>1. Below(Elements(t2), Elements(f))
    BY <1>b, <1>c, <1>2 DEF Lined, Below
  <2>2. /\ t2 \o f \in Seq(Bytes!Chunk) /\ Rising(t2 \o f)
        /\ Elements(t2 \o f) = Elements(t2) \cup Elements(f)
    BY <1>c, <1>2, <2>1, RisingConcat
  <2> QED
    BY <1>c, <1>2, <2>2
<1> HIDE DEF t3
<1>4. /\ t4 \in Seq(Bytes!Chunk) /\ Rising(t4)
      /\ Elements(t4) = Arrived \cup Queued \cup OnWire \cup FirstBlob \cup InChannel
  <2>1. Below(Elements(t3), Elements(channel))
    BY <1>b, <1>3 DEF Lined, Below, InChannel
  <2>2. /\ t3 \o channel \in Seq(Bytes!Chunk) /\ Rising(t3 \o channel)
        /\ Elements(t3 \o channel) = Elements(t3) \cup Elements(channel)
    BY <1>a, <1>b, <1>3, <2>1, RisingConcat
  <2> QED
    BY <1>3, <2>2 DEF InChannel
<1> HIDE DEF t4
<1>5. Rising(t5)
  <2>1. Below(Elements(t4), Elements(pending))
    BY <1>b, <1>4 DEF Lined, Below, Kept
  <2> QED
    BY <1>a, <1>b, <1>4, <2>1, RisingConcat
<1> QED
  BY <1>5 DEF t1, t2, t3, t4, f, Bytes!Travelling

\* Both models side by side.
LEMMA BothInvariance == MCSpec => [](IInv /\ BytesInv)
<1>1. MCInit => IInv /\ BytesInv
  BY InitEstablishes, BytesInit DEF MCInit
<1>2. IInv /\ BytesInv /\ [MCNext]_<<part, vars, bytesVars>> => (IInv /\ BytesInv)'
  <2> SUFFICES ASSUME IInv, BytesInv, [MCNext]_<<part, vars, bytesVars>>
               PROVE  IInv' /\ BytesInv'
    OBVIOUS
  <2>1. [Next]_vars
    BY DEF MCNext
  <2>2. bytesVars' = bytesVars => Bytes!vars' = Bytes!vars
    BY DEF bytesVars, Bytes!vars, Bytes!tcpVars, Bytes!proxyVars
  <2>3. [Bytes!Next]_(Bytes!vars)
    BY <2>2 DEF MCNext, Bytes!Next
  <2> QED
    BY <2>1, <2>3, NextKeeps, BytesNext
<1> QED
  BY <1>1, <1>2, PTL DEF MCSpec

\* The chunks the application writes reach the upstream in the order they were
\* read and none twice, through whatever occupations the line goes.
THEOREM BytesInOrder == MCSpec => []InOrder
<1>1. IInv /\ BytesInv => InOrder
  BY TypesFollow, PlacesRise DEF InOrder, BytesInv
<1> QED
  BY <1>1, BothInvariance, PTL

\* The bytes implement ByteService: whatever breaks and retries, the upstream
\* is given a chunk only when all before it were given, refused for a full
\* queue, or were the one first blob, and never one that was refused.
THEOREM ImplementsStream == MCSpec => BytesServed
<1>1. MCInit => BytesInv /\ Skips /\ ByteStream!Init
  BY BytesInit, SkipsInit, StartsStream DEF MCInit
<1>2. BytesInv /\ Skips /\ [MCNext]_<<part, vars, bytesVars>> =>
        Skips' /\ [ByteStream!Next]_(ByteStream!vars)
  <2>1. [MCNext]_<<part, vars, bytesVars>> => [Bytes!Next]_(Bytes!vars)
    BY DEF MCNext, Bytes!Next, bytesVars, Bytes!vars, Bytes!tcpVars, Bytes!proxyVars
  <2> QED
    BY <2>1, SkipsNext, StepsStream
<1> QED
  BY <1>1, <1>2, BothInvariance, PTL DEF MCSpec, BytesServed, ByteStream!Spec
=============================================================================

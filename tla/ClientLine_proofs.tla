--------------------------- MODULE ClientLine_proofs ---------------------------
(***************************************************************************)
(* Proofs about ClientLine for any number of incarnations, generations,    *)
(* occupy tasks, chunks and any queue capacity: its type invariant, that   *)
(* the application's later bytes wait for an answer, and that it gets one  *)
(* responseChunk at most.                                                  *)
(*                                                                         *)
(* ResumeAfterAnswer needs AnsweredFirst: an occupy task, and so a         *)
(* generation, exists only once the response is on the socket.             *)
(* ResponseExactlyOnce needs IdleEmpty, so that a new session starts with  *)
(* nothing shown.                                                          *)
(***************************************************************************)
EXTENDS ClientLine, SequenceTheorems, TLAPS

\* A step of the line, whatever brings its messages: Next bounds what arrives
\* alone, and DuplexLine_proofs lets the proxy send it.
Step ==
  \/ Task
  \/ \E k \in Occupy : PipeFails(k)
  \/ \E i \in Inc : DeliverAccept(i)
  \/ \E c \in Chunk \ Response : DeliverFrame(c)
  \/ DeliverReject

\* No occupation of the line is older than its first answer.
AnsweredFirst ==
  /\ \A k \in Occupy : pipe[k].pc # "off" => Responded
  /\ session.gen > 0 => Responded

\* Before the first bytes are read there is no session, and nothing was shown.
IdleEmpty == tcp = "idle" => app = <<>> /\ queue = <<>> /\ ~session.live

\* The inductive invariant.
IInv ==
  /\ TypeOK
  /\ AnsweredFirst
  /\ ResumeAfterAnswer
  /\ IdleEmpty
  /\ ResponseExactlyOnce

-----------------------------------------------------------------------------
(* Types *)

\* The values the initial state and the updates use.
LEMMA Numbers ==
  /\ 0 \in Source
  /\ \A i \in Inc : i \in Source /\ <<i, 1>> \in Chunk /\ <<i, 1>> \in Response
  /\ 0 \in 0 .. MaxGen
  /\ 1 \in Occupy
  /\ 0 <= QueueCap
BY ClientBoundsAssumption
   DEF ClientBoundsAssumption, Inc, Source, Chunk, Response, Occupy

\* What the code does to a session leaves a session.
LEMMA SessionTypes ==
  /\ NoSession \in Session
  /\ [NoSession EXCEPT !.live = TRUE] \in Session
  /\ \A s \in Session :
       /\ [s EXCEPT !.pipe = TRUE] \in Session
       /\ [s EXCEPT !.pipe = FALSE] \in Session
       /\ [s EXCEPT !.inflight = TRUE] \in Session
       /\ [s EXCEPT !.inflight = FALSE] \in Session
       /\ [s EXCEPT !.status = "rejected", !.pipe = FALSE, !.inflight = FALSE]
            \in Session
       /\ \A i \in Inc, b \in BOOLEAN :
            [s EXCEPT !.status = "attached", !.peer = i, !.delivered = b] \in Session
       /\ s.gen < MaxGen => [s EXCEPT !.gen = @ + 1] \in Session
<1>1. NoSession \in Session /\ [NoSession EXCEPT !.live = TRUE] \in Session
  BY Numbers DEF Session, NoSession
<1>2. ASSUME NEW s \in Session PROVE
        /\ [s EXCEPT !.pipe = TRUE] \in Session
        /\ [s EXCEPT !.pipe = FALSE] \in Session
        /\ [s EXCEPT !.inflight = TRUE] \in Session
        /\ [s EXCEPT !.inflight = FALSE] \in Session
  BY DEF Session
<1>3. ASSUME NEW s \in Session PROVE
        [s EXCEPT !.status = "rejected", !.pipe = FALSE, !.inflight = FALSE]
          \in Session
  BY DEF Session
<1>4. ASSUME NEW s \in Session, NEW i \in Inc, NEW b \in BOOLEAN PROVE
        [s EXCEPT !.status = "attached", !.peer = i, !.delivered = b] \in Session
  BY Numbers DEF Session
<1>5. ASSUME NEW s \in Session, s.gen < MaxGen PROVE [s EXCEPT !.gen = @ + 1] \in Session
  <2>1. s.gen + 1 \in 0 .. MaxGen
    BY <1>5, ClientBoundsAssumption DEF Session, ClientBoundsAssumption
  <2> QED
    BY <2>1 DEF Session
<1> QED
  BY <1>1, <1>2, <1>3, <1>4, <1>5

\* The queue stays a bounded sequence of chunks when one is added or taken;
\* the chunk whose write is held up is the one more there may be.
LEMMA QueueTypes ==
  ASSUME TypeOK
  PROVE  /\ queue \in Seq(Chunk) /\ Len(queue) \in Nat /\ QueueCap \in Nat
         /\ <<>> \in Seq(Chunk) /\ Len(<<>>) = 0
         /\ Places \in Nat /\ QueueCap <= Places /\ Places <= QueueCap + 1
         /\ \A c \in Chunk : Append(queue, c) \in Seq(Chunk)
         /\ \A c \in Chunk : Room => Len(Append(queue, c)) <= Places
         /\ queue # <<>> => /\ Head(queue) \in Chunk
                            /\ Tail(queue) \in Seq(Chunk)
                            /\ Len(Tail(queue)) <= QueueCap
<1>1. queue \in Seq(Chunk) /\ Len(queue) \in Nat /\ QueueCap \in Nat
  BY ClientBoundsAssumption, LenProperties DEF TypeOK, ClientBoundsAssumption
<1>2. Places \in Nat /\ QueueCap <= Places /\ Places <= QueueCap + 1
  BY <1>1 DEF Places
<1>3. Len(queue) <= Places
  BY DEF TypeOK
<1>4. \A c \in Chunk : Append(queue, c) \in Seq(Chunk)
                       /\ Len(Append(queue, c)) = Len(queue) + 1
  BY <1>1, AppendProperties
<1>5. queue # <<>> => /\ Head(queue) \in Chunk /\ Tail(queue) \in Seq(Chunk)
                     /\ Len(Tail(queue)) = Len(queue) - 1
  BY <1>1, HeadTailProperties
<1>6. <<>> \in Seq(Chunk) /\ Len(<<>>) = 0
  BY EmptySeq
<1>7. \A c \in Chunk : Room => Len(Append(queue, c)) <= Places
  BY <1>1, <1>2, <1>4 DEF Room
<1>8. queue # <<>> => Len(Tail(queue)) <= QueueCap
  BY <1>1, <1>2, <1>3, <1>5
<1> QED
  BY <1>1, <1>2, <1>4, <1>5, <1>6, <1>7, <1>8

\* A step of an occupy task that only moves its pc.
LEMMA PipeTypes ==
  ASSUME TypeOK, NEW k \in Occupy, NEW pc \in OccupyPc, PipeGoes(k, pc)
  PROVE  pipe' \in [Occupy -> [pc : OccupyPc, target : Source, gen : 0 .. MaxGen]]
BY DEF TypeOK, PipeGoes

\* spawn_l0_pipe leaves session and tasks well typed.
LEMMA SpawnTypes ==
  ASSUME TypeOK, NEW k \in Occupy, SpawnPipe(k)
  PROVE  /\ session' \in Session
         /\ pipe' \in [Occupy -> [pc : OccupyPc, target : Source, gen : 0 .. MaxGen]]
<1>1. session.peer \in Source
  BY DEF TypeOK, Session
<1> QED
  BY <1>1, SessionTypes DEF TypeOK, SpawnPipe, OccupyPc

\* Every step keeps TypeOK.
LEMMA TypeNext == ASSUME TypeOK, [Step]_vars PROVE TypeOK'
<1> USE DEF TypeOK, Places
<1>1. CASE UNCHANGED vars
  BY <1>1 DEF vars
<1>2. CASE \/ AbandonSocket \/ ListenFailed \/ WaitTimeout \/ WaitGivesUp
           \/ WaitIoError \/ StreamEnds
  <2>1. queue' = <<>> /\ held' = FALSE
    BY <1>2 DEF AbandonSocket, ListenFailed, WaitTimeout, WaitGivesUp, WaitIoError,
                StreamEnds, CloseTcp
  <2>2. queue' \in Seq(Chunk) /\ Len(queue') <= QueueCap + (IF held' THEN 1 ELSE 0)
    BY <2>1, QueueTypes
  <2> QED
    BY <1>2, <2>1, <2>2, SessionTypes
       DEF AbandonSocket, ListenFailed, WaitTimeout, WaitGivesUp, WaitIoError,
           StreamEnds, CloseTcp, Deregister
<1>17. CASE WriteBlocks
  <2>1. Len(queue) <= QueueCap + 1
    BY QueueTypes
  <2> QED
    BY <1>17, <2>1 DEF WriteBlocks
<1>3. ASSUME NEW warm \in BOOLEAN, FirstChunk(warm) PROVE TypeOK'
  BY <1>3, SessionTypes DEF FirstChunk
<1>4. CASE ListenReady \/ WaitPipeUp \/ StopOffer
  BY <1>4 DEF ListenReady, WaitPipeUp, StopOffer
<1>5. CASE WaitOccupy
  BY <1>5, SpawnTypes, Numbers DEF WaitOccupy
<1>6. CASE WriteToApp
  <2>1. /\ queue' \in Seq(Chunk) /\ Len(queue') <= QueueCap /\ ~held'
        /\ Head(queue) \in Chunk /\ QueueCap \in Nat
    BY <1>6, QueueTypes DEF WriteToApp
  <2>2. app' \in Seq(Chunk)
    BY <1>6, <2>1, AppendProperties DEF WriteToApp
  <2>3. Len(queue') <= QueueCap + (IF held' THEN 1 ELSE 0)
    BY <2>1
  <2> QED
    BY <1>6, <2>1, <2>2, <2>3 DEF WriteToApp
<1>7. CASE ListenIdle
  BY <1>7, SessionTypes DEF ListenIdle
<1>8. ASSUME NEW k \in Occupy, ListenUp(k) PROVE TypeOK'
  BY <1>8, SpawnTypes DEF ListenUp
<1>9. ASSUME NEW k \in Occupy, PipeStarts(k) PROVE TypeOK'
  <2>1. CASE Attached
    <3>1. session.gen + 1 \in 0 .. MaxGen
      BY <1>9, <2>1, ClientBoundsAssumption
         DEF PipeStarts, Session, ClientBoundsAssumption
    <3>2. pipe' \in [Occupy -> [pc : OccupyPc, target : Source, gen : 0 .. MaxGen]]
      BY <1>9, <2>1, <3>1 DEF PipeStarts, OccupyPc
    <3> QED
      BY <1>9, <2>1, <3>2, SessionTypes DEF PipeStarts
  <2>2. CASE ~Attached
    BY <1>9, <2>2, SessionTypes, PipeTypes DEF PipeStarts, PipeEnds, OccupyPc
  <2> QED
    BY <2>1, <2>2
<1>10. ASSUME NEW k \in Occupy, PipeRefused(k) PROVE TypeOK'
  BY <1>10, SessionTypes, PipeTypes DEF PipeRefused, PipeEnds, OccupyPc
<1>11. ASSUME NEW k \in Occupy, PipeOpens(k) PROVE TypeOK'
  BY <1>11, SessionTypes, PipeTypes DEF PipeOpens, OccupyPc
<1>12. ASSUME NEW k \in Occupy, PipeCloses(k) PROVE TypeOK'
  <2> DEFINE closed == IF Current(k) THEN [session EXCEPT !.pipe = FALSE] ELSE session
  <2>1. closed \in Session
    BY SessionTypes
  <2>2. CASE Current(k) /\ Attached
    <3>1. session' = closed /\ PipeGoes(k, "start")
      BY <1>12, <2>2 DEF PipeCloses
    <3>2. pipe' \in [Occupy -> [pc : OccupyPc, target : Source, gen : 0 .. MaxGen]]
      BY <3>1, PipeTypes DEF OccupyPc
    <3> QED
      BY <1>12, <2>1, <3>1, <3>2 DEF PipeCloses
  <2>3. CASE ~(Current(k) /\ Attached)
    <3>1. PipeEnds(k, closed)
      BY <1>12, <2>3 DEF PipeCloses
    <3>2. pipe' \in [Occupy -> [pc : OccupyPc, target : Source, gen : 0 .. MaxGen]]
      BY <3>1, PipeTypes DEF PipeEnds, OccupyPc
    <3>3. session' \in Session
      BY <2>1, <3>1, SessionTypes DEF PipeEnds
    <3> QED
      BY <1>12, <3>2, <3>3 DEF PipeCloses
  <2> QED
    BY <2>2, <2>3
<1>13. ASSUME NEW k \in Occupy, PipeFails(k) PROVE TypeOK'
  BY <1>13, SessionTypes, PipeTypes DEF PipeFails, OccupyPc
<1>14. ASSUME NEW i \in Inc, DeliverAccept(i) PROVE TypeOK'
  <2>1. (session.delivered \/ QueuesResponse) \in BOOLEAN
    BY DEF Session, QueuesResponse
  <2>2. session' \in Session
    BY <1>14, <2>1, SessionTypes DEF DeliverAccept
  <2>3. queue' \in Seq(Chunk) /\ Len(queue') <= Places
    BY <1>14, QueueTypes, Numbers DEF DeliverAccept, QueuesResponse
  <2> QED
    BY <1>14, <2>2, <2>3 DEF DeliverAccept
<1>15. ASSUME NEW c \in Chunk, DeliverFrame(c) PROVE TypeOK'
  BY <1>15, QueueTypes DEF DeliverFrame
<1>16. CASE DeliverReject
  BY <1>16, SessionTypes DEF DeliverReject
<1> QED
  BY <1>1, <1>2, <1>3, <1>4, <1>5, <1>6, <1>7, <1>8, <1>9, <1>10, <1>11, <1>12,
     <1>13, <1>14, <1>15, <1>16, <1>17, WarmAssumption DEF Step, Task, WarmAssumption

-----------------------------------------------------------------------------
(* Before and after the answer *)

\* A non-empty sequence stays non-empty when a chunk is appended.
LEMMA Grows == ASSUME NEW q \in Seq(Chunk), NEW c \in Chunk PROVE Append(q, c) # <<>>
BY AppendProperties, EmptySeq

\* What is on the socket stays there.
LEMMA AppGrows == ASSUME TypeOK, [Step]_vars PROVE (app # <<>> => app' # <<>>)
<1>1. CASE UNCHANGED vars
  BY <1>1 DEF vars
<1>2. CASE WriteToApp
  <2>1. Head(queue) \in Chunk
    BY <1>2, QueueTypes DEF TypeOK, WriteToApp
  <2> QED
    BY <1>2, <2>1, Grows DEF TypeOK, WriteToApp
<1>3. CASE Step /\ ~WriteToApp
  <2>1. app' = app
    BY <1>3
       DEF Step, Task, AbandonSocket, FirstChunk, ListenReady, ListenFailed,
           WaitTimeout, WaitGivesUp, WaitIoError, WaitOccupy, WaitPipeUp,
           WriteBlocks, StreamEnds, StopOffer, ListenIdle, ListenUp, PipeStarts, PipeRefused,
           PipeOpens, PipeCloses, PipeFails, DeliverAccept, DeliverFrame,
           DeliverReject
  <2> QED
    BY <2>1
<1> QED
  BY <1>1, <1>2, <1>3

\* Every step that starts an occupation, or lets one through, has the answer
\* behind it.
LEMMA AnsweredNext ==
  ASSUME TypeOK, AnsweredFirst, ResumeAfterAnswer, [Step]_vars
  PROVE  AnsweredFirst' /\ ResumeAfterAnswer'
<1> DEFINE Type == [Occupy -> [pc : OccupyPc, target : Source, gen : 0 .. MaxGen]]
<1>a. pipe \in Type /\ session \in Session
  BY DEF TypeOK
<1>1. CASE app' # <<>>
  BY <1>1 DEF AnsweredFirst, ResumeAfterAnswer, Responded
<1>2. CASE app' = <<>>
  <2>1. app = <<>>
    BY <1>2, AppGrows
  <2>2. /\ \A k \in Occupy : pipe[k].pc = "off"
        /\ ~(session.gen > 0) /\ ~session.pipe /\ tcp # "stream"
    BY <2>1 DEF AnsweredFirst, ResumeAfterAnswer, Responded
  <2>3. pipe' = pipe
    BY <2>1, <2>2
       DEF Step, Task, vars, AbandonSocket, FirstChunk, ListenReady, ListenFailed,
           WaitTimeout, WaitGivesUp, WaitIoError, WaitOccupy, WaitPipeUp, WriteToApp,
           WriteBlocks, StreamEnds, StopOffer, ListenIdle, ListenUp, PipeStarts, PipeRefused,
           PipeOpens, PipeCloses, PipeFails, DeliverAccept, DeliverFrame,
           DeliverReject, MayRebuild, Responded
  <2>4. tcp' # "stream"
    BY <2>2
       DEF Step, Task, vars, AbandonSocket, FirstChunk, ListenReady, ListenFailed,
           WaitTimeout, WaitGivesUp, WaitIoError, WaitOccupy, WaitPipeUp, WriteToApp,
           WriteBlocks, StreamEnds, StopOffer, ListenIdle, ListenUp, PipeStarts, PipeRefused,
           PipeOpens, PipeCloses, PipeFails, DeliverAccept, DeliverFrame,
           DeliverReject, CloseTcp
  <2>5. ~(session'.gen > 0) /\ ~session'.pipe
    <3>1. CASE session' = session
      BY <2>2, <3>1
    <3>2. CASE session' \in {NoSession, [NoSession EXCEPT !.live = TRUE]}
      BY <3>2 DEF NoSession
    <3>3. CASE ListenIdle \/ DeliverReject \/ \E i \in Inc : DeliverAccept(i)
      BY <1>a, <2>2, <3>3 DEF ListenIdle, DeliverReject, DeliverAccept, Session
    <3>4. \/ session' = session
          \/ session' \in {NoSession, [NoSession EXCEPT !.live = TRUE]}
          \/ ListenIdle \/ DeliverReject \/ \E i \in Inc : DeliverAccept(i)
      BY <2>1, <2>2
         DEF Step, Task, vars, AbandonSocket, FirstChunk, ListenReady, ListenFailed,
             WaitTimeout, WaitGivesUp, WaitIoError, WaitOccupy, WaitPipeUp,
             WriteToApp, WriteBlocks, StreamEnds, StopOffer, ListenUp, PipeStarts, PipeRefused,
             PipeOpens, PipeCloses, PipeFails, DeliverFrame, Deregister,
             MayRebuild, Responded
    <3> QED
      BY <3>1, <3>2, <3>3, <3>4
  <2> QED
    BY <2>2, <2>3, <2>4, <2>5 DEF AnsweredFirst, ResumeAfterAnswer
<1> QED
  BY <1>1, <1>2

\* Nothing reaches a socket that has not been read yet.
LEMMA IdleNext == ASSUME TypeOK, IdleEmpty, [Step]_vars PROVE IdleEmpty'
<1> SUFFICES ASSUME tcp' = "idle"
             PROVE  app' = <<>> /\ queue' = <<>> /\ ~session'.live
  BY DEF IdleEmpty
<1>1. tcp = "idle" /\ app' = app /\ queue' = queue
  BY DEF Step, Task, vars, AbandonSocket, FirstChunk, ListenReady, ListenFailed,
         WaitTimeout, WaitGivesUp, WaitIoError, WaitOccupy, WaitPipeUp, WriteToApp,
         WriteBlocks, StreamEnds, StopOffer, ListenIdle, ListenUp, PipeStarts, PipeRefused,
         PipeOpens, PipeCloses, PipeFails, DeliverAccept, DeliverFrame,
         DeliverReject, CloseTcp, MayRebuild, Listening, IdleEmpty
<1>2. ~session.live
  BY <1>1 DEF IdleEmpty
<1>3. \/ session' = session \/ session' = NoSession
      \/ \E k \in Occupy : PipeEnds(k, session)
  BY <1>1, <1>2
     DEF Step, Task, vars, AbandonSocket, FirstChunk, ListenReady, ListenFailed,
         WaitTimeout, WaitGivesUp, WaitIoError, WaitOccupy, WaitPipeUp, WriteToApp,
         WriteBlocks, StreamEnds, StopOffer, ListenIdle, ListenUp, PipeStarts, PipeRefused,
         PipeOpens, PipeCloses, PipeFails, DeliverAccept, DeliverFrame,
         DeliverReject, CloseTcp, MayRebuild, Listening, Current, Attached
<1>4. session \in Session
  BY DEF TypeOK
<1> QED
  BY <1>1, <1>2, <1>3, <1>4 DEF IdleEmpty, PipeEnds, Session, NoSession

-----------------------------------------------------------------------------
(* One response *)

\* Where a sequence of chunks holds a responseChunk.
ResponsesIn(s) == {k \in DOMAIN s : s[k] \in Response}

OneAtMost(s) == \A j, k \in ResponsesIn(s) : j = k

\* The property in these words.
LEMMA Restated ==
  ResponseExactlyOnce <=>
    /\ OneAtMost(app \o queue)
    /\ session.live /\ tcp # "done" =>
         (session.delivered <=> ResponsesIn(app \o queue) # {})
BY DEF ResponseExactlyOnce, OneAtMost, ResponsesIn

\* Appending a frame adds no response.
LEMMA AppendFrame ==
  ASSUME NEW s \in Seq(Chunk), NEW c \in Chunk \ Response
  PROVE  ResponsesIn(Append(s, c)) = ResponsesIn(s)
<1>1. /\ DOMAIN s = 1 .. Len(s) /\ DOMAIN Append(s, c) = 1 .. Len(s) + 1
      /\ \A k \in 1 .. Len(s) : Append(s, c)[k] = s[k]
      /\ Append(s, c)[Len(s) + 1] = c
      /\ Len(s) \in Nat
  BY AppendProperties, LenProperties
<1>2. \A k : k \in 1 .. Len(s) + 1 <=> k \in 1 .. Len(s) \/ k = Len(s) + 1
  BY <1>1
<1> QED
  BY <1>1, <1>2 DEF ResponsesIn

\* Appending a responseChunk where there is none makes exactly one.
LEMMA AppendResponse ==
  ASSUME NEW s \in Seq(Chunk), ResponsesIn(s) = {}, NEW r \in Response, r \in Chunk
  PROVE  OneAtMost(Append(s, r)) /\ ResponsesIn(Append(s, r)) # {}
<1>1. /\ DOMAIN s = 1 .. Len(s) /\ DOMAIN Append(s, r) = 1 .. Len(s) + 1
      /\ \A k \in 1 .. Len(s) : Append(s, r)[k] = s[k]
      /\ Append(s, r)[Len(s) + 1] = r
      /\ Len(s) \in Nat
  BY AppendProperties, LenProperties
<1>2. \A k : k \in 1 .. Len(s) + 1 <=> k \in 1 .. Len(s) \/ k = Len(s) + 1
  BY <1>1
<1>3. ResponsesIn(Append(s, r)) = {Len(s) + 1}
  BY <1>1, <1>2 DEF ResponsesIn
<1> QED
  BY <1>3 DEF OneAtMost

\* Dropping what was queued leaves no second response.
LEMMA DropQueue ==
  ASSUME NEW a \in Seq(Chunk), NEW q \in Seq(Chunk), OneAtMost(a \o q)
  PROVE  OneAtMost(a \o <<>>)
<1>1. a \o <<>> = a
  BY ConcatEmptySeq
<1>2. /\ DOMAIN a = 1 .. Len(a) /\ DOMAIN (a \o q) = 1 .. Len(a) + Len(q)
      /\ \A k \in 1 .. Len(a) : (a \o q)[k] = a[k]
      /\ Len(a) \in Nat /\ Len(q) \in Nat
  BY ConcatProperties, LenProperties
<1>3. ResponsesIn(a) \subseteq ResponsesIn(a \o q)
  BY <1>2 DEF ResponsesIn
<1> QED
  BY <1>1, <1>3 DEF OneAtMost

\* Moving the head of the queue to the socket shows the same chunks.
LEMMA MoveHead ==
  ASSUME NEW a \in Seq(Chunk), NEW q \in Seq(Chunk), q # <<>>
  PROVE  Append(a, Head(q)) \o Tail(q) = a \o q
<1> DEFINE h == Head(q)
           t == Tail(q)
<1>1. h \in Chunk /\ t \in Seq(Chunk) /\ Len(t) = Len(q) - 1 /\ Len(q) \in Nat
  BY HeadTailProperties, LenProperties
<1>2. \A k \in 1 .. Len(t) : t[k] = q[k + 1]
  BY HeadTailProperties
<1>3. <<h>> \in Seq(Chunk) /\ Len(<<h>>) = 1 /\ <<h>>[1] = h /\ q[1] = h
  BY <1>1
<1>4. /\ <<h>> \o t \in Seq(Chunk)
      /\ Len(<<h>> \o t) = 1 + Len(t)
      /\ \A k \in 1 .. 1 + Len(t) :
           (<<h>> \o t)[k] = IF k <= 1 THEN <<h>>[k] ELSE t[k - 1]
  BY <1>1, <1>3, ConcatProperties
<1>5. \A k \in 1 .. Len(q) : q[k] = (<<h>> \o t)[k]
  <2> TAKE k \in 1 .. Len(q)
  <2>1. CASE k = 1
    BY <1>1, <1>3, <1>4, <2>1
  <2>2. CASE k # 1
    <3>1. k - 1 \in 1 .. Len(t) /\ (k - 1) + 1 = k /\ k \in 1 .. 1 + Len(t) /\ ~(k <= 1)
      BY <1>1, <2>2
    <3> QED
      BY <1>2, <1>4, <3>1
  <2> QED
    BY <2>1, <2>2
<1>6. /\ Head(q) \in Chunk /\ Tail(q) \in Seq(Chunk)
      /\ q = <<Head(q)>> \o Tail(q)
  <2>1. Len(q) = Len(<<h>> \o t)
    BY <1>1, <1>4
  <2> QED
    BY <1>1, <1>4, <1>5, <2>1, SeqEqual
<1>7. Append(a, Head(q)) = a \o <<Head(q)>> /\ <<Head(q)>> \in Seq(Chunk)
  BY <1>6, AppendIsConcat
<1> QED
  BY <1>6, <1>7, ConcatAssociative

\* Queueing a chunk appends it to what is shown.
LEMMA QueueChunk ==
  ASSUME NEW a \in Seq(Chunk), NEW q \in Seq(Chunk), NEW c \in Chunk
  PROVE  a \o Append(q, c) = Append(a \o q, c) /\ a \o q \in Seq(Chunk)
<1>1. Append(q, c) = q \o <<c>> /\ <<c>> \in Seq(Chunk) /\ a \o q \in Seq(Chunk)
  BY AppendIsConcat, ConcatProperties
<1>2. Append(a \o q, c) = (a \o q) \o <<c>>
  BY <1>1, AppendIsConcat
<1> QED
  BY <1>1, <1>2, ConcatAssociative

\* Every step keeps ResponseExactlyOnce.
LEMMA ResponseNext ==
  ASSUME TypeOK, IdleEmpty, ResponseExactlyOnce, [Step]_vars
  PROVE  ResponseExactlyOnce'
<1> DEFINE shown == app \o queue
           Served == session.live /\ tcp # "done"
<1>a. /\ OneAtMost(shown)
      /\ Served => (session.delivered <=> ResponsesIn(shown) # {})
  BY Restated
<1>b. app \in Seq(Chunk) /\ queue \in Seq(Chunk) /\ session \in Session
  BY DEF TypeOK
<1> SUFFICES /\ OneAtMost(shown')
             /\ Served' => (session'.delivered <=> ResponsesIn(shown') # {})
  BY DEF ResponseExactlyOnce, OneAtMost, ResponsesIn
<1>1. CASE CloseTcp /\ app' = app
  BY <1>1, <1>a, <1>b, DropQueue DEF CloseTcp
<1>2. CASE \E warm \in Warm : FirstChunk(warm)
  <2>1. app' = app /\ queue' = queue /\ app = <<>> /\ queue = <<>>
    BY <1>2 DEF FirstChunk, IdleEmpty
  <2>2. ~session'.delivered
    BY <1>2 DEF FirstChunk, NoSession
  <2>3. shown' = <<>>
    BY <2>1, <1>b, ConcatEmptySeq
  <2>4. ResponsesIn(<<>>) = {}
    BY DEF ResponsesIn
  <2> QED
    BY <2>2, <2>3, <2>4 DEF OneAtMost
<1>3. CASE WriteToApp
  BY <1>3, <1>a, <1>b, MoveHead DEF WriteToApp
<1>4. ASSUME NEW i \in Inc, DeliverAccept(i)
      PROVE  /\ OneAtMost(shown')
             /\ Served' => (session'.delivered <=> ResponsesIn(shown') # {})
  <2>1. app' = app /\ tcp' = tcp /\ session.live
    BY <1>4 DEF DeliverAccept
  <2>2. session'.delivered = (session.delivered \/ QueuesResponse)
    BY <1>4, <1>b DEF DeliverAccept, Session
  <2>3. CASE QueuesResponse
    <3>1. ResponsesIn(shown) = {}
      BY <1>a, <2>1, <2>3 DEF QueuesResponse
    <3>2. <<i, 1>> \in Response /\ <<i, 1>> \in Chunk /\ queue' = Append(queue, <<i, 1>>)
      BY <1>4, <2>3, Numbers DEF DeliverAccept
    <3>3. shown' = Append(shown, <<i, 1>>) /\ shown \in Seq(Chunk)
      BY <1>b, <2>1, <3>2, QueueChunk
    <3>4. OneAtMost(Append(shown, <<i, 1>>)) /\ ResponsesIn(Append(shown, <<i, 1>>)) # {}
      BY <3>1, <3>2, <3>3, AppendResponse
    <3> QED
      BY <2>2, <2>3, <3>3, <3>4
  <2>4. CASE ~QueuesResponse
    BY <1>4, <1>a, <2>1, <2>2, <2>4 DEF DeliverAccept
  <2> QED
    BY <2>3, <2>4
<1>5. ASSUME NEW c \in Chunk \ Response, DeliverFrame(c)
      PROVE  /\ OneAtMost(shown')
             /\ Served' => (session'.delivered <=> ResponsesIn(shown') # {})
  <2>1. app' = app /\ tcp' = tcp /\ session' = session
    BY <1>5 DEF DeliverFrame
  <2>2. ResponsesIn(shown') = ResponsesIn(shown)
    <3>1. CASE queue' = queue
      BY <2>1, <3>1
    <3>2. CASE queue' = Append(queue, c)
      BY <1>b, <2>1, <3>2, QueueChunk, AppendFrame
    <3> QED
      BY <1>5, <3>1, <3>2 DEF DeliverFrame
  <2> QED
    BY <1>a, <2>1, <2>2 DEF OneAtMost
<1>6. CASE /\ app' = app /\ queue' = queue
           /\ Served' => Served /\ session'.delivered = session.delivered
  BY <1>6, <1>a
<1>7. CASE \E k \in Occupy :
             \/ ListenUp(k) \/ PipeStarts(k) \/ PipeRefused(k) \/ PipeOpens(k)
             \/ PipeCloses(k) \/ PipeFails(k)
  <2>1. app' = app /\ queue' = queue /\ tcp' = tcp
    BY <1>7 DEF ListenUp, PipeStarts, PipeRefused, PipeOpens, PipeCloses, PipeFails
  <2>2. session'.live => session.live /\ session'.delivered = session.delivered
    BY <1>7, <1>b
       DEF ListenUp, SpawnPipe, PipeStarts, PipeRefused, PipeOpens, PipeCloses,
           PipeFails, PipeEnds, Session, NoSession
  <2> QED
    BY <1>6, <2>1, <2>2
<1>8. CASE UNCHANGED vars \/ WriteBlocks \/ ListenReady \/ WaitOccupy \/ WaitPipeUp \/ StopOffer
           \/ ListenIdle \/ DeliverReject
  <2>1. /\ app' = app /\ queue' = queue /\ (tcp' # "done" => tcp # "done")
    BY <1>8 DEF vars, WriteBlocks, ListenReady, WaitOccupy, WaitPipeUp, StopOffer, ListenIdle,
                DeliverReject
  <2>2. session'.live => session.live /\ session'.delivered = session.delivered
    BY <1>8, <1>b
       DEF vars, WriteBlocks, ListenReady, WaitOccupy, WaitPipeUp, StopOffer, ListenIdle,
           DeliverReject, SpawnPipe, Session
  <2> QED
    BY <1>6, <2>1, <2>2
<1>9. CASE AbandonSocket \/ ListenFailed \/ WaitTimeout \/ WaitGivesUp
           \/ WaitIoError \/ StreamEnds
  BY <1>1, <1>9 DEF AbandonSocket, ListenFailed, WaitTimeout, WaitGivesUp,
                    WaitIoError, StreamEnds
<1> QED
  BY <1>2, <1>3, <1>4, <1>5, <1>7, <1>8, <1>9 DEF Step, Task

-----------------------------------------------------------------------------
(* What one step does, for DuplexLine_proofs *)

\* The steps that bring neither a chunk nor a peer.
OwnStep == Task \/ (\E k \in Occupy : PipeFails(k)) \/ DeliverReject

\* Such a step moves a chunk from the queue to the socket, or drops the queue.
LEMMA OwnSteps ==
  ASSUME OwnStep PROVE WriteToApp \/ (app' = app /\ queue' \in {queue, <<>>})
BY DEF OwnStep, Task, AbandonSocket, FirstChunk, ListenReady, ListenFailed,
       WaitTimeout, WaitGivesUp, WaitIoError, WaitOccupy, WaitPipeUp, WriteBlocks, StreamEnds,
       StopOffer, ListenIdle, ListenUp, PipeStarts, PipeRefused, PipeOpens,
       PipeCloses, PipeFails, DeliverReject, CloseTcp

\* A session gets its peer from an accept, a task its target from the session.
LEMMA PeerSteps ==
  ASSUME TypeOK, OwnStep
  PROVE  /\ session'.peer \in {0, session.peer}
         /\ \A k \in Occupy : pipe'[k].target \in {pipe[k].target, session.peer}
<1> DEFINE Kept == /\ session'.peer \in {0, session.peer}
                   /\ \A k \in Occupy :
                        pipe'[k].target \in {pipe[k].target, session.peer}
<1>a. session \in Session
  BY DEF TypeOK
<1>b. pipe \in [Occupy -> [pc : OccupyPc, target : Source, gen : 0 .. MaxGen]]
  BY DEF TypeOK
<1>1. CASE \/ AbandonSocket \/ (\E warm \in Warm : FirstChunk(warm))
           \/ ListenReady \/ ListenFailed \/ WaitTimeout \/ WaitGivesUp
           \/ WaitIoError \/ WaitPipeUp \/ WriteBlocks
           \/ WriteToApp \/ StreamEnds \/ StopOffer
  <2>1. session' \in {session, NoSession, [NoSession EXCEPT !.live = TRUE]} /\ pipe' = pipe
    BY <1>1
       DEF AbandonSocket, FirstChunk, ListenReady, ListenFailed, WaitTimeout,
           WaitGivesUp, WaitIoError, WaitPipeUp, WriteToApp, WriteBlocks, StreamEnds, StopOffer,
           Deregister
  <2> QED
    BY <2>1 DEF NoSession
<1>5. CASE ListenIdle \/ DeliverReject
  BY <1>5, <1>a DEF ListenIdle, DeliverReject, Session
<1>2. ASSUME NEW k \in Occupy, SpawnPipe(k) PROVE Kept
  BY <1>2, <1>a, <1>b DEF SpawnPipe, Session
<1>3. ASSUME NEW k \in Occupy,
             PipeStarts(k) \/ PipeRefused(k) \/ PipeOpens(k) \/ PipeCloses(k)
      PROVE  Kept
  <2>1. session'.peer = session.peer
    BY <1>3, <1>a DEF PipeStarts, PipeRefused, PipeOpens, PipeCloses, PipeEnds, Session
  <2>2. \A j \in Occupy : pipe'[j].target = pipe[j].target
    BY <1>3, <1>b
       DEF PipeStarts, PipeRefused, PipeOpens, PipeCloses, PipeEnds, PipeGoes
  <2> QED
    BY <2>1, <2>2
<1>4. ASSUME NEW k \in Occupy, PipeFails(k) PROVE Kept
  BY <1>4, <1>b DEF PipeFails, PipeGoes, NoSession
<1> QED
  BY <1>1, <1>2, <1>3, <1>4, <1>5, Numbers DEF OwnStep, Task, WaitOccupy, ListenUp

\* How the socket passes from one state to the next, and what it was shown then.
LEMMA SocketSteps ==
  ASSUME ResumeAfterAnswer, [Step]_vars
  PROVE  \/ WriteToApp
         \/ /\ app' = app
            /\ \/ tcp' = tcp
               \/ tcp = "idle" /\ tcp' \in {"listen", "wait"}
               \/ tcp = "listen" /\ tcp' = "wait"
               \/ tcp = "wait" /\ tcp' = "stream" /\ app # <<>>
               \/ tcp # "done" /\ tcp' = "done"
BY DEF Step, Task, vars, AbandonSocket, FirstChunk, ListenReady, ListenFailed,
       WaitTimeout, WaitGivesUp, WaitIoError, WaitOccupy, WaitPipeUp, WriteBlocks, StreamEnds,
       StopOffer, ListenIdle, ListenUp, PipeStarts, PipeRefused, PipeOpens,
       PipeCloses, PipeFails, DeliverAccept, DeliverFrame, DeliverReject, CloseTcp,
       ResumeAfterAnswer

\* A responseChunk at the head of the queue is the first of the line.
LEMMA HeadResponse ==
  ASSUME TypeOK, ResponseExactlyOnce, queue # <<>>, Head(queue) \in Response
  PROVE  \A k \in DOMAIN app : app[k] \notin Response
<1> DEFINE shown == app \o queue
<1>1. app \in Seq(Chunk) /\ queue \in Seq(Chunk)
  BY DEF TypeOK
<1>2. Len(queue) > 0 /\ Len(queue) \in Nat /\ Len(app) \in Nat /\ Head(queue) = queue[1]
  BY <1>1, EmptySeq, LenProperties
<1>3. /\ DOMAIN app = 1 .. Len(app) /\ DOMAIN shown = 1 .. Len(app) + Len(queue)
      /\ \A k \in 1 .. Len(app) : shown[k] = app[k]
      /\ shown[Len(app) + 1] = queue[(Len(app) + 1) - Len(app)]
  BY <1>1, <1>2, ConcatProperties, LenProperties
<1>4. Len(app) + 1 \in ResponsesIn(shown)
  BY <1>2, <1>3 DEF ResponsesIn
<1>5. \A k \in DOMAIN app : app[k] \in Response => k \in ResponsesIn(shown)
  BY <1>2, <1>3 DEF ResponsesIn
<1>6. \A k \in DOMAIN app : k # Len(app) + 1
  BY <1>2, <1>3
<1>7. OneAtMost(shown)
  BY Restated
<1> QED
  BY <1>4, <1>5, <1>6, <1>7 DEF OneAtMost

-----------------------------------------------------------------------------
(* The theorems *)

\* The invariant holds initially.
LEMMA InitInv == ASSUME Init PROVE IInv
<1>1. TypeOK
  <2>1. session \in Session
    BY SessionTypes DEF Init
  <2>2. <<>> \in Seq(Chunk) /\ Len(<<>>) <= QueueCap
    BY Numbers, EmptySeq
  <2>3. Init => Places = QueueCap
    BY ClientBoundsAssumption DEF Init, Places, ClientBoundsAssumption
  <2> QED
    BY <2>1, <2>2, <2>3, Numbers DEF Init, TypeOK, OccupyPc
<1>2. AnsweredFirst /\ ResumeAfterAnswer /\ IdleEmpty
  BY DEF Init, AnsweredFirst, ResumeAfterAnswer, IdleEmpty, NoSession
<1>3. ResponseExactlyOnce
  <2>1. app \o queue = <<>>
    BY <1>1, ConcatEmptySeq DEF Init, TypeOK
  <2>2. ResponsesIn(<<>>) = {}
    BY DEF ResponsesIn
  <2> QED
    BY <2>1, <2>2, Restated DEF Init, NoSession, OneAtMost
<1> QED
  BY <1>1, <1>2, <1>3 DEF IInv

\* Every step of the line keeps it.
LEMMA StepKeeps == ASSUME IInv, [Step]_vars PROVE IInv'
BY TypeNext, AnsweredNext, IdleNext, ResponseNext DEF IInv

\* IInv is an invariant of the client's line.
THEOREM Invariance == Spec => []IInv
<1>1. Init => IInv
  BY InitInv
<1>2. IInv /\ [Step]_vars => IInv'
  BY StepKeeps
<1>3. [Next]_vars => [Step]_vars
  BY DEF Next, Step
<1> QED
  BY <1>1, <1>2, <1>3, PTL DEF Spec

\* run_dynamic_local_tcp_stream, its session, its queue and its tasks keep the
\* values the code gives them; in particular the queue stays within its bound.
THEOREM TypeCorrect == Spec => []TypeOK
<1>1. IInv => TypeOK
  BY DEF IInv
<1> QED
  BY <1>1, Invariance, PTL

\* The application's later bytes wait for an answer: neither the pipe nor the
\* stream loop exists before a chunk was written to the socket.
THEOREM ResumeWaits == Spec => []ResumeAfterAnswer
<1>1. IInv => ResumeAfterAnswer
  BY DEF IInv
<1> QED
  BY <1>1, Invariance, PTL

\* However often the accept is resent and whoever sends it, one responseChunk
\* at most reaches the application, and response_chunk_delivered tells
\* whether one did for as long as the socket is served.
THEOREM OneResponse == Spec => []ResponseExactlyOnce
<1>1. IInv => ResponseExactlyOnce
  BY DEF IInv
<1> QED
  BY <1>1, Invariance, PTL
=============================================================================

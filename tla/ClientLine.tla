------------------------------ MODULE ClientLine ------------------------------
(***************************************************************************)
(* The client daemon's side of one client-duplex line: the task that       *)
(* serves one accepted local socket (run_dynamic_local_tcp_stream), the    *)
(* session and the return queue it registers, the duplex_offer resend task *)
(* and the task that occupies the proxy's listen.                          *)
(*                                                                         *)
(* Chunk <<s, n>> is the n-th chunk the proxy read from its upstream       *)
(* connection s.  A responseChunk is chunk 1 of some s > 0; it comes with  *)
(* the accept of incarnation s.  Every other chunk comes as a frame.       *)
(*                                                                         *)
(* Occupy task 1 is the one the TCP task spawns; the others come from a    *)
(* listen that was opened for this line alone and is up again              *)
(* (rebuild_l0_pipes_after_listen_up).  pipe_cancel is left out: a pipe    *)
(* may end at any step.  So are the application's own bytes                *)
(* (pending_resume, the frames it sends).                                  *)
(***************************************************************************)
EXTENDS Integers, Sequences

CONSTANTS
  Warm,         \* whether a pre-warmed identity is at hand: {TRUE}, {FALSE}, both
  MaxInc,       \* bound: incarnations of the handle at the proxy
  MaxGen,       \* bound: pipe_gen of the session
  MaxOccupy,    \* bound: occupy tasks spawned for the line
  MaxChunks,    \* bound: chunks of one upstream connection
  QueueCap,     \* capacity of the return queue (64 in the code)
  MaxReceived   \* bound: chunks the line queues when it is checked alone

ASSUME WarmAssumption == Warm \in SUBSET BOOLEAN

ASSUME ClientBoundsAssumption ==
  /\ MaxInc \in Nat \ {0}
  /\ MaxGen \in Nat \ {0}
  /\ MaxOccupy \in Nat \ {0}
  /\ MaxChunks \in Nat \ {0}
  /\ QueueCap \in Nat \ {0}
  /\ MaxReceived \in Nat

VARIABLES
  tcp,        \* where run_dynamic_local_tcp_stream stands
  app,        \* chunks written to the application socket, in order
  held,       \* a write to that socket does not go on: it is not read
  stream,     \* local_streams holds the line's sender
  queue,      \* the bounded queue behind that sender
  session,    \* the line's entry in the duplex map
  offering,   \* the duplex_offer resend task
  cold,       \* the listen was opened for this line: it may rebuild a pipe
  pipe        \* pipe[k]: occupy task k, its target and its generation

vars == <<tcp, app, held, stream, queue, session, offering, cold, pipe>>

Inc == 1 .. MaxInc
Source == 0 .. MaxInc
Occupy == 1 .. MaxOccupy
Chunk == Source \X (1 .. MaxChunks)
Response == Inc \X {1}

-----------------------------------------------------------------------------
(* State *)

\* attached and rejected are the two booleans of the code, of which at most
\* one is set.  peer is the incarnation whose temporary listen wallet the
\* session points to; 0 is none.  pipe says whether pipe_tx is installed.
Session ==
  [live : BOOLEAN, status : {"waiting", "attached", "rejected"},
   peer : Source, delivered : BOOLEAN, pipe : BOOLEAN, inflight : BOOLEAN,
   gen : 0 .. MaxGen]

NoSession ==
  [live |-> FALSE, status |-> "waiting", peer |-> 0, delivered |-> FALSE,
   pipe |-> FALSE, inflight |-> FALSE, gen |-> 0]

OccupyPc == {"off", "start", "open", "up", "end"}

\* The queue holds QueueCap chunks; the one whose write is held up has left it.
Places == QueueCap + (IF held THEN 1 ELSE 0)

Room == Len(queue) < Places

TypeOK ==
  /\ tcp \in {"idle", "listen", "wait", "stream", "done"}
  /\ app \in Seq(Chunk)
  /\ stream \in BOOLEAN
  /\ held \in BOOLEAN
  /\ queue \in Seq(Chunk) /\ Len(queue) <= Places
  /\ session \in Session
  /\ offering \in {"off", "run", "stop"}
  /\ cold \in BOOLEAN
  /\ pipe \in [Occupy -> [pc : OccupyPc, target : Source, gen : 0 .. MaxGen]]

Init ==
  /\ tcp = "idle"
  /\ app = <<>>
  /\ held = FALSE
  /\ stream = FALSE
  /\ queue = <<>>
  /\ session = NoSession
  /\ offering = "off"
  /\ cold = FALSE
  /\ pipe = [k \in Occupy |-> [pc |-> "off", target |-> 0, gen |-> 0]]

-----------------------------------------------------------------------------
(* The TCP task *)

\* The temporary l0_listen is released when the TCP task returns
\* (ReleaseListenOnDrop), whatever the path.
Listening == tcp \in {"wait", "stream"}

\* The TCP task returns; the receiving end of its queue goes with it.
CloseTcp ==
  /\ tcp' = "done"
  /\ queue' = <<>>
  /\ held' = FALSE

\* The paths that remove both the return sender and the session.
Deregister ==
  /\ stream' = FALSE
  /\ session' = NoSession

\* The socket closes, or stays silent for 15 s, before its first bytes.
AbandonSocket ==
  /\ tcp = "idle"
  /\ CloseTcp
  /\ UNCHANGED <<app, stream, session, offering, cold, pipe>>

\* First bytes read: bind an identity, register the return queue and the
\* session.  A pre-warmed identity is already listening, so the offer task
\* starts at once; otherwise the task first waits for its own l0_listen.
FirstChunk(warm) ==
  /\ tcp = "idle"
  /\ stream' = TRUE
  /\ session' = [NoSession EXCEPT !.live = TRUE]
  /\ cold' = ~warm
  /\ IF warm THEN tcp' = "wait" /\ offering' = "run"
             ELSE tcp' = "listen" /\ UNCHANGED offering
  /\ UNCHANGED <<app, held, queue, pipe>>

ListenReady ==
  /\ tcp = "listen"
  /\ tcp' = "wait"
  /\ offering' = "run"
  /\ UNCHANGED <<app, held, stream, queue, session, cold, pipe>>

\* The listen worker gave up (pool_full, first SSE lost) or 120 s passed.
ListenFailed ==
  /\ tcp = "listen"
  /\ CloseTcp
  /\ Deregister
  /\ UNCHANGED <<app, offering, cold, pipe>>

\* response_written_at is set by the first write to the socket in the loop.
Responded == app # <<>>

\* The wait loop looks at its deadline and takes its snapshot at the top of
\* each round, which it does not reach while a write is held up.

\* Mutant: the deadline of the wait loop starts only with the accept.
WaitTimeoutAfterAccept ==
  /\ tcp = "wait"
  /\ ~held
  /\ offering = "stop"
  /\ CloseTcp
  /\ Deregister
  /\ UNCHANGED <<app, offering, cold, pipe>>

\* Deadline of the wait loop.
WaitTimeout ==
  /\ tcp = "wait"
  /\ ~held
  /\ CloseTcp
  /\ Deregister
  /\ UNCHANGED <<app, offering, cold, pipe>>

\* The loop's snapshot shows the session gone or rejected, or the socket
\* reaches EOF before the response: only the sender is deregistered.
WaitGivesUp ==
  /\ tcp = "wait"
  /\ ~held
  /\ \/ ~session.live
     \/ session.status = "rejected"
     \/ ~Responded
  /\ CloseTcp
  /\ stream' = FALSE
  /\ UNCHANGED <<app, session, offering, cold, pipe>>

\* A socket error in the wait loop, a write that is held up included, or the
\* pipe closing under the resume bytes, returns through `?`: nothing is
\* deregistered.
WaitIoError ==
  /\ tcp = "wait"
  /\ CloseTcp
  /\ UNCHANGED <<app, stream, session, offering, cold, pipe>>

\* spawn_l0_pipe, once its checks have let it through.
SpawnPipe(k) ==
  /\ pipe[k].pc = "off"
  /\ pipe' = [pipe EXCEPT ![k].pc = "start", ![k].target = session.peer]
  /\ session' = [session EXCEPT !.inflight = TRUE]

\* Something to occupy, and nobody at it.
OccupyWanted ==
  /\ session.live
  /\ session.status = "attached"
  /\ ~session.pipe
  /\ ~session.inflight
  /\ session.peer # 0

\* Occupy the proxy's listen, once, after the response is on the socket.
WaitOccupy ==
  /\ tcp = "wait"
  /\ ~held
  /\ Responded
  /\ OccupyWanted
  /\ SpawnPipe(1)
  /\ UNCHANGED <<tcp, app, held, stream, queue, offering, cold>>

WaitPipeUp ==
  /\ tcp = "wait"
  /\ ~held
  /\ session.live
  /\ session.status # "rejected"
  /\ session.pipe
  /\ tcp' = "stream"
  /\ UNCHANGED <<app, held, stream, queue, session, offering, cold, pipe>>

\* write_all and flush have no time limit: an application that does not read
\* holds the whole task up, and only a socket error or its reading ends that.
WriteBlocks ==
  /\ tcp \in {"wait", "stream"}
  /\ queue # <<>>
  /\ ~held
  /\ held' = TRUE
  /\ UNCHANGED <<tcp, app, stream, queue, session, offering, cold, pipe>>

\* return_rx.recv() and the write, in the wait loop and in the stream loop.
WriteToApp ==
  /\ tcp \in {"wait", "stream"}
  /\ queue # <<>>
  /\ held' = FALSE
  /\ app' = Append(app, Head(queue))
  /\ queue' = Tail(queue)
  /\ UNCHANGED <<tcp, stream, session, offering, cold, pipe>>

\* The stream loop ends on local EOF, a socket error or a closed pipe channel.
StreamEnds ==
  /\ tcp = "stream"
  /\ CloseTcp
  /\ Deregister
  /\ UNCHANGED <<app, offering, cold, pipe>>

-----------------------------------------------------------------------------
(* spawn_duplex_offer *)

\* duplex_initiator_should_stop_offer
InitiatorShouldStopOffer == session.status # "waiting"

MayPostOffer == offering = "run" /\ session.live /\ ~InitiatorShouldStopOffer

StopOffer ==
  /\ offering = "run"
  /\ ~session.live \/ InitiatorShouldStopOffer
  /\ offering' = "stop"
  /\ UNCHANGED <<tcp, app, held, stream, queue, session, cold, pipe>>

-----------------------------------------------------------------------------
(* What arrives on the line's listen *)

\* Mutant: every copy of the accept queues its responseChunk.
QueuesEveryResponse ==
  /\ stream
  /\ tcp # "done"
  /\ Room

\* apply_duplex_accept queues a responseChunk: once per session, and only
\* while the local sender is registered, its receiver alive and its queue
\* not full.
QueuesResponse ==
  /\ ~session.delivered
  /\ stream
  /\ tcp # "done"
  /\ Room

\* The accept is opened with the key of the session's identity, so it needs
\* the session, not the TCP task.  Signer, key and age are those of the line.
DeliverAccept(i) ==
  /\ session.live
  /\ session' = [session EXCEPT !.status = "attached", !.peer = i,
                                !.delivered = @ \/ QueuesResponse]
  /\ queue' = IF QueuesResponse THEN Append(queue, <<i, 1>>) ELSE queue
  /\ UNCHANGED <<tcp, app, held, stream, offering, cold, pipe>>

\* apply_duplex_frame: to the local sender of the session, or refused when
\* there is none or its queue is full.
DeliverFrame(c) ==
  /\ Listening
  /\ queue' = IF session.live /\ stream /\ Room
                THEN Append(queue, c) ELSE queue
  /\ UNCHANGED <<tcp, app, held, stream, session, offering, cold, pipe>>

\* mark_duplex_rejected.  The blob is sealed with the line's key: without a
\* session it is refused.
DeliverReject ==
  /\ Listening
  /\ session' = IF session.live
                  THEN [session EXCEPT !.status = "rejected", !.pipe = FALSE,
                                       !.inflight = FALSE]
                  ELSE session
  /\ UNCHANGED <<tcp, app, held, stream, queue, offering, cold, pipe>>

-----------------------------------------------------------------------------
(* The listen worker of a cold line *)

\* Mutant: the first occupation is not left to the TCP task.
MayRebuildFirst == cold /\ Listening /\ OccupyWanted

\* should_rebuild_l0_pipe_after_listen_up: the first occupation is the TCP
\* task's.
MayRebuild == cold /\ Listening /\ OccupyWanted /\ session.gen > 0

\* HTTP 200 on the listen, which reconnects on its own for as long as it lives.
ListenUp(k) ==
  /\ MayRebuild
  /\ \A j \in Occupy : j < k => pipe[j].pc # "off"
  /\ SpawnPipe(k)
  /\ UNCHANGED <<tcp, app, held, stream, queue, offering, cold>>

\* clear_l0_pipe_after_listen_timeout
ListenIdle ==
  /\ cold
  /\ Listening
  /\ session.pipe
  /\ session' = [session EXCEPT !.pipe = FALSE]
  /\ UNCHANGED <<tcp, app, held, stream, queue, offering, cold, pipe>>

-----------------------------------------------------------------------------
(* The occupy tasks (spawn_l0_pipe) *)

PipeGoes(k, pc) == pipe' = [pipe EXCEPT ![k].pc = pc]

Attached == session.live /\ session.status = "attached"

\* The guard of a task that ends clears the flag of the session in the map.
PipeEnds(k, s) ==
  /\ PipeGoes(k, "end")
  /\ session' = [s EXCEPT !.inflight = FALSE]

\* Top of the loop: the session must still be there, attached.
PipeStarts(k) ==
  /\ pipe[k].pc = "start"
  /\ IF Attached
       THEN /\ session.gen < MaxGen
            /\ session' = [session EXCEPT !.gen = @ + 1]
            /\ pipe' = [pipe EXCEPT ![k].pc = "open", ![k].gen = session.gen + 1]
       ELSE PipeEnds(k, session)
  /\ UNCHANGED <<tcp, app, held, stream, queue, offering, cold>>

\* The peer's route key cannot wrap the l0_connect.
PipeRefused(k) ==
  /\ pipe[k].pc = "start"
  /\ PipeEnds(k, session)
  /\ UNCHANGED <<tcp, app, held, stream, queue, offering, cold>>

\* The session in the map is the one of task k's generation.
Current(k) == session.live /\ session.gen = pipe[k].gen

\* HTTP 200: on_up installs the sender if the session still wants it.
PipeOpens(k) ==
  /\ pipe[k].pc = "open"
  /\ PipeGoes(k, "up")
  /\ session' = IF Current(k) /\ Attached THEN [session EXCEPT !.pipe = TRUE]
                                          ELSE session
  /\ UNCHANGED <<tcp, app, held, stream, queue, offering, cold>>

\* EOF, cancel, or the heartbeat found the session gone or rejected: clear
\* the sender (l0_pipe_closed_should_retry) and occupy again while attached.
PipeCloses(k) ==
  /\ pipe[k].pc = "up"
  /\ LET closed == IF Current(k) THEN [session EXCEPT !.pipe = FALSE] ELSE session
     IN IF Current(k) /\ Attached
          THEN session' = closed /\ PipeGoes(k, "start")
          ELSE PipeEnds(k, closed)
  /\ UNCHANGED <<tcp, app, held, stream, queue, offering, cold>>

\* Any occupation error ends the line's transport: one last reject to the
\* peer, and the session is removed.
PipeFails(k) ==
  /\ pipe[k].pc \in {"open", "up"}
  /\ PipeGoes(k, "end")
  /\ session' = NoSession
  /\ UNCHANGED <<tcp, app, held, stream, queue, offering, cold>>

-----------------------------------------------------------------------------
\* The steps that no message carries in or out.
Task ==
  \/ AbandonSocket
  \/ \E warm \in Warm : FirstChunk(warm)
  \/ ListenReady \/ ListenFailed
  \/ WaitTimeout \/ WaitGivesUp \/ WaitIoError
  \/ WaitOccupy \/ WaitPipeUp
  \/ WriteBlocks \/ WriteToApp \/ StreamEnds
  \/ StopOffer
  \/ ListenIdle
  \/ \E k \in Occupy : ListenUp(k) \/ PipeStarts(k) \/ PipeRefused(k)
                         \/ PipeOpens(k) \/ PipeCloses(k)

\* Alone, once the offer may have been posted, any message may arrive.
Next ==
  \/ Task
  \/ \E k \in Occupy : PipeFails(k)
  \/ \E i \in Inc : offering # "off" /\ DeliverAccept(i)
  \/ \E c \in Chunk \ Response :
       Len(app) + Len(queue) < MaxReceived /\ DeliverFrame(c)
  \/ DeliverReject

Spec == Init /\ [][Next]_vars

\* The listen wait, the wait loop and the offer task poll for as long as the
\* daemon runs, the wait loop only at its top: a write that is held up
\* disables WaitTimeout.  Nothing is assumed of the application.
Fairness ==
  /\ WF_vars(ListenFailed)
  /\ WF_vars(WaitTimeout)
  /\ WF_vars(StopOffer)

FairSpec == Spec /\ Fairness

-----------------------------------------------------------------------------
(* Properties *)

\* The application's later bytes are held back until it has had an answer:
\* neither the pipe nor the stream loop exists before a chunk was written to
\* the socket, whichever of accept, reject and frames came first.
ResumeAfterAnswer == (session.pipe \/ tcp = "stream") => app # <<>>

\* The accept is resent until the reverse pipe is up, and several
\* incarnations may each send theirs: one responseChunk at most ever reaches
\* the socket, and while the socket is served response_chunk_delivered says
\* exactly whether one did.
ResponseExactlyOnce ==
  LET shown == app \o queue
      responses == {k \in DOMAIN shown : shown[k] \in Response}
  IN /\ \A j, k \in responses : j = k
     /\ session.live /\ tcp # "done" => (session.delivered <=> responses # {})

\* A socket whose first bytes were read, whether its identity was at hand or
\* not, is not held back for ever: it streams or it is closed.  The code has
\* one exception, which the premise names: a write the application never
\* takes keeps the wait loop from its deadline.
SocketSettles ==
  []<>~held => (tcp \in {"listen", "wait"} ~> tcp \in {"stream", "done"})
=============================================================================

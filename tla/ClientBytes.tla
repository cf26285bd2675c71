------------------------------ MODULE ClientBytes ------------------------------
(***************************************************************************)
(* The application's own bytes on one client-duplex line: from the local   *)
(* socket through the TCP task (run_dynamic_local_tcp_stream), the occupy  *)
(* task (spawn_l0_pipe, run_occupied_pipe) and the mailboxes to the queue  *)
(* and the upstream socket at the proxy (apply_duplex_frame,               *)
(* run_proxy_stream).                                                      *)
(*                                                                         *)
(* Chunk n is what the n-th read of the socket returned.  Chunk 1 is       *)
(* first_chunk and travels in the duplex_offer, the others are frames.     *)
(* The mailboxes are external: they hand on what a pipe wrote, in order,   *)
(* and may lose the end of it when the pipe is torn down from outside.     *)
(* One incarnation of the handle, whose session ends when it is rejected;  *)
(* ClientLine and ProxyLine have the others.                               *)
(***************************************************************************)
EXTENDS Naturals, Sequences, SequencesExt

CONSTANTS
  MaxChunks,   \* bound: chunks the application writes
  MaxPipes,    \* bound: occupations of the line
  Entries,     \* entries one occupation walks: 1 with the SI pool
  ProxyCap     \* capacity of the proxy's queue (64 in the code)

BytesAssumption ==
  /\ MaxChunks \in Nat \ {0} /\ MaxPipes \in Nat \ {0}
  /\ Entries \in Nat \ {0} /\ ProxyCap \in Nat \ {0}

VARIABLES
  tcp,        \* where the TCP task stands; it owns the five below
  read,       \* reads of the socket that returned bytes
  eof,        \* local_eof
  pending,    \* pending_resume
  resume,     \* the chunk given to spawn_l0_pipe as first blob, 0 if none
  mine,       \* the occupation whose sender the task took, 0 before
  session,    \* the line's entry in the duplex map
  answer,     \* the responseChunk: with the proxy, queued, on the socket
  occupy,     \* the occupy task
  channel,    \* the channel behind the sender of the present occupation
  wire,       \* frames written to the occupied TCP and not yet at the proxy
  proxy,      \* where spawn_proxy_handshake's task stands
  queue,      \* the proxy's queue, from_peer
  upstream,   \* chunks written to the upstream socket
  refused     \* history: frames that found the proxy's queue full

tcpVars == <<tcp, read, eof, pending, resume, mine>>
proxyVars == <<proxy, queue, upstream, refused>>
vars == <<tcpVars, session, answer, occupy, channel, wire, proxyVars>>

Chunk == 1 .. MaxChunks
Pipe == 1 .. MaxPipes

TypeOK ==
  /\ tcp \in {"wait", "flush", "stream", "done"}
  /\ read \in Chunk
  /\ eof \in BOOLEAN
  /\ pending \in Seq(Chunk) /\ channel \in Seq(Chunk) /\ wire \in Seq(Chunk)
  /\ resume \in Chunk \cup {0}
  /\ mine \in Pipe \cup {0}
  /\ session \in [status : {"waiting", "attached", "gone"}, pipe : Pipe \cup {0},
                  tried : BOOLEAN]
  /\ answer \in {"none", "queued", "written"}
  /\ occupy \in [pc : {"off", "start", "open", "first", "up", "pause", "end"},
                 nr : Pipe \cup {0}, left : 0 .. Entries, first : Chunk \cup {0}]
  /\ proxy \in {"none", "accepted", "draining", "gone"}
  /\ queue \in Seq(Chunk) /\ Len(queue) <= ProxyCap
  /\ upstream \in Seq(Chunk)
  /\ refused \subseteq Chunk

\* The first bytes were read, the line's listen is up, the offer is posted.
Init ==
  /\ tcp = "wait" /\ read = 1 /\ eof = FALSE
  /\ pending = <<>> /\ resume = 0 /\ mine = 0
  /\ session = [status |-> "waiting", pipe |-> 0, tried |-> FALSE]
  /\ answer = "none"
  /\ occupy = [pc |-> "off", nr |-> 0, left |-> 0, first |-> 0]
  /\ channel = <<>> /\ wire = <<>>
  /\ proxy = "none" /\ queue = <<>> /\ upstream = <<>> /\ refused = {}

-----------------------------------------------------------------------------
(* The TCP task: the wait loop *)

Attached == session.status = "attached"
Responded == answer = "written"

RemoveSession == [session EXCEPT !.status = "gone", !.pipe = 0]

\* return_rx.recv(): the responseChunk goes to the socket.
WriteResponse ==
  /\ tcp = "wait"
  /\ answer = "queued"
  /\ answer' = "written"
  /\ UNCHANGED <<tcpVars, session, occupy, channel, wire, proxyVars>>

\* Bytes that come before there is a pipe are kept.
BufferChunk ==
  /\ tcp = "wait"
  /\ ~eof
  /\ read < MaxChunks
  /\ read' = read + 1
  /\ pending' = Append(pending, read + 1)
  /\ UNCHANGED <<tcp, eof, resume, mine, session, answer, occupy, channel, wire, proxyVars>>

\* EOF: the end of the line before the responseChunk, a flag after it.
EofInWait ==
  /\ tcp = "wait"
  /\ ~eof
  /\ eof' = TRUE
  /\ tcp' = IF Responded THEN tcp ELSE "done"
  /\ UNCHANGED <<read, pending, resume, mine, session, answer, occupy, channel, wire, proxyVars>>

\* Mutant: the first pending chunk is sealed but stays in pending_resume.
KeepPending(p) == p

\* pending_resume.remove(0)
TakePending(p) == IF p = <<>> THEN p ELSE Tail(p)

\* The one occupation the TCP task asks for, with the first kept chunk as
\* its first blob.  spawn_l0_pipe returns at once, and drops the blob, when
\* the session is gone since the loop's snapshot of it.
WaitOccupy ==
  /\ tcp = "wait"
  /\ Responded
  /\ ~session.tried
  /\ session.status \in {"attached", "gone"}
  /\ resume' = IF pending = <<>> THEN 0 ELSE Head(pending)
  /\ pending' = TakePending(pending)
  /\ session' = [session EXCEPT !.tried = TRUE]
  /\ occupy' = IF Attached THEN [occupy EXCEPT !.pc = "start", !.first = resume']
                           ELSE occupy
  /\ UNCHANGED <<tcp, read, eof, mine, answer, channel, wire, proxyVars>>

\* The snapshot shows a sender: keep a clone of it for the rest of the line.
WaitPipeUp ==
  /\ tcp = "wait"
  /\ session.pipe # 0
  /\ mine' = session.pipe
  /\ tcp' = "flush"
  /\ UNCHANGED <<read, eof, pending, resume, session, answer, occupy, channel, wire, proxyVars>>

\* The snapshot shows the session gone.
WaitGivesUp ==
  /\ tcp = "wait"
  /\ session.status = "gone"
  /\ tcp' = "done"
  /\ UNCHANGED <<read, eof, pending, resume, mine, session, answer, occupy, channel, wire, proxyVars>>

\* A socket error returns through `?` and leaves the session.
WaitIoError ==
  /\ tcp = "wait"
  /\ tcp' = "done"
  /\ UNCHANGED <<read, eof, pending, resume, mine, session, answer, occupy, channel, wire, proxyVars>>

WaitTimeout ==
  /\ tcp = "wait"
  /\ tcp' = "done"
  /\ session' = RemoveSession
  /\ UNCHANGED <<read, eof, pending, resume, mine, answer, occupy, channel, wire, proxyVars>>

-----------------------------------------------------------------------------
(* The TCP task: the kept chunks, and the stream loop *)

\* The receiver is dropped when run_occupied_pipe returns.
Running(n) == occupy.nr = n /\ occupy.pc \in {"open", "first", "up"}

\* Mutant: the sender is looked up in the session again for every frame.
CanSendLatest == session.pipe # 0 /\ Running(session.pipe)

\* The task sends through the sender it took.
CanSend == Running(mine)

FlushPending ==
  /\ tcp = "flush"
  /\ pending # <<>>
  /\ CanSend
  /\ channel' = Append(channel, Head(pending))
  /\ pending' = Tail(pending)
  /\ UNCHANGED <<tcp, read, eof, resume, mine, session, answer, occupy, wire, proxyVars>>

\* The occupation has ended: `?`, the session stays.
FlushFails ==
  /\ tcp = "flush"
  /\ pending # <<>>
  /\ ~CanSend
  /\ tcp' = "done"
  /\ UNCHANGED <<read, eof, pending, resume, mine, session, answer, occupy, channel, wire, proxyVars>>

FlushDone ==
  /\ tcp = "flush"
  /\ pending = <<>>
  /\ tcp' = "stream"
  /\ UNCHANGED <<read, eof, pending, resume, mine, session, answer, occupy, channel, wire, proxyVars>>

\* The end of the stream loop: remove the session, cancel its occupation.
CloseLine ==
  /\ tcp' = "done"
  /\ session' = RemoveSession
  /\ UNCHANGED <<pending, resume, mine, answer, occupy, wire, proxyVars>>

SendChunk ==
  /\ tcp = "stream"
  /\ ~eof
  /\ read < MaxChunks
  /\ read' = read + 1
  /\ UNCHANGED eof
  /\ IF CanSend
       THEN /\ channel' = Append(channel, read + 1)
            /\ UNCHANGED <<tcp, pending, resume, mine, session, answer, occupy, wire, proxyVars>>
       ELSE CloseLine /\ UNCHANGED channel

\* Mutant: EOF takes the channel down with the line.
EofDropsChannel ==
  /\ tcp = "stream"
  /\ ~eof
  /\ eof' = TRUE
  /\ CloseLine
  /\ channel' = <<>>
  /\ UNCHANGED read

\* Only a read that is still enabled sees EOF.
EofInStream ==
  /\ tcp = "stream"
  /\ ~eof
  /\ eof' = TRUE
  /\ CloseLine
  /\ UNCHANGED <<read, channel>>

StreamIoError ==
  /\ tcp = "stream"
  /\ CloseLine
  /\ UNCHANGED <<read, eof, channel>>

-----------------------------------------------------------------------------
(* The occupy task *)

\* Next round of spawn_l0_pipe's loop: a new channel and generation.
PipeStarts ==
  /\ occupy.pc = "start"
  /\ IF Attached
       THEN /\ occupy.nr < MaxPipes
            /\ occupy' = [occupy EXCEPT !.pc = "open", !.nr = @ + 1, !.left = Entries]
            /\ channel' = <<>>
       ELSE occupy' = [occupy EXCEPT !.pc = "end"] /\ UNCHANGED channel
  /\ UNCHANGED <<tcpVars, session, answer, wire, proxyVars>>

\* HTTP 200: on_up installs the sender, before the first blob is written.
PipeOpens ==
  /\ occupy.pc = "open"
  /\ session' = IF Attached THEN [session EXCEPT !.pipe = occupy.nr] ELSE session
  /\ occupy' = [occupy EXCEPT !.pc = IF occupy.first = 0 THEN "up" ELSE "first"]
  /\ UNCHANGED <<tcpVars, answer, channel, wire, proxyVars>>

WriteFirst ==
  /\ occupy.pc = "first"
  /\ wire' = Append(wire, occupy.first)
  /\ occupy' = [occupy EXCEPT !.pc = "up", !.first = 0]
  /\ UNCHANGED <<tcpVars, session, answer, channel, proxyVars>>

\* run_occupied_pipe returns an error: the session is removed, the task ends.
PipeFails ==
  /\ occupy' = [occupy EXCEPT !.pc = "end", !.first = 0]
  /\ session' = RemoveSession
  /\ channel' = <<>>

\* An entry refuses the pipe, or takes it and not the first blob (which has
\* been taken by then): on to the next entry with the same channel.
EntryFails ==
  /\ occupy.pc \in {"open", "first"}
  /\ IF occupy.left > 1
       THEN /\ occupy' = [occupy EXCEPT !.pc = "open", !.left = @ - 1,
                                        !.first = IF occupy.pc = "first" THEN 0 ELSE @]
            /\ UNCHANGED <<session, channel>>
       ELSE PipeFails
  /\ UNCHANGED <<tcpVars, answer, wire, proxyVars>>

WriteFrame ==
  /\ occupy.pc = "up"
  /\ channel # <<>>
  /\ wire' = Append(wire, Head(channel))
  /\ channel' = Tail(channel)
  /\ UNCHANGED <<tcpVars, session, answer, occupy, proxyVars>>

\* The pipe is torn down from outside: only some of what it took goes on.
LoseTail == \E n \in 0 .. Len(wire) : wire' = SubSeq(wire, 1, n)

\* A write or a read fails, or the mailbox says l0_pipe_end.
PipeBreaks ==
  /\ occupy.pc = "up"
  /\ PipeFails
  /\ LoseTail
  /\ UNCHANGED <<tcpVars, answer, proxyVars>>

\* l0_pipe_closed_should_retry, after any clean end of the pipe.
PipeReturns ==
  /\ channel' = <<>>
  /\ session' = IF session.status = "gone" THEN session ELSE [session EXCEPT !.pipe = 0]
  /\ occupy' = [occupy EXCEPT !.pc = IF Attached THEN "pause" ELSE "end"]

\* EOF from the mailbox.
PipeCloses ==
  /\ occupy.pc = "up"
  /\ PipeReturns
  /\ LoseTail
  /\ UNCHANGED <<tcpVars, answer, proxyVars>>

\* The poll for a cancelled pipe fires after 100 ms without a frame.
PipeCancelled ==
  /\ occupy.pc = "up"
  /\ session.status = "gone"
  /\ channel = <<>>
  /\ PipeReturns
  /\ UNCHANGED <<tcpVars, answer, wire, proxyVars>>

\* The 60 s heartbeat finds the session gone, whatever the channel holds.
HeartbeatStops ==
  /\ occupy.pc = "up"
  /\ session.status = "gone"
  /\ PipeReturns
  /\ UNCHANGED <<tcpVars, answer, wire, proxyVars>>

PipeRetries ==
  /\ occupy.pc = "pause"
  /\ occupy' = [occupy EXCEPT !.pc = "start"]
  /\ UNCHANGED <<tcpVars, session, answer, channel, wire, proxyVars>>

-----------------------------------------------------------------------------
(* What arrives at the client's listen *)

DeliverAccept ==
  /\ proxy \notin {"none", "gone"}
  /\ session.status = "waiting"
  /\ session' = [session EXCEPT !.status = "attached"]
  /\ answer' = IF tcp = "done" THEN answer ELSE "queued"
  /\ UNCHANGED <<tcpVars, occupy, channel, wire, proxyVars>>

\* mark_duplex_rejected
DeliverReject ==
  /\ session.status # "gone"
  /\ session' = RemoveSession
  /\ UNCHANGED <<tcpVars, answer, occupy, channel, wire, proxyVars>>

\* clear_l0_pipe_after_listen_timeout
ListenIdle ==
  /\ session.pipe # 0
  /\ session' = [session EXCEPT !.pipe = 0]
  /\ UNCHANGED <<tcpVars, answer, occupy, channel, wire, proxyVars>>

-----------------------------------------------------------------------------
(* The proxy *)

\* connect_upstream_with_initial: the offer's firstChunk is written and
\* answered before the accept is posted.
ProxyHandshake ==
  /\ proxy = "none"
  /\ proxy' = "accepted"
  /\ upstream' = <<1>>
  /\ UNCHANGED <<tcpVars, session, answer, occupy, channel, wire, queue, refused>>

\* Its own pipe is up: run_proxy_stream starts.
ProxyStreams ==
  /\ proxy = "accepted"
  /\ proxy' = "draining"
  /\ UNCHANGED <<tcpVars, session, answer, occupy, channel, wire, queue, upstream, refused>>

\* Deadline, upstream closed or failed: the receiver is removed.
ProxyRetires ==
  /\ proxy \in {"accepted", "draining"}
  /\ proxy' = "gone"
  /\ queue' = <<>>
  /\ UNCHANGED <<tcpVars, session, answer, occupy, channel, wire, upstream, refused>>

\* apply_duplex_frame: to the handle's receiver, if there is room.
FrameArrives ==
  LET taken == proxy # "gone" /\ Len(queue) < ProxyCap
  IN /\ wire # <<>>
     /\ wire' = Tail(wire)
     /\ queue' = IF taken THEN Append(queue, Head(wire)) ELSE queue
     /\ refused' = IF taken THEN refused ELSE refused \cup {Head(wire)}
     /\ UNCHANGED <<tcpVars, session, answer, occupy, channel, proxy, upstream>>

WriteUpstream ==
  /\ proxy = "draining"
  /\ queue # <<>>
  /\ upstream' = Append(upstream, Head(queue))
  /\ queue' = Tail(queue)
  /\ UNCHANGED <<tcpVars, session, answer, occupy, channel, wire, proxy, refused>>

-----------------------------------------------------------------------------
TcpTask ==
  \/ WriteResponse \/ WaitOccupy \/ WaitPipeUp \/ WaitGivesUp
  \/ FlushPending \/ FlushFails \/ FlushDone

Application ==
  \/ BufferChunk \/ EofInWait \/ SendChunk \/ EofInStream

OccupyTask ==
  \/ PipeStarts \/ PipeOpens \/ WriteFirst \/ WriteFrame
  \/ PipeCancelled \/ PipeRetries

ProxyTask == ProxyHandshake \/ ProxyStreams \/ FrameArrives \/ WriteUpstream

Fault ==
  \/ WaitIoError \/ WaitTimeout \/ StreamIoError
  \/ EntryFails \/ PipeBreaks \/ PipeCloses \/ HeartbeatStops
  \/ DeliverReject \/ ListenIdle \/ ProxyRetires

\* Nothing goes wrong.
Calm == TcpTask \/ Application \/ OccupyTask \/ DeliverAccept \/ ProxyTask

Next == Calm \/ Fault

Spec == Init /\ [][Next]_vars

\* Tasks that can go on do, and an accept that is posted again and again
\* arrives.  When a fault happens and when the application writes is free.
\* TcpTask and ProxyTask write to sockets without a time limit, so this takes
\* it that the application reads its answer and the upstream its bytes.
Fairness ==
  /\ WF_vars(TcpTask)
  /\ WF_vars(OccupyTask)
  /\ WF_vars(DeliverAccept)
  /\ WF_vars(ProxyTask)

-----------------------------------------------------------------------------
(* Properties *)

\* Everything that is on its way, the oldest first.
Travelling ==
  upstream \o queue \o wire
    \o (IF occupy.first = 0 THEN <<>> ELSE <<occupy.first>>) \o channel \o pending

\* Kept chunks, the first blob, the occupation's channel and its successors'
\* are filled from three places of the TCP task and emptied by another task:
\* no chunk overtakes another or is sent twice, whatever ends or retries.
InOrder ==
  \A j, k \in DOMAIN Travelling : j < k => Travelling[j] < Travelling[k]

\* In a Calm run nothing is lost in silence, the chunks written just before
\* EOF included: what was read from a line that got its pipe reaches the
\* upstream, or was refused for a full queue.
ChunksArrive ==
  []<>(\A c \in Chunk :
         read >= c => \/ c \in ToSet(upstream) \cup refused
                      \/ tcp = "done" /\ mine = 0)
=============================================================================

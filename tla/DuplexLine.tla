------------------------------ MODULE DuplexLine ------------------------------
(***************************************************************************)
(* One client-duplex line from end to end: ClientLine and ProxyLine, and   *)
(* the mailbox network and occupied pipes between them.                    *)
(*                                                                         *)
(* A control message is resent by its task, so any number of copies may be *)
(* under way; a copy that is lost, or dies of age (100 s), is one that is  *)
(* never delivered.  Frames go through one pipe in order and may be lost   *)
(* with it.                                                                *)
(***************************************************************************)
EXTENDS Integers, Sequences

CONSTANTS
  Warm,        \* whether the client has a pre-warmed identity at hand
  MaxInc,      \* bound: incarnations the proxy allocates for the handle
  MaxGen,      \* bound: pipe_gen of one session
  MaxOccupy,   \* bound: occupy tasks the client spawns for the line
  MaxChunks,   \* bound: chunks read from one upstream connection
  QueueCap     \* capacity of the client's return queue (64 in the code)

ASSUME LineAssumption ==
  /\ Warm \in SUBSET BOOLEAN
  /\ MaxInc \in Nat \ {0} /\ MaxGen \in Nat \ {0} /\ MaxOccupy \in Nat \ {0}
  /\ MaxChunks \in Nat \ {0} /\ QueueCap \in Nat \ {0}

VARIABLES
  \* --- the client daemon: see ClientLine
  tcp, app, held, stream, queue, session, offering, cold, pipe,
  \* --- the proxy daemon: see ProxyLine
  count, line, handshake, receiver, listen, accepting, occupy, drain,
  retiring, forwarding, read, backlog,
  \* --- the network
  offers,     \* a copy of the offer can still be delivered
  accepts,    \* incarnations whose accept can still be delivered
  frames,     \* frames between the proxy's pipe and the client's listen
  rejects     \* listens a duplex_reject is on its way to: that of an
              \* incarnation, or the client's (0)

Client == INSTANCE ClientLine WITH MaxReceived <- 0
Proxy == INSTANCE ProxyLine

clientVars == <<tcp, app, held, stream, queue, session, offering, cold, pipe>>
proxyVars == <<count, line, handshake, receiver, listen, accepting, occupy,
               drain, retiring, forwarding, read, backlog>>
netVars == <<offers, accepts, frames, rejects>>
vars == <<clientVars, proxyVars, netVars>>

Inc == 1 .. MaxInc
Source == 0 .. MaxInc

TypeOK ==
  /\ Client!TypeOK
  /\ Proxy!TypeOK
  /\ offers \in BOOLEAN
  /\ accepts \in SUBSET Inc
  /\ frames \in Seq(Client!Chunk)
  /\ rejects \in SUBSET Source

Init ==
  /\ Client!Init
  /\ Proxy!Init
  /\ offers = FALSE
  /\ accepts = {}
  /\ frames = <<>>
  /\ rejects = {}

-----------------------------------------------------------------------------
(* Steps of one daemon alone *)

ClientTask == Client!Task /\ UNCHANGED <<proxyVars, netVars>>

ProxyTask == Proxy!Task /\ UNCHANGED <<clientVars, netVars>>

-----------------------------------------------------------------------------
(* duplex_offer: from the client to the proxy's main-wallet listen *)

PostOffer ==
  /\ Client!MayPostOffer
  /\ offers' = TRUE
  /\ UNCHANGED <<clientVars, proxyVars, accepts, frames, rejects>>

\* The first copy allocates the line; a copy that finds a live session is
\* ignored; one that finds no session allocates again.
DeliverOffer ==
  /\ offers
  /\ \E i \in Inc : Proxy!AllocateLine(i)
  /\ UNCHANGED <<clientVars, netVars>>

RefuseOffer ==
  /\ offers
  /\ Proxy!RefusesOffer
  /\ rejects' = rejects \cup {0}
  /\ UNCHANGED <<clientVars, proxyVars, offers, accepts, frames>>

-----------------------------------------------------------------------------
(* duplex_accept: from an incarnation to the client's temporary listen *)

PostAccept(i) ==
  /\ Proxy!MayPostAccept(i)
  /\ accepts' = accepts \cup {i}
  /\ UNCHANGED <<clientVars, proxyVars, offers, frames, rejects>>

DeliverAccept(i) ==
  /\ i \in accepts
  /\ Client!DeliverAccept(i)
  /\ UNCHANGED <<proxyVars, netVars>>

-----------------------------------------------------------------------------
(* Frames and pings on the occupied pipes *)

ForwardChunk(s) ==
  /\ Proxy!ForwardChunk(s)
  /\ frames' = Append(frames, Proxy!NextForward(s))
  /\ UNCHANGED <<clientVars, offers, accepts, rejects>>

\* Mutant: a frame is delivered twice.
RepeatFrame ==
  /\ frames # <<>>
  /\ Client!DeliverFrame(Head(frames))
  /\ UNCHANGED <<proxyVars, netVars>>

DeliverFrame ==
  /\ frames # <<>>
  /\ Client!DeliverFrame(Head(frames))
  /\ frames' = Tail(frames)
  /\ UNCHANGED <<proxyVars, offers, accepts, rejects>>

LoseFrame ==
  /\ frames # <<>>
  /\ frames' = Tail(frames)
  /\ UNCHANGED <<clientVars, proxyVars, offers, accepts, rejects>>

\* An occupied pipe of the client ends at the listen of the incarnation it was
\* opened for.
DeliverPing ==
  /\ \E k \in Client!Occupy :
       pipe[k].pc = "up" /\ listen[pipe[k].target] = "up"
  /\ Proxy!ReturnAttached
  /\ UNCHANGED <<clientVars, netVars>>

-----------------------------------------------------------------------------
(* duplex_reject: the last message of a pipe that failed, of a listen that *)
(* never came up, or of an offer that was refused                          *)

PipeFails(k) ==
  /\ Client!PipeFails(k)
  /\ rejects' = rejects \cup {pipe[k].target}
  /\ UNCHANGED <<proxyVars, offers, accepts, frames>>

ProxyFails(i) ==
  /\ Proxy!OccupyFails(i) \/ Proxy!HandshakeNoListen(i)
  /\ rejects' = rejects \cup {0}
  /\ UNCHANGED <<clientVars, offers, accepts, frames>>

DeliverRejectToClient ==
  /\ 0 \in rejects
  /\ Client!DeliverReject
  /\ rejects' = rejects \ {0}
  /\ UNCHANGED <<proxyVars, offers, accepts, frames>>

DeliverRejectToProxy(i) ==
  /\ i \in rejects
  /\ listen[i] = "up"
  /\ Proxy!MarkRejected
  /\ rejects' = rejects \ {i}
  /\ UNCHANGED <<clientVars, offers, accepts, frames>>

-----------------------------------------------------------------------------
Next ==
  \/ ClientTask
  \/ ProxyTask
  \/ PostOffer \/ DeliverOffer \/ RefuseOffer
  \/ \E i \in Inc : PostAccept(i) \/ DeliverAccept(i) \/ ProxyFails(i)
                      \/ DeliverRejectToProxy(i)
  \/ \E s \in Source : ForwardChunk(s)
  \/ DeliverFrame \/ LoseFrame \/ DeliverPing
  \/ \E k \in Client!Occupy : PipeFails(k)
  \/ DeliverRejectToClient

Spec == Init /\ [][Next]_vars

\* Bound of the runs: once the application's socket is closed nothing reaches
\* app and no occupy task gets a new target, so the rest is not explored.
SocketNotClosed == tcp # "done"

\* Bound of the runs: of the upstream of a handshake and the one of a drain,
\* one at most is read to the end.
OneHasMore == \E s \in Source : read[s] < MaxChunks

\* Bound of the runs: every write to the application's socket goes through at
\* once.  ClientLine's own run has the writes that are held up, and the
\* theorems about this module do not use the bound.
WritesPromptly == ~held

-----------------------------------------------------------------------------
(* Properties *)

\* What the application sees: its own socket, and the chunks the proxy read.
Service == INSTANCE LineService WITH
  Sources <- Source,
  First <- Client!Response,
  socket <- CASE tcp = "idle" -> "idle"
              [] tcp \in {"listen", "wait"} -> "paused"
              [] tcp = "stream" -> "open"
              [] OTHER -> "closed",
  produced <- read,
  received <- app

\* The line implements LineService: a chunk the application receives was read
\* from an upstream, no chunk reaches it twice, and its own bytes wait for an
\* answer; offers, accepts, rejects, retries and pipes are all stutters.
LineServed == Service!Spec

\* The client occupies a temporary listen only of an incarnation whose
\* upstream has answered, although the accept that names it may have been
\* overtaken by a retirement, a second allocation or a reject.
OccupiesAnswered ==
  \A k \in Client!Occupy : pipe[k].target # 0 => read[pipe[k].target] >= 1

\* proxy.rs, connect_upstream_with_initial: the upstream socket "is not
\* drained further until the caller has delivered that response in
\* `duplex_accept.responseChunk`"; so the responseChunk is the first thing the
\* application sees of a connection.  Violated: streaming waits for the
\* proxy's own pipe, not for the accept, and frames overtake it.
ResponseFirst ==
  \A k \in DOMAIN app :
    app[k][1] > 0 /\ app[k][2] > 1 => \E j \in 1 .. k : app[j] = <<app[k][1], 1>>
=============================================================================

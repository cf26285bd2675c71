------------------------------ MODULE ProxyLine ------------------------------
(***************************************************************************)
(* The proxy daemon's side of one client-duplex line, that is of one       *)
(* pipe_handle: its session in the duplex map, its entry in                *)
(* proxy_receivers, and the tasks apply_duplex_offer starts for it.        *)
(*                                                                         *)
(* A handle the proxy has retired may be allocated again by a later copy   *)
(* of the offer.  Each allocation is an incarnation, numbered from 1: it   *)
(* has its own temporary identity, listen, upstream connection, handshake  *)
(* task, accept task and occupy task.  The session map and proxy_receivers *)
(* are keyed by the handle, so every incarnation shares them; each has a   *)
(* lock of its own, so a task that touches both does it in two steps.      *)
(*                                                                         *)
(* Source i > 0 is the upstream connection of incarnation i; source 0 is   *)
(* the one maybe_start_proxy_drain opens when it finds no receiver.  Chunk *)
(* 1 of source i > 0 is its responseChunk; the others travel as frames.    *)
(***************************************************************************)
EXTENDS Integers, FiniteSets

CONSTANTS
  MaxInc,      \* bound: incarnations allocated for the handle
  MaxGen,      \* bound: pipe_gen of one session
  MaxChunks    \* bound: chunks read from one upstream connection

ASSUME BoundsAssumption ==
  /\ MaxInc \in Nat \ {0}
  /\ MaxGen \in Nat \ {0}
  /\ MaxChunks \in Nat \ {0}

VARIABLES
  count,      \* incarnations allocated so far
  line,       \* the handle's session in the duplex map
  handshake,  \* handshake[i]: where spawn_proxy_handshake's task stands
  receiver,   \* the handle's entry in proxy_receivers
  listen,     \* listen[i]: the temporary l0_listen of incarnation i
  accepting,  \* incarnations whose duplex_accept resend task runs
  occupy,     \* occupy[i]: the occupy task and the generation it runs under
  drain,      \* the drain of maybe_start_proxy_drain runs
  retiring,   \* an ended drain has still to remove the session
  forwarding, \* sources whose upstream-to-pipe task runs
  read,       \* read[s]: chunks read so far from source s
  backlog     \* backlog[s]: chunks read that its forward task still holds

vars == <<count, line, handshake, receiver, listen, accepting, occupy, drain,
          retiring, forwarding, read, backlog>>

Inc == 1 .. MaxInc
Source == 0 .. MaxInc

-----------------------------------------------------------------------------
(* State *)

\* DuplexSession, role Proxy: attached from its allocation until rejected.
\* pipe is the incarnation whose occupy task installed pipe_tx; 0 is none.
Session ==
  [live : BOOLEAN, rejected : BOOLEAN, returned : BOOLEAN, pipe : Source,
   inflight : BOOLEAN, gen : 0 .. MaxGen]

NoSession ==
  [live |-> FALSE, rejected |-> FALSE, returned |-> FALSE, pipe |-> 0,
   inflight |-> FALSE, gen |-> 0]

NewSession == [NoSession EXCEPT !.live = TRUE]

HandshakePc ==
  {"off", "spawn", "listen", "dial", "pipe", "stream", "retire", "done"}

\* "role", "contains" and "insert" are the three locked sections of
\* maybe_start_proxy_drain; http says whether HTTP 200 was already seen.
OccupyPc == {"off", "start", "role", "contains", "insert", "open", "up", "end"}

TypeOK ==
  /\ count \in 0 .. MaxInc
  /\ line \in Session
  /\ handshake \in [Inc -> HandshakePc]
  /\ receiver \in {"none", "live", "dead"}
  /\ listen \in [Inc -> {"off", "up", "released"}]
  /\ accepting \in SUBSET Inc
  /\ occupy \in [Inc -> [pc : OccupyPc, gen : 0 .. MaxGen, http : BOOLEAN]]
  /\ drain \in BOOLEAN
  /\ retiring \in BOOLEAN
  /\ forwarding \in SUBSET Source
  /\ read \in [Source -> 0 .. MaxChunks]
  /\ backlog \in [Source -> 0 .. MaxChunks]

Init ==
  /\ count = 0
  /\ line = NoSession
  /\ handshake = [i \in Inc |-> "off"]
  /\ receiver = "none"
  /\ listen = [i \in Inc |-> "off"]
  /\ accepting = {}
  /\ occupy = [i \in Inc |-> [pc |-> "off", gen |-> 0, http |-> FALSE]]
  /\ drain = FALSE
  /\ retiring = FALSE
  /\ forwarding = {}
  /\ read = [s \in Source |-> 0]
  /\ backlog = [s \in Source |-> 0]

-----------------------------------------------------------------------------
(* The inbound loop: it handles one message at a time, so it is idle unless *)
(* it stands between inserting a session and spawning its handshake.        *)

InboundIdle == \A i \in Inc : handshake[i] # "spawn"

\* duplex_duplicate_offer_should_ignore, for an offer with the line's key.
DuplicateIgnored == line.live /\ ~line.rejected

\* Any other offer for a session that exists is answered by duplex_reject.
RefusesOffer == InboundIdle /\ line.live /\ line.rejected

\* apply_duplex_offer allocates: session inserted, temporary listen bound.
AllocateLine(i) ==
  /\ InboundIdle
  /\ ~line.live
  /\ i = count + 1
  /\ count' = i
  /\ line' = NewSession
  /\ listen' = [listen EXCEPT ![i] = "up"]
  /\ handshake' = [handshake EXCEPT ![i] = "spawn"]
  /\ UNCHANGED <<receiver, accepting, occupy, drain, retiring, forwarding,
                 read, backlog>>

\* The handle's entry in proxy_receivers is replaced whether or not there was
\* one.  If there was, the newcomer gives up: the entry now leads to a
\* channel nobody reads, and the new incarnation has no handshake task.
InsertReceiver == receiver' = IF receiver = "none" THEN "live" ELSE "dead"

\* Mutant: the result of the insert is not looked at.
SpawnHandshakeAnyway(i) ==
  /\ handshake[i] = "spawn"
  /\ InsertReceiver
  /\ handshake' = [handshake EXCEPT ![i] = "listen"]
  /\ UNCHANGED <<count, line, listen, accepting, occupy, drain, retiring,
                 forwarding, read, backlog>>

SpawnHandshake(i) ==
  /\ handshake[i] = "spawn"
  /\ InsertReceiver
  /\ handshake' =
       [handshake EXCEPT ![i] = IF receiver = "none" THEN "listen" ELSE "done"]
  /\ UNCHANGED <<count, line, listen, accepting, occupy, drain, retiring,
                 forwarding, read, backlog>>

\* mark_duplex_rejected
MarkRejected ==
  /\ InboundIdle
  /\ line' = IF line.live
               THEN [line EXCEPT !.rejected = TRUE, !.pipe = 0, !.inflight = FALSE]
               ELSE line
  /\ UNCHANGED <<count, handshake, receiver, listen, accepting, occupy, drain,
                 retiring, forwarding, read, backlog>>

\* A duplex_ping, or a frame, of the peer: the return path is confirmed.
ReturnAttached ==
  /\ InboundIdle
  /\ line.live
  /\ ~line.returned
  /\ line' = [line EXCEPT !.returned = TRUE]
  /\ UNCHANGED <<count, handshake, receiver, listen, accepting, occupy, drain,
                 retiring, forwarding, read, backlog>>

-----------------------------------------------------------------------------
(* The handshake task *)

HandshakeGoes(i, pc) == handshake' = [handshake EXCEPT ![i] = pc]

\* The temporary listen is up: at once if it was pre-warmed.
HandshakeListens(i) ==
  /\ handshake[i] = "listen"
  /\ HandshakeGoes(i, "dial")
  /\ UNCHANGED <<count, line, receiver, listen, accepting, occupy, drain,
                 retiring, forwarding, read, backlog>>

\* It is not: duplex_reject (pool_full) to the peer, release it, let go.
HandshakeNoListen(i) ==
  /\ handshake[i] = "listen"
  /\ HandshakeGoes(i, "retire")
  /\ listen' = [listen EXCEPT ![i] = "released"]
  /\ receiver' = "none"
  /\ UNCHANGED <<count, line, accepting, occupy, drain, retiring, forwarding,
                 read, backlog>>

\* firstChunk written, one response chunk read: start the accept task, and
\* occupy the peer's listen unless the session has or is getting a pipe.
NeedsReverse == line.live /\ line.pipe = 0 /\ ~line.inflight /\ ~line.rejected

HandshakeDials(i) ==
  /\ handshake[i] = "dial"
  /\ HandshakeGoes(i, "pipe")
  /\ read' = [read EXCEPT ![i] = 1]
  /\ accepting' = accepting \cup {i}
  /\ IF NeedsReverse
       THEN /\ line' = [line EXCEPT !.inflight = TRUE]
            /\ occupy' = [occupy EXCEPT ![i].pc = "start"]
       ELSE UNCHANGED <<line, occupy>>
  /\ UNCHANGED <<count, receiver, listen, drain, retiring, forwarding, backlog>>

\* Mutant: giving up drops the receiver and forgets the session.
HandshakeForgets(i) ==
  /\ handshake[i] \in {"dial", "pipe"}
  /\ HandshakeGoes(i, "done")
  /\ receiver' = "none"
  /\ UNCHANGED <<count, line, listen, accepting, occupy, drain, retiring,
                 forwarding, read, backlog>>

\* Mutant: no deadline for the reverse pipe.
HandshakeWaitsForPipe(i) ==
  /\ handshake[i] = "dial"
  /\ HandshakeGoes(i, "retire")
  /\ receiver' = "none"
  /\ UNCHANGED <<count, line, listen, accepting, occupy, drain, retiring,
                 forwarding, read, backlog>>

\* The upstream refused, stayed silent or closed, or 20 s passed without a
\* pipe: the receiver goes, then the session.  The listen is not released.
HandshakeGivesUp(i) ==
  /\ handshake[i] \in {"dial", "pipe"}
  /\ HandshakeGoes(i, "retire")
  /\ receiver' = "none"
  /\ UNCHANGED <<count, line, listen, accepting, occupy, drain, retiring,
                 forwarding, read, backlog>>

HandshakePipeUp(i) ==
  /\ handshake[i] = "pipe"
  /\ line.live /\ line.pipe # 0 /\ ~line.rejected
  /\ HandshakeGoes(i, "stream")
  /\ forwarding' = forwarding \cup {i}
  /\ UNCHANGED <<count, line, receiver, listen, accepting, occupy, drain,
                 retiring, read, backlog>>

\* run_proxy_stream reads a chunk and queues it for the forward task.
UpstreamChunk(s) ==
  /\ IF s = 0 THEN drain ELSE handshake[s] = "stream"
  /\ s \in forwarding
  /\ read[s] < MaxChunks
  /\ read' = [read EXCEPT ![s] = @ + 1]
  /\ backlog' = [backlog EXCEPT ![s] = @ + 1]
  /\ UNCHANGED <<count, line, handshake, receiver, listen, accepting, occupy,
                 drain, retiring, forwarding>>

\* The upstream closed, failed, or the forward task is gone: release the
\* listen, drop the receiver.
HandshakeStreamEnds(i) ==
  /\ handshake[i] = "stream"
  /\ HandshakeGoes(i, "retire")
  /\ listen' = [listen EXCEPT ![i] = "released"]
  /\ receiver' = "none"
  /\ UNCHANGED <<count, line, accepting, occupy, drain, retiring, forwarding,
                 read, backlog>>

\* Last step of every path: remove the handle's session from the map, whoever
\* put it there.
HandshakeRetires(i) ==
  /\ handshake[i] = "retire"
  /\ HandshakeGoes(i, "done")
  /\ line' = NoSession
  /\ UNCHANGED <<count, receiver, listen, accepting, occupy, drain, retiring,
                 forwarding, read, backlog>>

-----------------------------------------------------------------------------
(* The forward task of a source: it outlives the upstream connection until *)
(* its queue is empty, and looks the session up for every chunk.           *)

\* The chunk the forward task sends next.
NextForward(s) == <<s, read[s] - backlog[s] + 1>>

\* try_send_proxy_frame seals it onto the session's pipe.
ForwardChunk(s) ==
  /\ s \in forwarding
  /\ backlog[s] > 0
  /\ line.live /\ line.pipe # 0
  /\ backlog' = [backlog EXCEPT ![s] = @ - 1]
  /\ UNCHANGED <<count, line, handshake, receiver, listen, accepting, occupy,
                 drain, retiring, forwarding, read>>

\* No session, no pipe, or the pipe's queue is full: the task ends and the
\* chunks it holds are lost.
ForwardBreaks(s) ==
  /\ s \in forwarding
  /\ backlog[s] > 0
  /\ forwarding' = forwarding \ {s}
  /\ backlog' = [backlog EXCEPT ![s] = 0]
  /\ UNCHANGED <<count, line, handshake, receiver, listen, accepting, occupy,
                 drain, retiring, read>>

-----------------------------------------------------------------------------
(* The drain's own upstream task *)

\* Its upstream closed, or could never be reached.
DrainEnds ==
  /\ drain
  /\ drain' = FALSE
  /\ retiring' = TRUE
  /\ receiver' = "none"
  /\ UNCHANGED <<count, line, handshake, listen, accepting, occupy, forwarding,
                 read, backlog>>

DrainRetires ==
  /\ retiring
  /\ retiring' = FALSE
  /\ line' = NoSession
  /\ UNCHANGED <<count, handshake, receiver, listen, accepting, occupy, drain,
                 forwarding, read, backlog>>

-----------------------------------------------------------------------------
(* spawn_duplex_accept_chat *)

\* duplex_acceptor_should_stop_accept, on the session now in the map.
AcceptorShouldStopAccept == line.rejected \/ line.returned \/ line.pipe # 0

\* Mutant: an accept goes out before the upstream has answered.
MayPostAcceptEarly(i) == listen[i] = "up" /\ line.live /\ ~AcceptorShouldStopAccept

MayPostAccept(i) == i \in accepting /\ line.live /\ ~AcceptorShouldStopAccept

StopAccept(i) ==
  /\ i \in accepting
  /\ ~line.live \/ AcceptorShouldStopAccept
  /\ accepting' = accepting \ {i}
  /\ UNCHANGED <<count, line, handshake, receiver, listen, occupy, drain,
                 retiring, forwarding, read, backlog>>

-----------------------------------------------------------------------------
(* spawn_l0_pipe and maybe_start_proxy_drain *)

OccupyGoes(i, pc) == occupy' = [occupy EXCEPT ![i].pc = pc]

\* Mutant: the guard does nothing.
KeepInflight(s) == s

\* The guard of a task that ends clears the flag of the session in the map.
ClearInflight(s) == [s EXCEPT !.inflight = FALSE]

\* Top of the loop: take the next generation.
OccupyStarts(i) ==
  /\ occupy[i].pc = "start"
  /\ IF line.live /\ ~line.rejected
       THEN /\ line.gen < MaxGen
            /\ line' = [line EXCEPT !.gen = @ + 1]
            /\ occupy' = [occupy EXCEPT ![i] =
                            [pc |-> "role", gen |-> line.gen + 1, http |-> FALSE]]
       ELSE /\ line' = ClearInflight(line)
            /\ OccupyGoes(i, "end")
  /\ UNCHANGED <<count, handshake, receiver, listen, accepting, drain, retiring,
                 forwarding, read, backlog>>

\* The peer's route key cannot wrap the l0_connect.
OccupyRefused(i) ==
  /\ occupy[i].pc = "start"
  /\ OccupyGoes(i, "end")
  /\ line' = ClearInflight(line)
  /\ UNCHANGED <<count, handshake, receiver, listen, accepting, drain, retiring,
                 forwarding, read, backlog>>

\* Where maybe_start_proxy_drain returns to.
AfterDrain(i) == IF occupy[i].http THEN "up" ELSE "open"

\* Only a session in the map gets a drain.
DrainChecksRole(i) ==
  /\ occupy[i].pc = "role"
  /\ OccupyGoes(i, IF line.live THEN "contains" ELSE AfterDrain(i))
  /\ UNCHANGED <<count, line, handshake, receiver, listen, accepting, drain,
                 retiring, forwarding, read, backlog>>

DrainChecksReceiver(i) ==
  /\ occupy[i].pc = "contains"
  /\ OccupyGoes(i, IF receiver = "none" THEN "insert" ELSE AfterDrain(i))
  /\ UNCHANGED <<count, line, handshake, receiver, listen, accepting, drain,
                 retiring, forwarding, read, backlog>>

DrainInserts(i) ==
  /\ occupy[i].pc = "insert"
  /\ OccupyGoes(i, AfterDrain(i))
  /\ InsertReceiver
  /\ drain' = (drain \/ receiver = "none")
  /\ forwarding' = IF receiver = "none" THEN forwarding \cup {0} ELSE forwarding
  /\ UNCHANGED <<count, line, handshake, listen, accepting, retiring, read,
                 backlog>>

\* HTTP 200.  on_up installs the sender if the session is still of the same
\* generation, attached and not rejected.
MayInstall(i) == line.live /\ line.gen = occupy[i].gen /\ ~line.rejected

OccupyOpens(i) ==
  /\ occupy[i].pc = "open"
  /\ IF MayInstall(i)
       THEN /\ line' = [line EXCEPT !.pipe = i]
            /\ occupy' = [occupy EXCEPT ![i].pc = "role", ![i].http = TRUE]
       ELSE /\ OccupyGoes(i, "up")
            /\ UNCHANGED line
  /\ UNCHANGED <<count, handshake, receiver, listen, accepting, drain, retiring,
                 forwarding, read, backlog>>

\* EOF, cancel, or a heartbeat that found no session: l0_pipe_closed_should_retry
\* drops the sender of this generation and says whether to occupy again.
OccupyCloses(i) ==
  /\ occupy[i].pc = "up"
  /\ LET current == line.live /\ line.gen = occupy[i].gen
         closed == IF current THEN [line EXCEPT !.pipe = 0] ELSE line
     IN IF current /\ ~line.rejected
          THEN line' = closed /\ OccupyGoes(i, "start")
          ELSE line' = ClearInflight(closed) /\ OccupyGoes(i, "end")
  /\ UNCHANGED <<count, handshake, receiver, listen, accepting, drain, retiring,
                 forwarding, read, backlog>>

\* Any occupation error: a last duplex_reject (pipe_failed), and the session
\* is removed.
OccupyFails(i) ==
  /\ occupy[i].pc \in {"open", "up"}
  /\ OccupyGoes(i, "end")
  /\ line' = NoSession
  /\ UNCHANGED <<count, handshake, receiver, listen, accepting, drain, retiring,
                 forwarding, read, backlog>>

-----------------------------------------------------------------------------
\* The tasks' steps that no message carries in or out.
HandshakeTask(i) ==
  \/ SpawnHandshake(i)
  \/ HandshakeListens(i) \/ HandshakeDials(i) \/ HandshakeGivesUp(i)
  \/ HandshakePipeUp(i) \/ HandshakeStreamEnds(i) \/ HandshakeRetires(i)

OccupyTask(i) ==
  \/ OccupyStarts(i) \/ OccupyRefused(i)
  \/ DrainChecksRole(i) \/ DrainChecksReceiver(i) \/ DrainInserts(i)
  \/ OccupyOpens(i) \/ OccupyCloses(i)

Task ==
  \/ \E i \in Inc : HandshakeTask(i) \/ OccupyTask(i) \/ StopAccept(i)
  \/ \E s \in Source : UpstreamChunk(s) \/ ForwardBreaks(s)
  \/ DrainEnds \/ DrainRetires

\* Alone, any message may arrive at any time.
Next ==
  \/ Task
  \/ \E i \in Inc : AllocateLine(i) \/ HandshakeNoListen(i) \/ OccupyFails(i)
  \/ \E s \in Source : ForwardChunk(s)
  \/ MarkRejected
  \/ ReturnAttached

Spec == Init /\ [][Next]_vars

\* The runtime keeps polling the handshake task, whose every wait has a
\* deadline: 120 s for the listen, CONNECT_TIMEOUT for the upstream and its
\* first bytes, 20 s for the pipe.  No fairness is owed by peers or upstreams.
Deadline(i) ==
  \/ SpawnHandshake(i) \/ HandshakeNoListen(i) \/ HandshakeGivesUp(i)
  \/ HandshakeRetires(i)

Fairness == \A i \in Inc : WF_vars(Deadline(i))

FairSpec == Spec /\ Fairness

-----------------------------------------------------------------------------
(* Properties *)

\* Incarnations whose handshake task owns the handle's upstream.
Working == {i \in Inc : handshake[i] \in {"listen", "dial", "pipe", "stream"}}

\* The proxy never talks to two upstream connections for one handle, although
\* spawn_proxy_handshake and maybe_start_proxy_drain both open them, test
\* proxy_receivers and insert into it under separate locks, and retire their
\* entry before their session: an entry stands for exactly one of them.
OneUpstream ==
  /\ \A i, j \in Working : i = j
  /\ drain => Working = {}
  /\ receiver = "none" <=> (Working = {} /\ ~drain)

\* A session is never left in the duplex map with nobody to remove it: some
\* upstream task owns the handle, is about to, or has still to retire it.
SessionHasOwner ==
  line.live =>
    \/ receiver # "none"
    \/ retiring
    \/ \E i \in Inc : handshake[i] \in {"spawn", "retire"}

Occupying(i) == occupy[i].pc \notin {"off", "end"}

\* pipe_connect_inflight never sticks: while it keeps other callers of
\* spawn_l0_pipe away, some occupy task of the handle is still running and
\* its guard will clear the flag.
InflightHasTask == line.inflight => \E i \in Inc : Occupying(i)

\* Every allocated incarnation reaches its stream or is retired, whatever
\* peers, upstreams and other incarnations do.
HandshakeSettles ==
  \A i \in Inc :
    handshake[i] = "spawn" ~> handshake[i] \in {"stream", "done"}
=============================================================================

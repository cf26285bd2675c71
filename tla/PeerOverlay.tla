---------------------------- MODULE PeerOverlay ----------------------------
(***************************************************************************)
(* Two daemons that have each other in their static peer table, and one    *)
(* overlay port with a configured duplex session (spawn_duplex_runtime).   *)
(* The side with the smaller wallet offers a session id and key until it   *)
(* sees an accept; the other one adopts both, answers with an accept until *)
(* its occupied pipe is up, and occupies the offerer's channel listen.     *)
(* IPv4 packets from the TUN device are batched by port and either written *)
(* to the occupied pipe, dropped while the session has none, or POSTed.    *)
(*                                                                         *)
(* Configurations are part of the initial state: with or without a billing *)
(* wallet, and either wallet of the peer in the peer table.                *)
(***************************************************************************)
EXTENDS Naturals, Sequences, FiniteSets

CONSTANTS
    MaxPackets,   \* bound: packets noted by the two daemons together
    MaxRestarts,  \* bound: restarts of the two daemons together
    BatchMax,     \* BATCH_MAX_PACKETS
    PipeCap,      \* capacity of an occupied pipe's queue
    PostCap       \* capacity of the POST worker's queue

ASSUME OverlayAssumption ==
    /\ MaxPackets \in Nat /\ MaxRestarts \in Nat
    /\ BatchMax \in Nat \ {0, 1}
    /\ PipeCap \in Nat \ {0} /\ PostCap \in Nat \ {0}

VARIABLES
    conf,       \* main_wallet and peer EOA each daemon is configured with
    sess,       \* the configured session in each daemon's duplex map
    offering,   \* spawn_duplex_offer's task runs
    accepting,  \* spawn_duplex_accept_chat's task runs
    occupy,     \* spawn_l0_pipe's task
    sent,       \* offers and accepts the mailboxes may still deliver
    failed,     \* daemons an occupation of which has failed (history)
    noted,      \* packets noted so far
    pending,    \* L0Client.pending: the batch being collected
    blobs,      \* sealed batches in the queue and on the TCP of each pipe
    posts,      \* batches in the POST worker and on their way
    tun,        \* packets written to the other side's TUN device
    gone,       \* packets dropped, refused or lost (history)
    restarts

control == <<conf, sess, offering, accepting, occupy, sent, failed, restarts>>
traffic == <<noted, pending, blobs, posts, tun, gone>>
vars    == <<control, traffic>>

Nodes    == {1, 2}
Other(n) == 3 - n
Ports    == {"overlay", "plain"}   \* with and without a seeded session

-----------------------------------------------------------------------------
(* Wallets are numbers, in the order of their hex form.  A channel wallet   *)
(* is also the main wallet unless a billing wallet is configured, here      *)
(* below or above both channel wallets: only the order matters.             *)
Wallets == 0..6
Chan(n) == 2 * n
Billing(n) == IF n = 1 THEN {1, 5} ELSE {0, 6}

Configs ==
    {c \in [Nodes -> [main : Wallets, peer : Wallets]] :
        \A n \in Nodes : /\ c[n].main \in {Chan(n)} \cup Billing(n)
                         /\ c[n].peer \in {Chan(Other(n)), c[Other(n)].main}}

WeAreInitiator(n) == Chan(n) < conf[n].peer

(* Session ids and keys are named by the start of the daemon that drew them. *)
NoKey == <<0, 0>>
Ids   == Nodes \X (0..MaxRestarts)
Keys  == Ids \cup {NoKey}

Session == [exists : BOOLEAN, id : Ids, key : Keys, attached : BOOLEAN,
            listen : BOOLEAN, pipe : BOOLEAN, inflight : BOOLEAN]

Seed(n, k) ==
    [exists |-> TRUE, id |-> <<n, k>>,
     key |-> IF WeAreInitiator(n) THEN <<n, k>> ELSE NoKey,
     attached |-> FALSE, listen |-> FALSE, pipe |-> FALSE, inflight |-> FALSE]

\* Mutant: the inflight guard is not dropped with a failed occupation.
RemovedInflight(s) == [s EXCEPT !.exists = FALSE, !.pipe = FALSE]

Removed(s) == [s EXCEPT !.exists = FALSE, !.pipe = FALSE, !.inflight = FALSE]

Offer(n) == [kind |-> "offer", to |-> Other(n), id |-> sess[n].id,
             key |-> sess[n].key, from |-> Chan(n), main |-> conf[n].peer]
Accept(n) == [kind |-> "accept", to |-> Other(n), id |-> sess[n].id,
              key |-> sess[n].key, from |-> Chan(n), main |-> conf[n].main]
Messages == [kind : {"offer", "accept"}, to : Nodes, id : Ids, key : Ids,
             from : Wallets, main : Wallets]
Packets  == [src : Nodes, nr : 1..MaxPackets, port : Ports]

Init ==
    /\ conf \in Configs
    /\ sess = [n \in Nodes |-> Seed(n, 0)]
    /\ offering = [n \in Nodes |-> sess[n].key # NoKey]
    /\ accepting = [n \in Nodes |-> FALSE]
    /\ occupy = [n \in Nodes |-> "none"]
    /\ sent = {} /\ failed = {} /\ restarts = 0
    /\ noted = 0 /\ posts = {} /\ tun = {} /\ gone = {}
    /\ pending = [n \in Nodes |-> {}]
    /\ blobs = [n \in Nodes |-> <<>>]

-----------------------------------------------------------------------------
(* The offer task: resend until the session is attached or gone.            *)
PostOffer(n) ==
    /\ offering[n]
    /\ sess[n].exists /\ ~sess[n].attached
    /\ Offer(n) \notin sent
    /\ sent' = sent \cup {Offer(n)}
    /\ UNCHANGED <<conf, sess, offering, accepting, occupy, failed, restarts, traffic>>

StopOffer(n) ==
    /\ offering[n]
    /\ ~sess[n].exists \/ sess[n].attached
    /\ offering' = [offering EXCEPT ![n] = FALSE]
    /\ UNCHANGED <<conf, sess, accepting, occupy, sent, failed, restarts, traffic>>

\* Mutant: the offer's own wallet is compared with the local main wallet.
PendingWalletMatches(n, o) ==
    /\ sess[n].exists
    /\ sess[n].key = NoKey
    /\ conf[n].peer = o.from
    /\ conf[n].main = o.from

(* apply_duplex_offer's match of a session that waits for its peer.  An     *)
(* offer from before this start may still be current within the clock skew. *)
PendingPeerMatches(n, o) ==
    /\ sess[n].exists
    /\ sess[n].key = NoKey
    /\ conf[n].peer = o.from
    /\ conf[n].main = o.main

\* The session takes the offer's id, key and listen; spawn_l0_pipe sets inflight.
Adopted(s, o) ==
    [s EXCEPT !.id = o.id, !.key = o.key, !.attached = TRUE, !.listen = TRUE,
              !.inflight = TRUE]

(* Any other offer leaves the session alone: a copy of the adopted one is   *)
(* ignored, an unknown one is answered by a reject that the offerer's       *)
(* channel listen refuses (ReceiveBlob).  No id ever has two keys.          *)
AdoptOffer(n, o) ==
    /\ o.kind = "offer" /\ o.to = n
    /\ PendingPeerMatches(n, o)
    /\ sess' = [sess EXCEPT ![n] = Adopted(@, o)]
    /\ accepting' = [accepting EXCEPT ![n] = TRUE]
    /\ occupy' = [occupy EXCEPT ![n] = "starting"]
    /\ UNCHANGED <<conf, offering, sent, failed, restarts, traffic>>

(* The accept task: resend until the pipe is up or the session is gone.     *)
PostAccept(n) ==
    /\ accepting[n]
    /\ sess[n].exists /\ ~sess[n].pipe
    /\ Accept(n) \notin sent
    /\ sent' = sent \cup {Accept(n)}
    /\ UNCHANGED <<conf, sess, offering, accepting, occupy, failed, restarts, traffic>>

StopAccept(n) ==
    /\ accepting[n]
    /\ ~sess[n].exists \/ sess[n].pipe
    /\ accepting' = [accepting EXCEPT ![n] = FALSE]
    /\ UNCHANGED <<conf, sess, offering, occupy, sent, failed, restarts, traffic>>

\* Mutant: an accept for an earlier session of this daemon is taken.
TakesAnyAccept(n, a) ==
    /\ sess[n].exists
    /\ a.main = conf[n].peer
    /\ a.from # a.main

(* apply_duplex_accept: the accept must be signed by the configured peer    *)
(* and name a listen wallet that is not the signer.                         *)
TakesAccept(n, a) ==
    /\ sess[n].exists
    /\ sess[n].id = a.id
    /\ a.main = conf[n].peer
    /\ a.from # a.main
    /\ sess[n].key \in {NoKey, a.key}

DeliverAccept(n, a) ==
    /\ a.kind = "accept" /\ a.to = n
    /\ TakesAccept(n, a)
    /\ ~sess[n].attached
    /\ sess' = [sess EXCEPT ![n].key = a.key,
                            ![n].attached = TRUE, ![n].listen = TRUE]
    /\ UNCHANGED <<conf, offering, accepting, occupy, sent, failed, restarts, traffic>>

-----------------------------------------------------------------------------
(* The occupy task.  One runs at a time: inflight holds until it ends.      *)
PipeStarts(n) ==
    /\ occupy[n] = "starting"
    /\ occupy' = [occupy EXCEPT ![n] = "connecting"]
    /\ UNCHANGED <<conf, sess, offering, accepting, sent, failed, restarts, traffic>>

PipeOpens(n) ==
    /\ occupy[n] = "connecting"
    /\ occupy' = [occupy EXCEPT ![n] = "open"]
    /\ sess' = [sess EXCEPT ![n].pipe = TRUE]
    /\ UNCHANGED <<conf, offering, accepting, sent, failed, restarts, traffic>>

BlobPackets(n) == UNION {blobs[n][i] : i \in DOMAIN blobs[n]}

(* The TCP connection ends: what it carried is lost, the task retries.      *)
PipeCloses(n) ==
    /\ occupy[n] = "open"
    /\ occupy' = [occupy EXCEPT ![n] = "starting"]
    /\ sess' = [sess EXCEPT ![n].pipe = FALSE]
    /\ gone' = gone \cup BlobPackets(n)
    /\ blobs' = [blobs EXCEPT ![n] = <<>>]
    /\ UNCHANGED <<conf, offering, accepting, sent, failed, restarts, noted, pending, posts, tun>>

(* Refused, unreachable or ended by l0_pipe_end: the session is removed.    *)
PipeFails(n) ==
    /\ occupy[n] \in {"connecting", "open"}
    /\ occupy' = [occupy EXCEPT ![n] = "none"]
    /\ sess' = [sess EXCEPT ![n] = Removed(@)]
    /\ failed' = failed \cup {n}
    /\ gone' = gone \cup BlobPackets(n)
    /\ blobs' = [blobs EXCEPT ![n] = <<>>]
    /\ UNCHANGED <<conf, offering, accepting, sent, restarts, noted, pending, posts, tun>>

(* The channel's exclusive listen belongs to sessions whose host_eoa, the   *)
(* main wallet, is the channel wallet.                                      *)
OwnsListen(n) == sess[n].exists /\ conf[n].main = Chan(n)

ListenUp(n) ==
    /\ OwnsListen(n)
    /\ sess[n].attached /\ sess[n].listen /\ sess[n].key # NoKey
    /\ ~sess[n].pipe /\ ~sess[n].inflight
    /\ sess' = [sess EXCEPT ![n].inflight = TRUE]
    /\ occupy' = [occupy EXCEPT ![n] = "starting"]
    /\ UNCHANGED <<conf, offering, accepting, sent, failed, restarts, traffic>>

(* The sender is discarded; the task and its connection stay.               *)
ListenIdle(n) ==
    /\ OwnsListen(n)
    /\ sess[n].pipe
    /\ sess' = [sess EXCEPT ![n].pipe = FALSE]
    /\ UNCHANGED <<conf, offering, accepting, occupy, sent, failed, restarts, traffic>>

-----------------------------------------------------------------------------
(* Packets.  A batch holds packets of one port.                             *)
HasPort(batch, port) == \A p \in batch : p.port = port

\* Mutant: a batch without a ready pipe falls back to a POST.
FallsBackToP1(n, batch) ==
    IF /\ ~HasPort(batch, "plain") /\ sess[n].exists
       /\ sess[n].key # NoKey /\ sess[n].pipe /\ Len(blobs[n]) < PipeCap
    THEN "occupied" ELSE "p1"

OverlayPostPlan(n, batch) ==
    IF HasPort(batch, "plain") \/ ~sess[n].exists THEN "p1"
    ELSE IF sess[n].key # NoKey /\ sess[n].pipe /\ Len(blobs[n]) < PipeCap
    THEN "occupied"
    ELSE "suppressed"

PostsOf(n) == {b \in posts : \A p \in b : p.src = n}

Flush(n, batch) ==
    \/ /\ OverlayPostPlan(n, batch) = "occupied"
       /\ blobs' = [blobs EXCEPT ![n] = Append(@, batch)]
       /\ UNCHANGED <<posts, gone>>
    \/ /\ OverlayPostPlan(n, batch) = "p1"
       /\ Cardinality(PostsOf(n)) < PostCap
       /\ posts' = posts \cup {batch}
       /\ UNCHANGED <<blobs, gone>>
    \/ /\ \/ OverlayPostPlan(n, batch) = "suppressed"
          \/ /\ OverlayPostPlan(n, batch) = "p1"
             /\ Cardinality(PostsOf(n)) >= PostCap
       /\ gone' = gone \cup batch
       /\ UNCHANGED <<blobs, posts>>

NextPacket(n, port) == [src |-> n, nr |-> noted + 1, port |-> port]

(* note_overlay_packet: the packet joins the batch of its port ...          *)
Collect(n, port) ==
    /\ noted < MaxPackets
    /\ HasPort(pending[n], port)
    /\ Cardinality(pending[n]) + 1 < BatchMax
    /\ noted' = noted + 1
    /\ pending' = [pending EXCEPT ![n] = @ \cup {NextPacket(n, port)}]
    /\ UNCHANGED <<control, blobs, posts, tun, gone>>

(* ... and completes it, by number or by BATCH_MAX_BYTES, or ...            *)
CollectFull(n, port) ==
    /\ noted < MaxPackets
    /\ pending[n] # {} /\ HasPort(pending[n], port)
    /\ noted' = noted + 1
    /\ Flush(n, pending[n] \cup {NextPacket(n, port)})
    /\ pending' = [pending EXCEPT ![n] = {}]
    /\ UNCHANGED <<control, tun>>

(* ... sends the batch of another port off and begins its own.              *)
SwitchPort(n, port) ==
    /\ noted < MaxPackets
    /\ ~HasPort(pending[n], port)
    /\ noted' = noted + 1
    /\ Flush(n, pending[n])
    /\ pending' = [pending EXCEPT ![n] = {NextPacket(n, port)}]
    /\ UNCHANGED <<control, tun>>

\* Mutant: the batch is not taken out when it is flushed.
FlushKeeps(n) ==
    /\ pending[n] # {}
    /\ Flush(n, pending[n])
    /\ UNCHANGED <<control, noted, pending, tun>>

(* The packet loop flushes when the TUN device was idle for 5 ms.           *)
FlushIdle(n) ==
    /\ pending[n] # {}
    /\ Flush(n, pending[n])
    /\ pending' = [pending EXCEPT ![n] = {}]
    /\ UNCHANGED <<control, noted, tun>>

(* A sealed batch reaches the channel listen that the pipe occupies.  That  *)
(* listen is bound to no session (spawn_listen_worker passes none), so the  *)
(* daemon refuses the batch as anonymous.                                   *)
ReceiveBlob(n) ==
    /\ occupy[n] = "open" /\ blobs[n] # <<>>
    /\ gone' = gone \cup Head(blobs[n])
    /\ blobs' = [blobs EXCEPT ![n] = Tail(@)]
    /\ UNCHANGED <<control, noted, pending, posts, tun>>

(* POSTs are sent concurrently; the mailbox may lose one.                   *)
ReceivePost(b) ==
    /\ posts' = posts \ {b}
    /\ tun' = tun \cup b
    /\ UNCHANGED <<control, noted, pending, blobs, gone>>

LosePost(b) ==
    /\ posts' = posts \ {b}
    /\ gone' = gone \cup b
    /\ UNCHANGED <<control, noted, pending, blobs, tun>>

-----------------------------------------------------------------------------
(* A daemon dies and is started again: everything it held is in memory.     *)
Restart(n) ==
    /\ restarts < MaxRestarts
    /\ restarts' = restarts + 1
    /\ sess' = [sess EXCEPT ![n] = Seed(n, restarts + 1)]
    /\ offering' = [offering EXCEPT ![n] = WeAreInitiator(n)]
    /\ accepting' = [accepting EXCEPT ![n] = FALSE]
    /\ occupy' = [occupy EXCEPT ![n] = "none"]
    /\ gone' = gone \cup pending[n] \cup BlobPackets(n) \cup UNION PostsOf(n)
    /\ posts' = posts \ PostsOf(n)
    /\ pending' = [pending EXCEPT ![n] = {}]
    /\ blobs' = [blobs EXCEPT ![n] = <<>>]
    /\ UNCHANGED <<conf, sent, failed, noted, tun>>

OfferStep(n)  == PostOffer(n) \/ StopOffer(n)
AcceptStep(n) == PostAccept(n) \/ StopAccept(n)
OccupyStep(n) == PipeStarts(n) \/ PipeOpens(n) \/ PipeCloses(n) \/ PipeFails(n)
Inbound(n)    == \E m \in sent : AdoptOffer(n, m) \/ DeliverAccept(n, m)
Note(n)       == \E port \in Ports :
                     Collect(n, port) \/ CollectFull(n, port) \/ SwitchPort(n, port)

Next ==
    \/ \E n \in Nodes :
          \/ OfferStep(n) \/ AcceptStep(n) \/ OccupyStep(n) \/ Inbound(n)
          \/ ListenUp(n) \/ ListenIdle(n)
          \/ Note(n) \/ FlushIdle(n) \/ ReceiveBlob(n) \/ Restart(n)
    \/ \E b \in posts : ReceivePost(b) \/ LosePost(b)

(* Tasks run; an offer or accept of the peer's present session, which it    *)
(* sends again and again, arrives; an entry node answers an occupation one  *)
(* way or the other; a listen's SSE ends and is opened again at some time.  *)
Fairness ==
    \A n \in Nodes :
        /\ WF_vars(OfferStep(n)) /\ WF_vars(AcceptStep(n))
        /\ WF_vars(\E m \in sent : m.id = sess[Other(n)].id
                        /\ (AdoptOffer(n, m) \/ DeliverAccept(n, m)))
        /\ WF_vars(PipeStarts(n)) /\ WF_vars(ListenUp(n))
        /\ WF_vars(occupy[n] = "connecting" /\ (PipeOpens(n) \/ PipeFails(n)))

Spec == Init /\ [][Next]_vars /\ Fairness

-----------------------------------------------------------------------------
(* Every variable has its type.                                             *)
TypeOK ==
    /\ conf \in Configs
    /\ sess \in [Nodes -> Session]
    /\ offering \in [Nodes -> BOOLEAN] /\ accepting \in [Nodes -> BOOLEAN]
    /\ occupy \in [Nodes -> {"none", "starting", "connecting", "open"}]
    /\ sent \subseteq Messages
    /\ failed \subseteq Nodes
    /\ noted \in 0..MaxPackets
    /\ pending \in [Nodes -> SUBSET Packets]
    /\ blobs \in [Nodes -> Seq(SUBSET Packets)]
    /\ \A n \in Nodes : Len(blobs[n]) <= PipeCap
    /\ posts \subseteq SUBSET Packets
    /\ tun \subseteq Packets /\ gone \subseteq Packets
    /\ restarts \in 0..MaxRestarts

(* A session that is attached is one the peer has spoken of: an offerer's   *)
(* only after an accept of the peer for just this incarnation, and then     *)
(* with the key that id was drawn with; never after an accept or offer for  *)
(* what the daemon was before it restarted (apply_duplex_offer,             *)
(* apply_duplex_accept).                                                    *)
AttachedToPeer ==
    \A n \in Nodes :
        /\ sess[n].key \in {NoKey, sess[n].id}
        /\ sess[n].attached =>
              \E m \in sent : m.to = n /\ m.id = sess[n].id /\ m.key = sess[n].key

(* An occupy task is in flight exactly as long as the session says so, so   *)
(* that neither two tasks occupy one listen nor none ever may               *)
(* (pipe_connect_inflight in spawn_l0_pipe and rebuild_l0_pipes).           *)
InflightIsTask ==
    \A n \in Nodes : sess[n].inflight <=> occupy[n] # "none"

(* Collecting, switching ports, flushing on idle, queues that are full,     *)
(* pipes that end and restarts: each packet is in one place, and no batch   *)
(* mixes ports, which would send one port's packets to the other's wallet   *)
(* (note_overlay_packet, flush_pending_overlay).                            *)
Batches == {pending[n] : n \in Nodes} \cup posts
           \cup UNION {{blobs[n][i] : i \in DOMAIN blobs[n]} : n \in Nodes}

Holders(p) ==
    Cardinality({b \in Batches : p \in b})
    + Cardinality({s \in {"tun", "gone"} : p \in IF s = "tun" THEN tun ELSE gone})

PacketsKept ==
    /\ \A b \in Batches : \E port \in Ports : HasPort(b, port)
    /\ \A k \in 1..noted : \E p \in Packets : p.nr = k /\ Holders(p) = 1

(* A port with a configured session has its packets POSTed only after an    *)
(* occupation has failed: not while the handshake or a reconnect goes on,   *)
(* nor when the pipe's queue is full (prepare_overlay_post).                *)
SessionOwnsPort ==
    \A p \in (UNION posts) \cup tun : p.port = "overlay" => p.src \in failed

(* The peer tables fit: one side offers, and the wallets the offer names    *)
(* are those the other side is configured with.                             *)
Matched ==
    \E n \in Nodes :
        /\ WeAreInitiator(n) /\ ~WeAreInitiator(Other(n))
        /\ conf[Other(n)].peer = Chan(n)
        /\ conf[Other(n)].main = conf[n].peer

(* Daemons whose tables fit get to a session, restarts of either side or    *)
(* not: the offer is resent until the other side has adopted it.            *)
OfferTaken ==
    Matched => <>(\E n \in Nodes : ~WeAreInitiator(n) /\ sess[n].attached)

(* An accept is not sent for ever: once the acceptor's pipe stays up or its *)
(* session is removed the task ends.                                        *)
AcceptEnds ==
    \A n \in Nodes :
        <>[](sess[n].pipe \/ ~sess[n].exists) => <>[]~accepting[n]

(* The two loops that resend offers and accepts reach their end, and the    *)
(* first of them its purpose (spawn_duplex_offer, spawn_duplex_accept_chat, *)
(* duplex_acceptor_should_stop_accept).                                     *)
HandshakeEnds == OfferTaken /\ AcceptEnds

(* "so each endpoint owns a separate occupied pipe bound by the same        *)
(* pipe_handle" (src/src/l0/client.rs:1458), of two daemons without billing *)
(* wallets, unless an occupation fails.                                     *)
EachOwnsPipe ==
    Matched /\ (\A n \in Nodes : conf[n].main = Chan(n))
        => <>(failed # {} \/ \A n \in Nodes : sess[n].pipe)
=============================================================================

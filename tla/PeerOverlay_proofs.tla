-------------------------- MODULE PeerOverlay_proofs --------------------------
(***************************************************************************)
(* Proofs about PeerOverlay for any numbers of packets and restarts and    *)
(* any capacities: its type invariant, that a session is attached only to  *)
(* what the peer has spoken of, that the inflight flag is exact, that a    *)
(* configured session keeps its port's packets from the mailboxes, and     *)
(* that each packet is accounted for.                                      *)
(***************************************************************************)
EXTENDS PeerOverlay, FiniteSetTheorems, SequenceTheorems, TLAPS

\* A session that offers or accepts has its key.
Speaks ==
    \A n \in Nodes :
        sess[n].exists /\ (offering[n] \/ accepting[n]) => sess[n].key # NoKey

\* A message names an id and the key drawn with it.
SentPairs == \A m \in sent : m.key = m.id

\* What a daemon collects, seals and posts are its own packets.
OwnPackets ==
    \A n \in Nodes : \A p \in pending[n] : p.src = n

\* Only a failed occupation removes a configured session.
RemovedByFailure == \A n \in Nodes : sess[n].exists \/ n \in failed

\* The inductive invariant.
IInv ==
    /\ TypeOK
    /\ Speaks
    /\ SentPairs
    /\ AttachedToPeer
    /\ InflightIsTask
    /\ OwnPackets
    /\ RemovedByFailure
    /\ SessionOwnsPort

\* What an occupy task or a listen leaves of a session.
SameSession(s, t) ==
    /\ t.id = s.id /\ t.key = s.key /\ t.attached = s.attached
    /\ t.exists => s.exists

-----------------------------------------------------------------------------
LEMMA KeyFacts == NoKey \notin Ids /\ \A n \in Nodes : \A k \in 0..MaxRestarts : <<n, k>> \in Ids
BY DEF NoKey, Ids, Nodes

LEMMA OtherNode == \A n \in Nodes : Other(n) \in Nodes
BY DEF Nodes, Other

LEMMA SeedType ==
    ASSUME NEW n \in Nodes, NEW k \in 0..MaxRestarts
    PROVE  Seed(n, k) \in Session
BY KeyFacts DEF Seed, Session, Keys

\* What the pipe's queue holds are packets.
LEMMA BlobPacketsType ==
    ASSUME NEW n \in Nodes, blobs \in [Nodes -> Seq(SUBSET Packets)]
    PROVE  BlobPackets(n) \subseteq Packets
<1>1. \A i \in DOMAIN blobs[n] : blobs[n][i] \in SUBSET Packets
  OBVIOUS
<1> QED
  BY <1>1 DEF BlobPackets

\* A channel wallet and the peer's configured wallet are wallets.
LEMMA ConfType ==
    ASSUME conf \in Configs, NEW n \in Nodes
    PROVE  /\ conf[n].main \in Wallets /\ conf[n].peer \in Wallets
           /\ Chan(n) \in Wallets
BY DEF Configs, Wallets, Chan, Nodes

LEMMA MessageTypes ==
    ASSUME TypeOK, NEW n \in Nodes, sess[n].key # NoKey
    PROVE  Offer(n) \in Messages /\ Accept(n) \in Messages
BY ConfType, OtherNode DEF TypeOK, Offer, Accept, Messages, Session, Keys

\* Flushing a batch of packets keeps the types of where it can go.
LEMMA FlushType ==
    ASSUME TypeOK, OverlayAssumption, NEW n \in Nodes, NEW batch \in SUBSET Packets,
           Flush(n, batch)
    PROVE  /\ blobs' \in [Nodes -> Seq(SUBSET Packets)]
           /\ \A m \in Nodes : Len(blobs'[m]) <= PipeCap
           /\ posts' \subseteq SUBSET Packets
           /\ gone' \subseteq Packets
<1>1. CASE /\ OverlayPostPlan(n, batch) = "occupied"
           /\ blobs' = [blobs EXCEPT ![n] = Append(@, batch)]
           /\ UNCHANGED <<posts, gone>>
  <2>1. Len(blobs[n]) < PipeCap
    BY <1>1 DEF OverlayPostPlan
  <2>2. blobs[n] \in Seq(SUBSET Packets) /\ Append(blobs[n], batch) \in Seq(SUBSET Packets)
        /\ Len(Append(blobs[n], batch)) = Len(blobs[n]) + 1
    BY DEF TypeOK
  <2>3. \A m \in Nodes : Len(blobs'[m]) <= PipeCap
    BY <1>1, <2>1, <2>2, OverlayAssumption DEF TypeOK, OverlayAssumption
  <2> QED
    BY <1>1, <2>2, <2>3 DEF TypeOK
<1>2. CASE UNCHANGED blobs /\ posts' \subseteq posts \cup {batch} /\ gone' \subseteq gone \cup batch
  BY <1>2 DEF TypeOK
<1> QED
  BY <1>1, <1>2 DEF Flush

-----------------------------------------------------------------------------
\* A session changed field by field is a session.
LEMMA SessionFlags ==
    ASSUME NEW s \in Session, NEW b \in BOOLEAN
    PROVE  /\ [s EXCEPT !.pipe = b] \in Session
           /\ [s EXCEPT !.inflight = b] \in Session
           /\ Removed(s) \in Session
           /\ SameSession(s, [s EXCEPT !.pipe = b])
           /\ SameSession(s, [s EXCEPT !.inflight = b])
           /\ SameSession(s, Removed(s))
           /\ [s EXCEPT !.pipe = b].inflight = s.inflight
           /\ ~Removed(s).inflight
BY DEF Session, Removed, SameSession

LEMMA SessionKeyed ==
    ASSUME NEW s \in Session, NEW i \in Ids, NEW k \in Keys
    PROVE  /\ [s EXCEPT !.key = k, !.attached = TRUE, !.listen = TRUE] \in Session
           /\ \A o : o.id = i /\ o.key = k => Adopted(s, o) \in Session
BY DEF Session, Adopted

\* That is all that the control part does to the session map.
LEMMA SessionType ==
    ASSUME TypeOK, NEW n \in Nodes,
           OfferStep(n) \/ AcceptStep(n) \/ OccupyStep(n) \/ Inbound(n)
           \/ ListenUp(n) \/ ListenIdle(n)
    PROVE  sess' \in [Nodes -> Session]
<1>1. sess \in [Nodes -> Session] /\ sess[n] \in Session
  BY DEF TypeOK
<1>2. ASSUME NEW t \in Session, sess' = [sess EXCEPT ![n] = t]
      PROVE  sess' \in [Nodes -> Session]
  BY <1>1, <1>2
<1>3. CASE UNCHANGED sess
  BY <1>1, <1>3
<1>4. CASE PipeOpens(n) \/ PipeCloses(n) \/ ListenIdle(n)
  <2>1. PICK b \in BOOLEAN : sess' = [sess EXCEPT ![n] = [sess[n] EXCEPT !.pipe = b]]
    BY <1>4 DEF PipeOpens, PipeCloses, ListenIdle
  <2> QED
    BY <1>1, <1>2, <2>1, SessionFlags
<1>5. CASE PipeFails(n)
  BY <1>1, <1>2, <1>5, SessionFlags DEF PipeFails
<1>6. CASE ListenUp(n)
  <2>1. sess' = [sess EXCEPT ![n] = [sess[n] EXCEPT !.inflight = TRUE]]
    BY <1>6 DEF ListenUp
  <2> QED
    BY <1>1, <1>2, <2>1, SessionFlags
<1>7. CASE Inbound(n)
  <2>1. PICK m \in sent : AdoptOffer(n, m) \/ DeliverAccept(n, m)
    BY <1>7 DEF Inbound
  <2>2. m.id \in Ids /\ m.key \in Keys
    BY DEF TypeOK, Messages, Keys
  <2>3. CASE AdoptOffer(n, m)
    <3>1. sess' = [sess EXCEPT ![n] = Adopted(sess[n], m)]
      BY <2>3 DEF AdoptOffer
    <3> QED
      BY <1>1, <1>2, <2>2, <3>1, SessionKeyed
  <2>4. CASE DeliverAccept(n, m)
    <3>1. sess' = [sess EXCEPT ![n] = [sess[n] EXCEPT !.key = m.key,
                       !.attached = TRUE, !.listen = TRUE]]
      BY <2>4 DEF DeliverAccept
    <3> QED
      BY <1>1, <1>2, <2>2, <3>1, SessionKeyed
  <2> QED
    BY <2>1, <2>3, <2>4
<1> QED
  BY <1>3, <1>4, <1>5, <1>6, <1>7
     DEF OfferStep, PostOffer, StopOffer, AcceptStep, PostAccept, StopAccept,
         OccupyStep, PipeStarts

\* Every step of the control part keeps the types.
LEMMA TypeControl ==
    ASSUME TypeOK, Speaks, OverlayAssumption, NEW n \in Nodes,
           OfferStep(n) \/ AcceptStep(n) \/ OccupyStep(n) \/ Inbound(n)
           \/ ListenUp(n) \/ ListenIdle(n)
    PROVE  TypeOK'
<1> USE SessionType DEF TypeOK, traffic
<1>1. CASE OfferStep(n)
  BY <1>1, MessageTypes DEF OfferStep, PostOffer, StopOffer, Speaks
<1>2. CASE AcceptStep(n)
  BY <1>2, MessageTypes DEF AcceptStep, PostAccept, StopAccept, Speaks
<1>3. CASE PipeStarts(n) \/ PipeOpens(n)
  BY <1>3 DEF PipeStarts, PipeOpens
<1>4. CASE PipeCloses(n) \/ PipeFails(n)
  <2>1. BlobPackets(n) \subseteq Packets
    BY BlobPacketsType
  <2>2. <<>> \in Seq(SUBSET Packets) /\ Len(<<>>) = 0
    OBVIOUS
  <2>3. blobs' = [blobs EXCEPT ![n] = <<>>]
    BY <1>4 DEF PipeCloses, PipeFails
  <2>4. blobs' \in [Nodes -> Seq(SUBSET Packets)] /\ \A m \in Nodes : Len(blobs'[m]) <= PipeCap
    BY <2>2, <2>3, OverlayAssumption DEF OverlayAssumption
  <2> QED
    BY <1>4, <2>1, <2>4 DEF PipeCloses, PipeFails
<1>5. CASE Inbound(n)
  <2>1. PICK m \in sent : AdoptOffer(n, m) \/ DeliverAccept(n, m)
    BY <1>5 DEF Inbound
  <2> QED
    BY <2>1 DEF AdoptOffer, DeliverAccept
<1>6. CASE ListenUp(n) \/ ListenIdle(n)
  BY <1>6 DEF ListenUp, ListenIdle
<1> QED
  BY <1>1, <1>2, <1>3, <1>4, <1>5, <1>6 DEF OccupyStep

\* So does every step of a packet, and a restart.
LEMMA TypeTraffic ==
    ASSUME TypeOK, OverlayAssumption, NEW n \in Nodes,
           Note(n) \/ FlushIdle(n) \/ ReceiveBlob(n) \/ Restart(n)
    PROVE  TypeOK'
<1>1. ASSUME NEW port \in Ports, noted < MaxPackets
      PROVE  NextPacket(n, port) \in Packets /\ noted + 1 \in 0..MaxPackets
  BY <1>1, OverlayAssumption DEF TypeOK, NextPacket, Packets, OverlayAssumption
<1>2. ASSUME NEW port \in Ports, Collect(n, port) PROVE TypeOK'
  BY <1>1, <1>2 DEF Collect, TypeOK, control
<1>3. ASSUME NEW port \in Ports, CollectFull(n, port) PROVE TypeOK'
  <2>1. pending[n] \cup {NextPacket(n, port)} \in SUBSET Packets
    BY <1>1, <1>3 DEF CollectFull, TypeOK
  <2> QED
    BY <1>1, <1>3, <2>1, FlushType DEF CollectFull, TypeOK, control
<1>4. ASSUME NEW port \in Ports, SwitchPort(n, port) PROVE TypeOK'
  <2>1. pending[n] \in SUBSET Packets
    BY DEF TypeOK
  <2> QED
    BY <1>1, <1>4, <2>1, FlushType DEF SwitchPort, TypeOK, control
<1>5. CASE FlushIdle(n)
  <2>1. pending[n] \in SUBSET Packets
    BY DEF TypeOK
  <2> QED
    BY <1>5, <2>1, FlushType DEF FlushIdle, TypeOK, control
<1>6. CASE ReceiveBlob(n)
  <2>1. /\ Head(blobs[n]) \subseteq Packets
        /\ Tail(blobs[n]) \in Seq(SUBSET Packets)
        /\ Len(Tail(blobs[n])) = Len(blobs[n]) - 1
    BY <1>6 DEF ReceiveBlob, TypeOK
  <2> QED
    BY <1>6, <2>1, OverlayAssumption DEF ReceiveBlob, TypeOK, control, OverlayAssumption
<1>7. CASE Restart(n)
  <2>1. restarts + 1 \in 0..MaxRestarts
    BY <1>7, OverlayAssumption DEF Restart, TypeOK, OverlayAssumption
  <2>2. Seed(n, restarts + 1) \in Session /\ WeAreInitiator(n) \in BOOLEAN
    BY <2>1, SeedType DEF WeAreInitiator
  <2>3. BlobPackets(n) \subseteq Packets /\ UNION PostsOf(n) \subseteq Packets
    BY BlobPacketsType DEF TypeOK, PostsOf
  <2>4. <<>> \in Seq(SUBSET Packets) /\ Len(<<>>) = 0
    OBVIOUS
  <2>5. blobs' \in [Nodes -> Seq(SUBSET Packets)] /\ \A m \in Nodes : Len(blobs'[m]) <= PipeCap
    BY <1>7, <2>4, OverlayAssumption DEF Restart, TypeOK, OverlayAssumption
  <2> QED
    BY <1>7, <2>1, <2>2, <2>3, <2>5 DEF Restart, TypeOK
<1> QED
  BY <1>2, <1>3, <1>4, <1>5, <1>6, <1>7 DEF Note

LEMMA TypeNext == ASSUME IInv, [Next]_vars PROVE TypeOK'
<1>1. TypeOK /\ Speaks
  BY DEF IInv
<1>2. ASSUME NEW b \in posts, ReceivePost(b) \/ LosePost(b) PROVE TypeOK'
  BY <1>1, <1>2 DEF ReceivePost, LosePost, TypeOK, control
<1>3. CASE UNCHANGED vars
  BY <1>1, <1>3 DEF vars, control, traffic, TypeOK
<1> QED
  BY <1>1, <1>2, <1>3, TypeControl, TypeTraffic, OverlayAssumption DEF Next

-----------------------------------------------------------------------------
\* The steps of packets leave the control part alone.
LEMMA TrafficSteps ==
    ASSUME NEW n \in Nodes, Note(n) \/ FlushIdle(n) \/ ReceiveBlob(n)
    PROVE  UNCHANGED control
BY DEF Note, Collect, CollectFull, SwitchPort, FlushIdle, ReceiveBlob

\* The occupy task and the listen change flags only.
LEMMA OccupyEffect ==
    ASSUME TypeOK, NEW n \in Nodes, OccupyStep(n) \/ ListenUp(n) \/ ListenIdle(n)
    PROVE  \A m \in Nodes : SameSession(sess[m], sess'[m])
<1>1. \A m \in Nodes : sess[m] \in Session /\ SameSession(sess[m], sess[m])
  BY DEF TypeOK, SameSession
<1>2. ASSUME NEW t, SameSession(sess[n], t), sess' = [sess EXCEPT ![n] = t]
      PROVE  \A m \in Nodes : SameSession(sess[m], sess'[m])
  BY <1>1, <1>2 DEF TypeOK
<1>3. CASE PipeStarts(n)
  BY <1>1, <1>3 DEF PipeStarts
<1>4. CASE PipeOpens(n) \/ PipeCloses(n) \/ ListenIdle(n)
  <2>1. PICK b \in BOOLEAN : sess' = [sess EXCEPT ![n] = [sess[n] EXCEPT !.pipe = b]]
    BY <1>4 DEF PipeOpens, PipeCloses, ListenIdle
  <2> QED
    BY <1>1, <1>2, <2>1, SessionFlags
<1>5. CASE PipeFails(n)
  BY <1>1, <1>2, <1>5, SessionFlags DEF PipeFails
<1>6. CASE ListenUp(n)
  <2>1. sess' = [sess EXCEPT ![n] = [sess[n] EXCEPT !.inflight = TRUE]]
    BY <1>6 DEF ListenUp
  <2> QED
    BY <1>1, <1>2, <2>1, SessionFlags
<1> QED
  BY <1>3, <1>4, <1>5, <1>6 DEF OccupyStep

\* A message that is taken leaves its id and key in the session.
LEMMA InboundEffect ==
    ASSUME TypeOK, NEW n \in Nodes, NEW m \in sent,
           AdoptOffer(n, m) \/ DeliverAccept(n, m)
    PROVE  /\ \A k \in Nodes \ {n} : sess'[k] = sess[k] /\ accepting'[k] = accepting[k]
           /\ sess'[n].key = m.key /\ sess'[n].id = m.id
           /\ m.to = n
           /\ UNCHANGED <<offering, sent>>
<1>1. CASE AdoptOffer(n, m)
  <2>1. sess'[n] = Adopted(sess[n], m)
    BY <1>1 DEF AdoptOffer, TypeOK
  <2>2. sess'[n].key = m.key /\ sess'[n].id = m.id
    BY <2>1 DEF TypeOK, Session, Adopted
  <2> QED
    BY <1>1, <2>2 DEF AdoptOffer, TypeOK
<1>2. CASE DeliverAccept(n, m)
  <2>1. sess'[n] = [sess[n] EXCEPT !.key = m.key, !.attached = TRUE, !.listen = TRUE]
    BY <1>2 DEF DeliverAccept, TypeOK
  <2>2. sess'[n].key = m.key /\ sess'[n].id = sess[n].id
    BY <2>1 DEF TypeOK, Session
  <2> QED
    BY <1>2, <2>2 DEF DeliverAccept, TakesAccept, TypeOK
<1> QED
  BY <1>1, <1>2

\* Nothing is offered or accepted without a key, and a key goes with its id.
LEMMA SpeaksNext ==
    ASSUME TypeOK, Speaks, SentPairs, AttachedToPeer, [Next]_vars
    PROVE  Speaks' /\ SentPairs'
<1> USE DEF Speaks, SentPairs
<1>1. ASSUME NEW n \in Nodes, OfferStep(n) \/ AcceptStep(n) PROVE Speaks' /\ SentPairs'
  <2>1. CASE PostOffer(n) \/ PostAccept(n)
    <3>1. sess[n].key = sess[n].id
      BY <2>1 DEF PostOffer, PostAccept, AttachedToPeer
    <3> QED
      BY <2>1, <3>1 DEF PostOffer, PostAccept, Offer, Accept
  <2>2. CASE StopOffer(n) \/ StopAccept(n)
    BY <2>2 DEF StopOffer, StopAccept, TypeOK
  <2> QED
    BY <1>1, <2>1, <2>2 DEF OfferStep, AcceptStep
<1>2. ASSUME NEW n \in Nodes, OccupyStep(n) \/ ListenUp(n) \/ ListenIdle(n)
      PROVE  Speaks' /\ SentPairs'
  <2>1. UNCHANGED <<offering, accepting, sent>>
    BY <1>2 DEF OccupyStep, PipeStarts, PipeOpens, PipeCloses, PipeFails, ListenUp, ListenIdle
  <2>2. \A m \in Nodes : SameSession(sess[m], sess'[m])
    BY <1>2, OccupyEffect
  <2> QED
    BY <2>1, <2>2 DEF SameSession
<1>3. ASSUME NEW n \in Nodes, Inbound(n) PROVE Speaks' /\ SentPairs'
  <2>1. PICK m \in sent : AdoptOffer(n, m) \/ DeliverAccept(n, m)
    BY <1>3 DEF Inbound
  <2>2. m.key # NoKey
    BY KeyFacts DEF TypeOK, Messages
  <2> QED
    BY <2>1, <2>2, InboundEffect
<1>4. ASSUME NEW n \in Nodes, Restart(n) PROVE Speaks' /\ SentPairs'
  <2>1. sess'[n].key # NoKey <=> WeAreInitiator(n)
    BY <1>4, KeyFacts DEF Restart, Seed, NoKey, TypeOK, Nodes
  <2>2. /\ \A k \in Nodes \ {n} : /\ sess'[k] = sess[k] /\ offering'[k] = offering[k]
                                /\ accepting'[k] = accepting[k]
        /\ offering'[n] = WeAreInitiator(n) /\ accepting'[n] = FALSE
        /\ sent' = sent
    BY <1>4 DEF Restart, TypeOK
  <2> QED
    BY <2>1, <2>2
<1>5. CASE UNCHANGED control
  BY <1>5 DEF control
<1> QED
  BY <1>1, <1>2, <1>3, <1>4, <1>5, TrafficSteps
     DEF Next, ReceivePost, LosePost, vars

\* A session is attached by a message that names its id and key.
LEMMA AttachedNext ==
    ASSUME TypeOK, SentPairs, AttachedToPeer, [Next]_vars
    PROVE  AttachedToPeer'
<1> USE DEF AttachedToPeer
<1>1. ASSUME NEW n \in Nodes,
             OfferStep(n) \/ AcceptStep(n) \/ OccupyStep(n) \/ ListenUp(n) \/ ListenIdle(n)
      PROVE  AttachedToPeer'
  <2>1. sent \subseteq sent'
    BY <1>1 DEF OfferStep, PostOffer, StopOffer, AcceptStep, PostAccept, StopAccept,
                OccupyStep, PipeStarts, PipeOpens, PipeCloses, PipeFails, ListenUp, ListenIdle
  <2>2. \A m \in Nodes : SameSession(sess[m], sess'[m])
    BY <1>1, OccupyEffect
       DEF OfferStep, PostOffer, StopOffer, AcceptStep, PostAccept, StopAccept, SameSession
  <2> QED
    BY <2>1, <2>2 DEF SameSession
<1>2. ASSUME NEW n \in Nodes, Inbound(n) PROVE AttachedToPeer'
  <2>1. PICK m \in sent : AdoptOffer(n, m) \/ DeliverAccept(n, m)
    BY <1>2 DEF Inbound
  <2>2. m.key = m.id
    BY DEF SentPairs
  <2> QED
    BY <2>1, <2>2, InboundEffect
<1>3. ASSUME NEW n \in Nodes, Restart(n) PROVE AttachedToPeer'
  <2>1. /\ sess'[n].key \in {NoKey, sess'[n].id} /\ ~sess'[n].attached
    BY <1>3 DEF Restart, Seed, TypeOK
  <2>2. (\A k \in Nodes \ {n} : sess'[k] = sess[k]) /\ sent' = sent
    BY <1>3 DEF Restart, TypeOK
  <2> QED
    BY <2>1, <2>2
<1>4. CASE UNCHANGED control
  BY <1>4 DEF control
<1> QED
  BY <1>1, <1>2, <1>3, <1>4, TrafficSteps DEF Next, ReceivePost, LosePost, vars

\* The flag goes up with the task and down with it.
LEMMA InflightNext ==
    ASSUME TypeOK, InflightIsTask, [Next]_vars
    PROVE  InflightIsTask'
<1> USE DEF InflightIsTask
<1>1. ASSUME NEW n \in Nodes, OfferStep(n) \/ AcceptStep(n) PROVE InflightIsTask'
  BY <1>1 DEF OfferStep, PostOffer, StopOffer, AcceptStep, PostAccept, StopAccept
<1>2. ASSUME NEW n \in Nodes,
             PipeStarts(n) \/ PipeOpens(n) \/ PipeCloses(n) \/ ListenIdle(n)
      PROVE  InflightIsTask'
  <2>1. \A k \in Nodes : sess'[k].inflight = sess[k].inflight
    <3>1. CASE PipeStarts(n)
      BY <3>1 DEF PipeStarts
    <3>2. CASE PipeOpens(n) \/ PipeCloses(n) \/ ListenIdle(n)
      <4>1. PICK b \in BOOLEAN : sess' = [sess EXCEPT ![n] = [sess[n] EXCEPT !.pipe = b]]
        BY <3>2 DEF PipeOpens, PipeCloses, ListenIdle
      <4>2. [sess[n] EXCEPT !.pipe = b].inflight = sess[n].inflight
        BY SessionFlags DEF TypeOK
      <4> QED
        BY <4>1, <4>2 DEF TypeOK
    <3> QED
      BY <1>2, <3>1, <3>2
  <2>2. \A k \in Nodes : occupy'[k] # "none" <=> occupy[k] # "none"
    BY <1>2 DEF PipeStarts, PipeOpens, PipeCloses, ListenIdle, TypeOK
  <2> QED
    BY <2>1, <2>2
<1>3. ASSUME NEW n \in Nodes, PipeFails(n) \/ ListenUp(n) \/ Inbound(n) PROVE InflightIsTask'
  <2>1. CASE PipeFails(n)
    <3>1. sess'[n] = Removed(sess[n])
      BY <2>1 DEF PipeFails, TypeOK
    <3>2. ~sess'[n].inflight
      BY <3>1 DEF Removed, TypeOK, Session
    <3> QED
      BY <2>1, <3>2 DEF PipeFails, TypeOK
  <2>2. CASE ListenUp(n)
    BY <2>2 DEF ListenUp, TypeOK, Session
  <2>3. ASSUME NEW m \in sent, AdoptOffer(n, m) PROVE InflightIsTask'
    <3>1. sess'[n] = Adopted(sess[n], m)
      BY <2>3 DEF AdoptOffer, TypeOK
    <3>2. sess'[n].inflight
      BY <3>1 DEF TypeOK, Session, Adopted
    <3> QED
      BY <2>3, <3>2 DEF AdoptOffer, TypeOK
  <2>4. ASSUME NEW m \in sent, DeliverAccept(n, m) PROVE InflightIsTask'
    <3>1. \A k \in Nodes : sess'[k].inflight = sess[k].inflight
      BY <2>4 DEF DeliverAccept, TypeOK, Session
    <3> QED
      BY <2>4, <3>1 DEF DeliverAccept
  <2> QED
    BY <1>3, <2>1, <2>2, <2>3, <2>4 DEF Inbound
<1>4. ASSUME NEW n \in Nodes, Restart(n) PROVE InflightIsTask'
  BY <1>4 DEF Restart, Seed, TypeOK
<1>5. CASE UNCHANGED control
  BY <1>5 DEF control
<1> QED
  BY <1>1, <1>2, <1>3, <1>4, <1>5, TrafficSteps
     DEF Next, OccupyStep, ReceivePost, LosePost, vars

\* Only a failed occupation removes the session, and only its daemon restores
\* it.
LEMMA RemovedNext ==
    ASSUME TypeOK, RemovedByFailure, [Next]_vars
    PROVE  RemovedByFailure' /\ failed \subseteq failed'
<1> USE DEF RemovedByFailure
<1> DEFINE Kept == \A m \in Nodes : sess[m].exists => sess'[m].exists
<1>1. ASSUME Kept, UNCHANGED failed PROVE RemovedByFailure' /\ failed \subseteq failed'
  BY <1>1
<1>2. ASSUME NEW n \in Nodes, NEW t, t.exists = sess[n].exists, sess' = [sess EXCEPT ![n] = t]
      PROVE  Kept
  BY <1>2 DEF TypeOK
<1> HIDE DEF Kept
<1>3. ASSUME NEW n \in Nodes, OfferStep(n) \/ AcceptStep(n) PROVE Kept /\ UNCHANGED failed
  BY <1>3 DEF Kept, OfferStep, PostOffer, StopOffer, AcceptStep, PostAccept, StopAccept
<1>4. ASSUME NEW n \in Nodes,
             PipeStarts(n) \/ PipeOpens(n) \/ PipeCloses(n) \/ ListenIdle(n) \/ ListenUp(n)
      PROVE  Kept /\ UNCHANGED failed
  <2>1. CASE PipeStarts(n)
    BY <2>1 DEF PipeStarts, Kept
  <2>2. \A b \in BOOLEAN : /\ [sess[n] EXCEPT !.pipe = b].exists = sess[n].exists
                          /\ [sess[n] EXCEPT !.inflight = b].exists = sess[n].exists
    BY DEF TypeOK, Session
  <2>3. CASE PipeOpens(n) \/ PipeCloses(n) \/ ListenIdle(n)
    <3>1. PICK b \in BOOLEAN : sess' = [sess EXCEPT ![n] = [sess[n] EXCEPT !.pipe = b]]
      BY <2>3 DEF PipeOpens, PipeCloses, ListenIdle
    <3> QED
      BY <1>2, <2>2, <2>3, <3>1 DEF PipeOpens, PipeCloses, ListenIdle
  <2>4. CASE ListenUp(n)
    <3>1. sess' = [sess EXCEPT ![n] = [sess[n] EXCEPT !.inflight = TRUE]]
      BY <2>4 DEF ListenUp
    <3> QED
      BY <1>2, <2>2, <2>4, <3>1 DEF ListenUp
  <2> QED
    BY <1>4, <2>1, <2>3, <2>4
<1>5. ASSUME NEW n \in Nodes, PipeFails(n) PROVE RemovedByFailure' /\ failed \subseteq failed'
  BY <1>5 DEF PipeFails, TypeOK
<1>6. ASSUME NEW n \in Nodes, Inbound(n) PROVE Kept /\ UNCHANGED failed
  <2>1. PICK m \in sent : AdoptOffer(n, m) \/ DeliverAccept(n, m)
    BY <1>6 DEF Inbound
  <2>2. CASE AdoptOffer(n, m)
    <3> DEFINE t == Adopted(sess[n], m)
    <3>1. sess' = [sess EXCEPT ![n] = t]
      BY <2>2 DEF AdoptOffer
    <3>2. t.exists = sess[n].exists
      BY DEF TypeOK, Session, Adopted
    <3> QED
      BY <1>2, <2>2, <3>1, <3>2 DEF AdoptOffer
  <2>3. CASE DeliverAccept(n, m)
    <3> DEFINE t == [sess[n] EXCEPT !.key = m.key, !.attached = TRUE, !.listen = TRUE]
    <3>1. sess' = [sess EXCEPT ![n] = t]
      BY <2>3 DEF DeliverAccept
    <3>2. t.exists = sess[n].exists
      BY DEF TypeOK, Session
    <3> QED
      BY <1>2, <2>3, <3>1, <3>2 DEF DeliverAccept
  <2> QED
    BY <2>1, <2>2, <2>3
<1>7. ASSUME NEW n \in Nodes, Restart(n) PROVE Kept /\ UNCHANGED failed
  BY <1>7 DEF Kept, Restart, Seed, TypeOK
<1>8. CASE UNCHANGED control
  BY <1>8 DEF Kept, control
<1> QED
  BY <1>1, <1>3, <1>4, <1>5, <1>6, <1>7, <1>8, TrafficSteps
     DEF Next, OccupyStep, ReceivePost, LosePost, vars

\* What a flush posts, of its own packets, respects the session.
LEMMA FlushOwns ==
    ASSUME TypeOK, RemovedByFailure, NEW n \in Nodes, NEW batch,
           \A p \in batch : p.src = n, Flush(n, batch)
    PROVE  \A p \in UNION posts' :
               p \in UNION posts \/ (p.port = "overlay" => p.src \in failed)
<1>1. CASE UNCHANGED posts
  BY <1>1
<1>2. CASE OverlayPostPlan(n, batch) = "p1" /\ posts' = posts \cup {batch}
  <2>1. HasPort(batch, "plain") \/ n \in failed
    BY <1>2 DEF OverlayPostPlan, RemovedByFailure
  <2> QED
    BY <1>2, <2>1 DEF HasPort
<1> QED
  BY <1>1, <1>2 DEF Flush

LEMMA PortNext ==
    ASSUME TypeOK, RemovedByFailure, OwnPackets, SessionOwnsPort, [Next]_vars
    PROVE  OwnPackets' /\ SessionOwnsPort'
<1> USE DEF OwnPackets, SessionOwnsPort
<1>1. failed \subseteq failed'
  BY RemovedNext
<1>2. ASSUME NEW n \in Nodes, OfferStep(n) \/ AcceptStep(n) \/ Inbound(n)
                              \/ ListenUp(n) \/ ListenIdle(n) \/ OccupyStep(n)
      PROVE  OwnPackets' /\ SessionOwnsPort'
  <2>1. UNCHANGED <<pending, posts, tun>>
    BY <1>2 DEF OfferStep, PostOffer, StopOffer, AcceptStep, PostAccept, StopAccept,
                Inbound, AdoptOffer, DeliverAccept, ListenUp, ListenIdle, OccupyStep,
                PipeStarts, PipeOpens, PipeCloses, PipeFails, traffic
  <2> QED
    BY <1>1, <2>1
<1>3. ASSUME NEW n \in Nodes, NEW batch, Flush(n, batch), \A p \in batch : p.src = n,
             UNCHANGED tun
      PROVE  SessionOwnsPort'
  BY <1>1, <1>3, FlushOwns
<1>4. ASSUME NEW n \in Nodes, Note(n) PROVE OwnPackets' /\ SessionOwnsPort'
  <2>1. PICK port \in Ports : Collect(n, port) \/ CollectFull(n, port) \/ SwitchPort(n, port)
    BY <1>4 DEF Note
  <2>2. NextPacket(n, port).src = n
    BY DEF NextPacket
  <2>3. OwnPackets'
    <3>1. \A k \in Nodes \ {n} : pending'[k] = pending[k]
      BY <2>1 DEF Collect, CollectFull, SwitchPort, TypeOK
    <3>2. pending'[n] \subseteq pending[n] \cup {NextPacket(n, port)}
      BY <2>1 DEF Collect, CollectFull, SwitchPort, TypeOK
    <3> QED
      BY <2>2, <3>1, <3>2
  <2>4. CASE Collect(n, port)
    BY <1>1, <2>3, <2>4 DEF Collect
  <2>5. CASE CollectFull(n, port)
    BY <1>3, <2>2, <2>3, <2>5 DEF CollectFull
  <2>6. CASE SwitchPort(n, port)
    BY <1>3, <2>3, <2>6 DEF SwitchPort
  <2> QED
    BY <2>1, <2>3, <2>4, <2>5, <2>6
<1>5. ASSUME NEW n \in Nodes, FlushIdle(n) PROVE OwnPackets' /\ SessionOwnsPort'
  BY <1>3, <1>5 DEF FlushIdle, TypeOK
<1>6. ASSUME NEW n \in Nodes, ReceiveBlob(n) PROVE OwnPackets' /\ SessionOwnsPort'
  BY <1>1, <1>6 DEF ReceiveBlob
<1>7. ASSUME NEW n \in Nodes, Restart(n) PROVE OwnPackets' /\ SessionOwnsPort'
  BY <1>1, <1>7 DEF Restart, TypeOK
<1>8. ASSUME NEW b \in posts, ReceivePost(b) \/ LosePost(b)
      PROVE  OwnPackets' /\ SessionOwnsPort'
  BY <1>1, <1>8 DEF ReceivePost, LosePost
<1>9. CASE UNCHANGED vars
  BY <1>1, <1>9 DEF vars, traffic
<1> QED
  BY <1>2, <1>4, <1>5, <1>6, <1>7, <1>8, <1>9 DEF Next

-----------------------------------------------------------------------------
LEMMA InitIInv == Init => IInv
<1> SUFFICES ASSUME Init PROVE IInv
  OBVIOUS
<1>1. \A n \in Nodes : sess[n] = Seed(n, 0) /\ Seed(n, 0) \in Session
  BY SeedType, OverlayAssumption DEF Init, OverlayAssumption
<1>2. TypeOK
  <2>1. sess \in [Nodes -> Session]
    BY <1>1 DEF Init
  <2>2. <<>> \in Seq(SUBSET Packets) /\ Len(<<>>) = 0
    OBVIOUS
  <2>3. blobs \in [Nodes -> Seq(SUBSET Packets)] /\ \A n \in Nodes : Len(blobs[n]) <= PipeCap
    BY <2>2, OverlayAssumption DEF Init, OverlayAssumption
  <2> QED
    BY <2>1, <2>3, OverlayAssumption DEF Init, TypeOK, OverlayAssumption
<1>3. Speaks /\ SentPairs
  BY DEF Init, Speaks, SentPairs
<1>4. AttachedToPeer /\ InflightIsTask /\ RemovedByFailure
  BY <1>1 DEF Init, Seed, AttachedToPeer, InflightIsTask, RemovedByFailure
<1>5. OwnPackets /\ SessionOwnsPort
  BY DEF Init, OwnPackets, SessionOwnsPort
<1> QED
  BY <1>2, <1>3, <1>4, <1>5 DEF IInv

LEMMA NextIInv == IInv /\ [Next]_vars => IInv'
BY TypeNext, SpeaksNext, AttachedNext, InflightNext, RemovedNext, PortNext DEF IInv

\* The inductive invariant holds in every reachable state.
THEOREM Invariance == Spec => []IInv
BY InitIInv, NextIInv, PTL DEF Spec

\* PeerOverlay is type-correct; a pipe's queue never exceeds its capacity.
THEOREM TypeCorrect == Spec => []TypeOK
<1>1. IInv => TypeOK
  BY DEF IInv
<1> QED
  BY <1>1, Invariance, PTL

\* An attached session is one the peer has spoken of, with that id's key, in
\* whatever order offers and accepts of earlier starts arrive
\* (apply_duplex_offer, apply_duplex_accept).
THEOREM AttachedToSpeaker == Spec => []AttachedToPeer
<1>1. IInv => AttachedToPeer
  BY DEF IInv
<1> QED
  BY <1>1, Invariance, PTL

\* The inflight flag of a session is up exactly while its occupy task runs
\* (spawn_l0_pipe, rebuild_l0_pipes_after_listen_up).
THEOREM InflightExact == Spec => []InflightIsTask
<1>1. IInv => InflightIsTask
  BY DEF IInv
<1> QED
  BY <1>1, Invariance, PTL

\* Packets of a port with a configured session are POSTed by a daemon only
\* after one of its occupations failed (prepare_overlay_post).
THEOREM PortOwned == Spec => []SessionOwnsPort
<1>1. IInv => SessionOwnsPort
  BY DEF IInv
<1> QED
  BY <1>1, Invariance, PTL

-----------------------------------------------------------------------------
(* Where the packets are: collected, sealed for a pipe, posted, written to  *)
(* a TUN device or gone.                                                    *)

Entries(s) == {s[i] : i \in DOMAIN s}
Disjoint(s) == \A i, j \in DOMAIN s : i # j => s[i] \cap s[j] = {}

Collecting == UNION {pending[n] : n \in Nodes}
Sealed == UNION {BlobPackets(n) : n \in Nodes}
Posted == UNION posts
Known == Collecting \cup Sealed \cup Posted \cup tun \cup gone

Apart(P, S, M, T, G) ==
    /\ P \cap (S \cup M \cup T \cup G) = {} /\ S \cap (M \cup T \cup G) = {}
    /\ M \cap (T \cup G) = {} /\ T \cap G = {}

OnePort(b) == \E port \in Ports : HasPort(b, port)

\* A packet is in one of the five places, and there in one batch only.
OnePlace ==
    /\ Apart(Collecting, Sealed, Posted, tun, gone)
    /\ \A n \in Nodes : Disjoint(blobs[n])
    /\ \A b, c \in posts : b # c => b \cap c = {}

\* What is sealed for a pipe are the daemon's own packets.
OwnBlobs == \A n \in Nodes : \A p \in BlobPackets(n) : p.src = n

\* Every number was given to a packet that is somewhere, and no other was.
Numbered ==
    /\ \A p \in Known : p.nr <= noted
    /\ \A k \in 1..noted : \E p \in Known : p.nr = k

Placed ==
    /\ OnePlace /\ OwnBlobs /\ Numbered
    /\ \A b \in Batches : OnePort(b)

\* X joins one of the places that it is in none of.
LEMMA ApartAdd ==
    ASSUME NEW P, NEW S, NEW M, NEW T, NEW G, NEW X, Apart(P, S, M, T, G),
           X \cap (P \cup S \cup M \cup T \cup G) = {}
    PROVE  /\ Apart(P \cup X, S, M, T, G) /\ Apart(P, S \cup X, M, T, G)
           /\ Apart(P, S, M \cup X, T, G) /\ Apart(P, S, M, T \cup X, G)
           /\ Apart(P, S, M, T, G \cup X)
BY DEF Apart

\* X leaves the places it is in.
LEMMA ApartLess ==
    ASSUME NEW P, NEW S, NEW M, NEW T, NEW G, NEW Q, NEW R, NEW N,
           Apart(P, S, M, T, G), Q \subseteq P, R \subseteq S, N \subseteq M
    PROVE  Apart(Q, R, N, T, G)
BY DEF Apart

LEMMA AppendEntry ==
    ASSUME NEW s \in Seq(SUBSET Packets), NEW b \in SUBSET Packets,
           Disjoint(s), b \cap UNION Entries(s) = {}
    PROVE  Disjoint(Append(s, b)) /\ Entries(Append(s, b)) = Entries(s) \cup {b}
<1> DEFINE a == Append(s, b)
<1>1. /\ DOMAIN s = 1 .. Len(s) /\ DOMAIN a = 1 .. (Len(s) + 1) /\ Len(s) \in Nat
      /\ \A i \in DOMAIN s : i \in DOMAIN a /\ a[i] = s[i]
      /\ a[Len(s) + 1] = b
  BY AppendProperties, LenProperties
<1> HIDE DEF a
<1>2. \A i \in DOMAIN a : i \in DOMAIN s \/ i = Len(s) + 1
  BY <1>1
<1>3. Entries(a) = Entries(s) \cup {b}
  BY <1>1, <1>2 DEF Entries
<1>4. \A i \in DOMAIN s : s[i] \cap b = {}
  BY DEF Entries
<1>5. Disjoint(a)
  BY <1>1, <1>2, <1>4 DEF Disjoint
<1> QED
  BY <1>3, <1>5 DEF a

LEMMA TailEntry ==
    ASSUME NEW s \in Seq(SUBSET Packets), s # <<>>, Disjoint(s)
    PROVE  /\ Disjoint(Tail(s)) /\ Entries(s) = {Head(s)} \cup Entries(Tail(s))
           /\ Head(s) \cap UNION Entries(Tail(s)) = {}
<1> DEFINE t == Tail(s)
<1>1. /\ Len(t) = Len(s) - 1 /\ t \in Seq(SUBSET Packets)
      /\ \A k \in 1 .. Len(t) : t[k] = s[k + 1]
  BY HeadTailProperties
<1>2. /\ DOMAIN s = 1 .. Len(s) /\ DOMAIN t = 1 .. Len(t) /\ Len(s) \in Nat /\ Len(s) > 0
      /\ Head(s) = s[1]
  BY <1>1, LenProperties, EmptySeq
<1> HIDE DEF t
<1>3. \A i \in DOMAIN t : i + 1 \in DOMAIN s /\ t[i] = s[i + 1] /\ i \in Nat /\ i + 1 # 1
  BY <1>1, <1>2
<1>4. \A i \in DOMAIN s : i = 1 \/ (i - 1 \in DOMAIN t /\ s[i] = t[i - 1])
  BY <1>1, <1>2
<1>5. 1 \in DOMAIN s
  BY <1>2
<1>6. Entries(s) = {Head(s)} \cup Entries(t)
  <2>1. \A b : b \in Entries(s) => b = Head(s) \/ b \in Entries(t)
    BY <1>2, <1>4 DEF Entries
  <2>2. \A b : b \in Entries(t) => b \in Entries(s)
    BY <1>3 DEF Entries
  <2>3. Head(s) \in Entries(s)
    BY <1>2, <1>5 DEF Entries
  <2> HIDE DEF Entries
  <2> QED
    BY <2>1, <2>2, <2>3
<1>7. \A i \in DOMAIN t : s[1] \cap t[i] = {}
  BY <1>3, <1>5 DEF Disjoint
<1>8. Disjoint(t)
  <2> SUFFICES ASSUME NEW i \in DOMAIN t, NEW j \in DOMAIN t, i # j PROVE t[i] \cap t[j] = {}
    BY DEF Disjoint
  <2>1. i + 1 # j + 1
    BY <1>3
  <2> QED
    BY <2>1, <1>3 DEF Disjoint
<1> QED
  BY <1>2, <1>6, <1>7, <1>8 DEF Entries, t

LEMMA NoEntry == Disjoint(<<>>) /\ Entries(<<>>) = {}
BY DEF Disjoint, Entries

LEMMA InitPlaced == Init => Placed
<1> SUFFICES ASSUME Init PROVE Placed
  OBVIOUS
<1>1. /\ posts = {} /\ tun = {} /\ gone = {} /\ noted = 0
      /\ \A n \in Nodes : pending[n] = {} /\ blobs[n] = <<>>
  BY DEF Init
<1>2. Collecting = {} /\ Sealed = {} /\ Posted = {} /\ \A n \in Nodes : BlobPackets(n) = {}
  BY <1>1 DEF Collecting, Sealed, Posted, BlobPackets
<1>3. \A b \in Batches : b = {}
  BY <1>1 DEF Batches
<1>4. \A b \in Batches : OnePort(b)
  BY <1>3 DEF OnePort, HasPort, Ports
<1> QED
  BY <1>1, <1>2, <1>4, NoEntry DEF Placed, OnePlace, Apart, OwnBlobs, Numbered, Known

-----------------------------------------------------------------------------
(* What a step leaves of the batches of each kind.                          *)

\* A batch of packets that are nowhere else is flushed; P is what is
\* collected afterwards.
LEMMA FlushPlaces ==
    ASSUME TypeOK, Placed, NEW n \in Nodes, NEW batch \in SUBSET Packets, Flush(n, batch),
           \A p \in batch : p.src = n, OnePort(batch), UNCHANGED tun,
           NEW P, Apart(P, Sealed, Posted, tun, gone),
           batch \cap (P \cup Sealed \cup Posted \cup tun \cup gone) = {}
    PROVE  /\ Apart(P, Sealed', Posted', tun', gone')
           /\ Sealed' \cup Posted' \cup gone' = Sealed \cup Posted \cup gone \cup batch
           /\ \A m \in Nodes : Disjoint(blobs'[m])
           /\ \A b, c \in posts' : b # c => b \cap c = {}
           /\ OwnBlobs'
           /\ \A m \in Nodes : \A b \in Entries(blobs'[m]) : OnePort(b)
           /\ \A b \in posts' : OnePort(b)
<1>1. /\ blobs \in [Nodes -> Seq(SUBSET Packets)] /\ \A m \in Nodes : Disjoint(blobs[m])
      /\ \A b, c \in posts : b # c => b \cap c = {}
      /\ \A m \in Nodes : \A b \in Entries(blobs[m]) : OnePort(b)
      /\ \A b \in posts : OnePort(b)
  BY DEF TypeOK, Placed, OnePlace, Batches, Entries
<1>2. \A m \in Nodes : BlobPackets(m) = UNION Entries(blobs[m])
  BY DEF BlobPackets, Entries
<1>3. \A m \in Nodes : BlobPackets(m)' = UNION Entries(blobs'[m])
  BY DEF BlobPackets, Entries
<1>4. CASE UNCHANGED blobs
  <2>1. UNCHANGED Sealed /\ OwnBlobs'
    BY <1>4 DEF Sealed, BlobPackets, OwnBlobs, Placed
  <2>2. CASE posts' = posts \cup {batch} /\ gone' = gone
    <3>1. Posted' = Posted \cup batch
      BY <2>2 DEF Posted
    <3>2. \A b \in posts : b \cap batch = {}
      BY DEF Posted
    <3>3. Apart(P, Sealed, Posted \cup batch, tun, gone)
      BY ApartAdd
    <3>4. \A b, c \in posts' : b # c => b \cap c = {}
      BY <1>1, <2>2, <3>2
    <3> QED
      BY <1>1, <1>4, <2>1, <2>2, <3>1, <3>3, <3>4
  <2>3. CASE posts' = posts /\ gone' = gone \cup batch
    BY <1>1, <1>4, <2>1, <2>3, ApartAdd DEF Posted
  <2>4. CASE blobs' = [blobs EXCEPT ![n] = Append(@, batch)]
    <3>1. blobs[n] = Append(blobs[n], batch)
      BY <1>1, <1>4, <2>4
    <3>2. FALSE
      BY <1>1, <3>1, AppendProperties, LenProperties
    <3> QED
      BY <3>2
  <2> QED
    BY <2>2, <2>3, <2>4 DEF Flush
<1>5. CASE blobs' = [blobs EXCEPT ![n] = Append(@, batch)] /\ UNCHANGED <<posts, gone>>
  <2>1. /\ blobs'[n] = Append(blobs[n], batch)
        /\ \A m \in Nodes \ {n} : blobs'[m] = blobs[m]
    BY <1>1, <1>5
  <2>2. batch \cap UNION Entries(blobs[n]) = {}
    BY <1>2 DEF Sealed
  <2>3. Disjoint(blobs'[n]) /\ Entries(blobs'[n]) = Entries(blobs[n]) \cup {batch}
    <3>1. blobs[n] \in Seq(SUBSET Packets) /\ Disjoint(blobs[n])
      BY <1>1
    <3>2. /\ Disjoint(Append(blobs[n], batch))
          /\ Entries(Append(blobs[n], batch)) = Entries(blobs[n]) \cup {batch}
      BY ONLY <3>1, <2>2, batch \in SUBSET Packets, AppendEntry
    <3> QED
      BY <2>1, <3>2
  <2>4. BlobPackets(n)' = BlobPackets(n) \cup batch
    BY <1>2, <1>3, <2>3
  <2>5. \A m \in Nodes \ {n} : BlobPackets(m)' = BlobPackets(m)
    BY <1>2, <1>3, <2>1
  <2>6. Sealed' = Sealed \cup batch
    BY <2>4, <2>5 DEF Sealed
  <2>7. OwnBlobs'
    BY <2>4, <2>5 DEF OwnBlobs, Placed
  <2> QED
    BY <1>1, <1>5, <2>1, <2>3, <2>6, <2>7, ApartAdd DEF Posted
<1> QED
  BY <1>4, <1>5 DEF Flush

\* The packets of pending[n] leave it, and the number of a new one is given.
LEMMA PendingPlaces ==
    ASSUME TypeOK, OwnPackets, Placed, NEW n \in Nodes
    PROVE  /\ \A m \in Nodes \ {n} : pending[m] \cap pending[n] = {}
           /\ pending[n] \cap (Sealed \cup Posted \cup tun \cup gone) = {}
           /\ OnePort(pending[n])
           /\ \A port \in Ports : NextPacket(n, port) \notin Known
<1>1. \A m \in Nodes \ {n} : pending[m] \cap pending[n] = {}
  BY DEF OwnPackets
<1>2. pending[n] \cap (Sealed \cup Posted \cup tun \cup gone) = {}
  <2>1. pending[n] \subseteq Collecting
    BY DEF Collecting
  <2>2. Collecting \cap (Sealed \cup Posted \cup tun \cup gone) = {}
    BY DEF Placed, OnePlace, Apart
  <2> QED
    BY <2>1, <2>2
<1>3. OnePort(pending[n])
  BY DEF Placed, Batches
<1>4. \A port \in Ports : NextPacket(n, port).nr = noted + 1
  BY DEF NextPacket
<1>5. ~(noted + 1 <= noted)
  BY OverlayAssumption DEF TypeOK, OverlayAssumption
<1> QED
  BY <1>1, <1>2, <1>3, <1>4, <1>5 DEF Placed, Numbered

\* The batches of the next state, kind by kind.
LEMMA BatchesNext ==
    ASSUME \A m \in Nodes : OnePort(pending'[m]),
           \A m \in Nodes : \A b \in Entries(blobs'[m]) : OnePort(b),
           \A b \in posts' : OnePort(b)
    PROVE  \A b \in Batches' : OnePort(b)
BY DEF Batches, Entries

LEMMA NumberedNext ==
    ASSUME TypeOK, Placed,
           \/ Known' = Known /\ noted' = noted
           \/ noted' = noted + 1 /\ \E x : x.nr = noted + 1 /\ Known' = Known \cup {x}
    PROVE  Numbered'
<1>1. noted \in Nat
  BY OverlayAssumption DEF TypeOK, OverlayAssumption
<1>2. /\ \A p \in Known : p.nr <= noted
      /\ \A k \in 1..noted : \E p \in Known : p.nr = k
  BY DEF Placed, Numbered
<1>3. CASE Known' = Known /\ noted' = noted
  BY <1>2, <1>3 DEF Numbered
<1>4. ASSUME noted' = noted + 1, NEW x, x.nr = noted + 1, Known' = Known \cup {x}
      PROVE  Numbered'
  <2>1. \A p \in Known : p.nr <= noted'
    <3>1. \A p \in Known : p.nr \in Nat
      BY DEF TypeOK, Known, Collecting, Sealed, Posted, BlobPackets, Packets
    <3> QED
      BY <1>1, <1>2, <1>4, <3>1
  <2>2. \A k \in 1..noted' : k \in 1..noted \/ k = noted + 1
    BY <1>1, <1>4
  <2> QED
    BY <1>1, <1>2, <1>4, <2>1, <2>2 DEF Numbered
<1> QED
  BY <1>3, <1>4

\* A batch is flushed, X is what node n collects afterwards; N is the packet
\* that was noted, if one was.
LEMMA FlushPlaced ==
    ASSUME IInv, Placed, NEW n \in Nodes, NEW batch \in SUBSET Packets, NEW X, NEW N,
           batch \cup X = pending[n] \cup N, batch \cap X = {},
           \/ N = {} /\ noted' = noted
           \/ /\ \E port \in Ports : N = {NextPacket(n, port)}
              /\ noted' = noted + 1,
           OnePort(batch), OnePort(X),
           Flush(n, batch), pending' = [pending EXCEPT ![n] = X], UNCHANGED tun
    PROVE  Placed'
<1> DEFINE Rest == UNION {pending[m] : m \in Nodes \ {n}}
<1>1. TypeOK /\ OwnPackets
  BY DEF IInv
<1>2. pending'[n] = X /\ \A m \in Nodes \ {n} : pending'[m] = pending[m]
  BY <1>1 DEF TypeOK
<1>3. Collecting = Rest \cup pending[n] /\ Collecting' = Rest \cup X
  BY <1>2 DEF Collecting
<1>4. /\ Rest \cap pending[n] = {}
      /\ pending[n] \cap (Sealed \cup Posted \cup tun \cup gone) = {}
      /\ N \cap Known = {}
  BY <1>1, PendingPlaces
<1>5. Apart(Collecting, Sealed, Posted, tun, gone)
  BY DEF Placed, OnePlace
<1> HIDE DEF Rest
<1>6. X \cap (Rest \cup Sealed \cup Posted \cup tun \cup gone) = {}
  BY <1>3, <1>4 DEF Known
<1>7. batch \cap (Collecting' \cup Sealed \cup Posted \cup tun \cup gone) = {}
  BY <1>3, <1>4 DEF Known
<1>8. Apart(Collecting', Sealed, Posted, tun, gone)
  <2>1. Apart(Rest, Sealed, Posted, tun, gone)
    BY <1>3, <1>5, ApartLess
  <2> QED
    BY <2>1, <1>3, <1>6, ApartAdd
<1>9. \A p \in batch : p.src = n
  <2>1. \A p \in pending[n] \cup N : p.src = n
    BY <1>1 DEF OwnPackets, NextPacket
  <2> QED
    BY <2>1
<1>10. /\ Apart(Collecting', Sealed', Posted', tun', gone')
       /\ Sealed' \cup Posted' \cup gone' = Sealed \cup Posted \cup gone \cup batch
       /\ \A m \in Nodes : Disjoint(blobs'[m])
       /\ \A b, c \in posts' : b # c => b \cap c = {}
       /\ OwnBlobs'
       /\ \A m \in Nodes : \A b \in Entries(blobs'[m]) : OnePort(b)
       /\ \A b \in posts' : OnePort(b)
  <2>1. PICK P : P = Collecting'
    OBVIOUS
  <2>2. /\ Apart(P, Sealed', Posted', tun', gone')
        /\ Sealed' \cup Posted' \cup gone' = Sealed \cup Posted \cup gone \cup batch
        /\ \A m \in Nodes : Disjoint(blobs'[m])
        /\ \A b, c \in posts' : b # c => b \cap c = {}
        /\ OwnBlobs'
        /\ \A m \in Nodes : \A b \in Entries(blobs'[m]) : OnePort(b)
        /\ \A b \in posts' : OnePort(b)
    BY <2>1, <1>1, <1>7, <1>8, <1>9, FlushPlaces
  <2> QED
    BY <2>1, <2>2
<1>11. Known' = Known \cup N
  BY <1>3, <1>10 DEF Known
<1>12. Numbered'
  <2>1. CASE N = {} /\ noted' = noted
    <3>1. Known' = Known
      BY <1>11, <2>1
    <3> QED
      BY <1>1, <2>1, <3>1, NumberedNext
  <2>2. ASSUME NEW port \in Ports, N = {NextPacket(n, port)}, noted' = noted + 1
        PROVE  Numbered'
    <3>1. NextPacket(n, port).nr = noted + 1
      BY DEF NextPacket
    <3> QED
      BY <1>1, <1>11, <2>2, <3>1, NumberedNext
  <2> QED
    BY <2>1, <2>2
<1>13. \A m \in Nodes : OnePort(pending'[m])
  BY <1>2 DEF Placed, Batches
<1>14. \A b \in Batches' : OnePort(b)
  BY <1>10, <1>13, BatchesNext
<1> QED
  BY <1>10, <1>12, <1>14 DEF Placed, OnePlace

\* Node n forgets what it collects, its pipe's queue or some posts, and all
\* of it is delivered or gone: X to the TUN device, Y nowhere.
LEMMA DropPlaced ==
    ASSUME IInv, Placed, NEW X, NEW Y, X \cap Y = {}, noted' = noted,
           tun' = tun \cup X, gone' = gone \cup Y,
           Collecting' \subseteq Collecting, Sealed' \subseteq Sealed, Posted' \subseteq Posted,
           X \cup Y = (Collecting \ Collecting') \cup (Sealed \ Sealed') \cup (Posted \ Posted'),
           \A m \in Nodes : Disjoint(blobs'[m]), posts' \subseteq posts,
           OwnBlobs', \A b \in Batches' : OnePort(b)
    PROVE  Placed'
<1>1. TypeOK
  BY DEF IInv
<1>2. Apart(Collecting, Sealed, Posted, tun, gone)
  BY DEF Placed, OnePlace
<1>3. Apart(Collecting', Sealed', Posted', tun', gone')
  BY <1>2 DEF Apart
<1>4. Known' = Known
  BY DEF Known
<1>5. Numbered'
  BY <1>1, <1>4, NumberedNext
<1>6. \A b, c \in posts' : b # c => b \cap c = {}
  BY DEF Placed, OnePlace
<1> QED
  BY <1>3, <1>5, <1>6 DEF Placed, OnePlace

\* A step that touches no packet.
LEMMA TrafficStutters ==
    ASSUME Placed, UNCHANGED traffic
    PROVE  Placed'
BY DEF Placed, OnePlace, OwnBlobs, Numbered, Known, Collecting, Sealed, Posted, BlobPackets,
       Batches, traffic

-----------------------------------------------------------------------------
LEMMA CollectPlaced ==
    ASSUME IInv, Placed, NEW n \in Nodes, NEW port \in Ports, Collect(n, port)
    PROVE  Placed'
<1> DEFINE x == NextPacket(n, port)
           Rest == UNION {pending[m] : m \in Nodes \ {n}}
<1>1. TypeOK /\ OwnPackets
  BY DEF IInv
<1>2. /\ HasPort(pending[n], port) /\ noted' = noted + 1
      /\ pending' = [pending EXCEPT ![n] = @ \cup {x}]
      /\ UNCHANGED <<blobs, posts, tun, gone>>
  BY DEF Collect
<1>3. pending'[n] = pending[n] \cup {x} /\ \A m \in Nodes \ {n} : pending'[m] = pending[m]
  BY <1>1, <1>2 DEF TypeOK
<1>4. x \notin Known
  BY <1>1, PendingPlaces
<1>5. x.nr = noted + 1 /\ x.port = port
  BY DEF NextPacket
<1> HIDE DEF x
<1>6. Collecting' = Collecting \cup {x}
  BY <1>3 DEF Collecting
<1>7. UNCHANGED <<Sealed, Posted>> /\ OwnBlobs'
  BY <1>2 DEF Sealed, Posted, BlobPackets, Placed, OwnBlobs
<1>8. Known' = Known \cup {x}
  BY <1>2, <1>6, <1>7 DEF Known
<1>9. Numbered'
  BY <1>1, <1>2, <1>5, <1>8, NumberedNext
<1>10. OnePlace'
  <2>1. Apart(Collecting \cup {x}, Sealed, Posted, tun, gone)
    <3>1. Apart(Collecting, Sealed, Posted, tun, gone)
      BY DEF Placed, OnePlace
    <3>2. {x} \cap (Collecting \cup Sealed \cup Posted \cup tun \cup gone) = {}
      BY <1>4 DEF Known
    <3> QED
      BY <3>1, <3>2, ApartAdd
  <2> QED
    BY <1>2, <1>6, <1>7, <2>1 DEF Placed, OnePlace
<1>11. \A b \in Batches' : OnePort(b)
  <2>1. OnePort(pending'[n])
    BY <1>2, <1>3, <1>5 DEF OnePort, HasPort
  <2>2. /\ \A m \in Nodes : OnePort(pending'[m])
        /\ \A m \in Nodes : \A b \in Entries(blobs'[m]) : OnePort(b)
        /\ \A b \in posts' : OnePort(b)
    BY <1>2, <1>3, <2>1 DEF Placed, Batches, Entries
  <2> QED
    BY <2>2, BatchesNext
<1> QED
  BY <1>7, <1>9, <1>10, <1>11 DEF Placed

LEMMA NotePlaced ==
    ASSUME IInv, Placed, NEW n \in Nodes, Note(n) \/ FlushIdle(n)
    PROVE  Placed'
<1>1. TypeOK /\ OwnPackets
  BY DEF IInv
<1>2. pending[n] \in SUBSET Packets /\ OnePort(pending[n])
  BY <1>1, PendingPlaces DEF TypeOK
<1>3. ASSUME NEW port \in Ports
      PROVE  /\ NextPacket(n, port).port = port
             /\ noted < MaxPackets => NextPacket(n, port) \in Packets
             /\ NextPacket(n, port) \notin pending[n]
  <2>1. NextPacket(n, port) \notin Known
    BY <1>1, PendingPlaces
  <2> QED
    BY <1>1, <2>1, OverlayAssumption
       DEF NextPacket, Packets, TypeOK, OverlayAssumption, Known, Collecting
<1>4. ASSUME NEW port \in Ports, CollectFull(n, port) PROVE Placed'
  <2> DEFINE N == {NextPacket(n, port)}
             batch == pending[n] \cup N
  <2>1. /\ noted < MaxPackets /\ HasPort(pending[n], port) /\ noted' = noted + 1
        /\ Flush(n, batch) /\ pending' = [pending EXCEPT ![n] = {}] /\ UNCHANGED tun
    BY <1>4 DEF CollectFull
  <2>2. batch \in SUBSET Packets
    BY <1>2, <1>3, <2>1
  <2>3. OnePort(batch) /\ OnePort({})
    BY <1>3, <2>1 DEF OnePort, HasPort
  <2>4. batch \cup {} = pending[n] \cup N /\ batch \cap {} = {}
    OBVIOUS
  <2>5. \E q \in Ports : N = {NextPacket(n, q)}
    OBVIOUS
  <2> HIDE DEF N, batch
  <2> QED
    BY <2>1, <2>2, <2>3, <2>4, <2>5, FlushPlaced
<1>5. ASSUME NEW port \in Ports, SwitchPort(n, port) PROVE Placed'
  <2> DEFINE N == {NextPacket(n, port)}
  <2>1. /\ noted' = noted + 1 /\ Flush(n, pending[n])
        /\ pending' = [pending EXCEPT ![n] = N] /\ UNCHANGED tun
    BY <1>5 DEF SwitchPort
  <2>2. OnePort(N) /\ pending[n] \cap N = {}
    BY <1>3 DEF OnePort, HasPort
  <2>3. \E q \in Ports : N = {NextPacket(n, q)}
    OBVIOUS
  <2> HIDE DEF N
  <2> QED
    BY <1>2, <2>1, <2>2, <2>3, FlushPlaced
<1>6. CASE FlushIdle(n)
  <2>1. /\ noted' = noted /\ Flush(n, pending[n])
        /\ pending' = [pending EXCEPT ![n] = {}] /\ UNCHANGED tun
    BY <1>6 DEF FlushIdle
  <2>2. OnePort({}) /\ pending[n] \cap {} = {} /\ pending[n] \cup {} = pending[n] \cup {}
    BY DEF OnePort, HasPort, Ports
  <2> QED
    BY <1>2, <2>1, <2>2, FlushPlaced
<1> QED
  BY <1>4, <1>5, <1>6, CollectPlaced DEF Note

\* The pipe's queue of node n becomes s; the rest of the state is given.
LEMMA QueueDrops ==
    ASSUME IInv, Placed, NEW n \in Nodes, NEW s, blobs' = [blobs EXCEPT ![n] = s],
           Disjoint(s), Entries(s) \subseteq Entries(blobs[n])
    PROVE  /\ Sealed' \subseteq Sealed
           /\ Sealed \ Sealed' = BlobPackets(n) \ UNION Entries(s)
           /\ \A m \in Nodes : Disjoint(blobs'[m])
           /\ OwnBlobs'
           /\ \A m \in Nodes : \A b \in Entries(blobs'[m]) : OnePort(b)
<1>1. blobs'[n] = s /\ \A m \in Nodes \ {n} : blobs'[m] = blobs[m]
  BY DEF IInv, TypeOK
<1>2. \A m \in Nodes : /\ BlobPackets(m) = UNION Entries(blobs[m])
                       /\ BlobPackets(m)' = UNION Entries(blobs'[m])
  BY DEF BlobPackets, Entries
<1>3. BlobPackets(n)' = UNION Entries(s)
  BY <1>1, <1>2
<1>4. BlobPackets(n)' \subseteq BlobPackets(n)
  BY <1>2, <1>3
<1>5. \A m \in Nodes \ {n} : BlobPackets(m)' = BlobPackets(m)
  BY <1>1, <1>2
<1>6. \A m \in Nodes \ {n} : BlobPackets(m) \cap BlobPackets(n) = {}
  BY DEF Placed, OwnBlobs
<1>7. Sealed' \subseteq Sealed /\ Sealed \ Sealed' = BlobPackets(n) \ UNION Entries(s)
  BY <1>3, <1>4, <1>5, <1>6 DEF Sealed
<1>8. OwnBlobs'
  BY <1>4, <1>5 DEF Placed, OwnBlobs
<1>9. \A m \in Nodes : Disjoint(blobs'[m])
  BY <1>1 DEF Placed, OnePlace
<1>10. \A m \in Nodes : \A b \in Entries(blobs'[m]) : OnePort(b)
  <2>1. \A m \in Nodes : \A b \in Entries(blobs[m]) : OnePort(b)
    BY DEF Placed, Batches, Entries
  <2>2. \A m \in Nodes : Entries(blobs'[m]) \subseteq Entries(blobs[m])
    BY <1>1
  <2> QED
    BY <2>1, <2>2
<1> QED
  BY <1>7, <1>8, <1>9, <1>10

LEMMA PipePlaced ==
    ASSUME IInv, Placed, NEW n \in Nodes, PipeCloses(n) \/ PipeFails(n) \/ ReceiveBlob(n)
    PROVE  Placed'
<1>1. UNCHANGED <<noted, pending, posts, tun>>
  BY DEF PipeCloses, PipeFails, ReceiveBlob
<1>2. UNCHANGED <<Collecting, Posted>>
  BY <1>1 DEF Collecting, Posted
<1>3. \A m \in Nodes : OnePort(pending'[m])
  BY <1>1 DEF Placed, Batches
<1>4. \A b \in posts' : OnePort(b)
  BY <1>1 DEF Placed, Batches
<1>5. PICK s, Y : /\ blobs' = [blobs EXCEPT ![n] = s] /\ gone' = gone \cup Y
                  /\ Disjoint(s) /\ Entries(s) \subseteq Entries(blobs[n])
                  /\ Y = BlobPackets(n) \ UNION Entries(s)
  <2>1. CASE PipeCloses(n) \/ PipeFails(n)
    BY <2>1, NoEntry DEF PipeCloses, PipeFails
  <2>2. CASE ReceiveBlob(n)
    <3>1. /\ blobs' = [blobs EXCEPT ![n] = Tail(blobs[n])]
          /\ gone' = gone \cup Head(blobs[n]) /\ blobs[n] # <<>>
      BY <2>2 DEF ReceiveBlob
    <3>2. blobs[n] \in Seq(SUBSET Packets) /\ Disjoint(blobs[n])
      BY DEF IInv, TypeOK, Placed, OnePlace
    <3>3. /\ Disjoint(Tail(blobs[n]))
          /\ Entries(blobs[n]) = {Head(blobs[n])} \cup Entries(Tail(blobs[n]))
          /\ Head(blobs[n]) \cap UNION Entries(Tail(blobs[n])) = {}
      BY ONLY <3>1, <3>2, TailEntry
    <3>4. BlobPackets(n) = UNION Entries(blobs[n])
      BY DEF BlobPackets, Entries
    <3>5. Head(blobs[n]) = BlobPackets(n) \ UNION Entries(Tail(blobs[n]))
      BY <3>3, <3>4
    <3> QED
      BY <3>1, <3>3, <3>5
  <2> QED
    BY <2>1, <2>2
<1>6. /\ Sealed' \subseteq Sealed /\ Sealed \ Sealed' = Y
      /\ \A m \in Nodes : Disjoint(blobs'[m])
      /\ OwnBlobs'
      /\ \A m \in Nodes : \A b \in Entries(blobs'[m]) : OnePort(b)
  BY <1>5, QueueDrops
<1>7. \A b \in Batches' : OnePort(b)
  BY <1>3, <1>4, <1>6, BatchesNext
<1>8. {} \cup Y = (Collecting \ Collecting') \cup (Sealed \ Sealed') \cup (Posted \ Posted')
  BY <1>2, <1>6
<1> QED
  BY <1>1, <1>2, <1>5, <1>6, <1>7, <1>8, DropPlaced

LEMMA PostPlaced ==
    ASSUME IInv, Placed, NEW b \in posts, ReceivePost(b) \/ LosePost(b)
    PROVE  Placed'
<1>1. UNCHANGED <<noted, pending, blobs>> /\ posts' = posts \ {b}
  BY DEF ReceivePost, LosePost
<1>2. UNCHANGED <<Collecting, Sealed>> /\ OwnBlobs'
  BY <1>1 DEF Collecting, Sealed, BlobPackets, Placed, OwnBlobs
<1>3. \A c \in posts' : c \cap b = {}
  BY <1>1 DEF Placed, OnePlace
<1>4. Posted' \subseteq Posted /\ Posted \ Posted' = b
  BY <1>1, <1>3 DEF Posted
<1>5. \A c \in Batches' : OnePort(c)
  <2>1. Batches' \subseteq Batches
    BY <1>1 DEF Batches
  <2> QED
    BY <2>1 DEF Placed
<1>6. \A m \in Nodes : Disjoint(blobs'[m])
  BY <1>1 DEF Placed, OnePlace
<1>7. PICK X, Y : X \cup Y = b /\ X \cap Y = {} /\ tun' = tun \cup X /\ gone' = gone \cup Y
  <2>1. CASE ReceivePost(b)
    <3>1. b \cup {} = b /\ b \cap {} = {} /\ tun' = tun \cup b /\ gone' = gone \cup {}
      BY <2>1 DEF ReceivePost
    <3> QED
      BY <3>1
  <2>2. CASE LosePost(b)
    <3>1. {} \cup b = b /\ {} \cap b = {} /\ tun' = tun \cup {} /\ gone' = gone \cup b
      BY <2>2 DEF LosePost
    <3> QED
      BY <3>1
  <2> QED
    BY <2>1, <2>2
<1>8. X \cup Y = (Collecting \ Collecting') \cup (Sealed \ Sealed') \cup (Posted \ Posted')
  BY <1>2, <1>4, <1>7
<1> QED
  BY <1>1, <1>2, <1>4, <1>5, <1>6, <1>7, <1>8, DropPlaced

LEMMA RestartPlaced ==
    ASSUME IInv, Placed, NEW n \in Nodes, Restart(n)
    PROVE  Placed'
<1> DEFINE Y == pending[n] \cup BlobPackets(n) \cup UNION PostsOf(n)
<1>1. /\ gone' = gone \cup Y /\ posts' = posts \ PostsOf(n)
      /\ pending' = [pending EXCEPT ![n] = {}] /\ blobs' = [blobs EXCEPT ![n] = <<>>]
      /\ UNCHANGED <<noted, tun>>
  BY DEF Restart
<1>2. TypeOK /\ OwnPackets
  BY DEF IInv
<1>3. pending'[n] = {} /\ \A m \in Nodes \ {n} : pending'[m] = pending[m]
  BY <1>1, <1>2 DEF TypeOK
<1>4. Collecting' \subseteq Collecting /\ Collecting \ Collecting' = pending[n]
  <2>1. \A m \in Nodes \ {n} : pending[m] \cap pending[n] = {}
    BY <1>2, PendingPlaces
  <2> QED
    BY <1>3, <2>1 DEF Collecting
<1>5. /\ Sealed' \subseteq Sealed /\ Sealed \ Sealed' = BlobPackets(n)
      /\ \A m \in Nodes : Disjoint(blobs'[m])
      /\ OwnBlobs'
      /\ \A m \in Nodes : \A b \in Entries(blobs'[m]) : OnePort(b)
  <2>1. Disjoint(<<>>) /\ Entries(<<>>) \subseteq Entries(blobs[n]) /\ UNION Entries(<<>>) = {}
    BY NoEntry
  <2> QED
    BY <1>1, <2>1, QueueDrops
<1>6. Posted' \subseteq Posted /\ Posted \ Posted' = UNION PostsOf(n)
  <2>1. \A b, c \in posts : b # c => b \cap c = {}
    BY DEF Placed, OnePlace
  <2>2. PostsOf(n) \subseteq posts
    BY DEF PostsOf
  <2> QED
    BY <1>1, <2>1, <2>2 DEF Posted
<1>7. \A b \in Batches' : OnePort(b)
  <2>1. \A m \in Nodes : OnePort(pending'[m])
    <3>1. OnePort({})
      BY DEF OnePort, HasPort, Ports
    <3> QED
      BY <1>3, <3>1 DEF Placed, Batches
  <2>2. \A b \in posts' : OnePort(b)
    BY <1>1 DEF Placed, Batches
  <2> QED
    BY <1>5, <2>1, <2>2, BatchesNext
<1>8. {} \cup Y = (Collecting \ Collecting') \cup (Sealed \ Sealed') \cup (Posted \ Posted')
  BY <1>4, <1>5, <1>6
<1> HIDE DEF Y
<1>9. {} \cap Y = {} /\ tun' = tun \cup {}
  BY <1>1
<1> QED
  BY <1>1, <1>4, <1>5, <1>6, <1>7, <1>8, <1>9, DropPlaced

LEMMA NextPlaced == ASSUME IInv, Placed, [Next]_vars PROVE Placed'
<1>1. ASSUME NEW n \in Nodes, OfferStep(n) \/ AcceptStep(n) \/ Inbound(n)
                              \/ ListenUp(n) \/ ListenIdle(n)
                              \/ PipeStarts(n) \/ PipeOpens(n)
      PROVE  UNCHANGED traffic
  BY <1>1 DEF OfferStep, PostOffer, StopOffer, AcceptStep, PostAccept, StopAccept,
              Inbound, AdoptOffer, DeliverAccept, ListenUp, ListenIdle, PipeStarts, PipeOpens
<1>2. ASSUME UNCHANGED vars PROVE UNCHANGED traffic
  BY <1>2 DEF vars
<1> QED
  BY <1>1, <1>2, TrafficStutters, NotePlaced, PipePlaced, PostPlaced, RestartPlaced
     DEF Next, OccupyStep

-----------------------------------------------------------------------------
\* Being in one of five places, and there in one batch, is having one holder.
LEMMA PlacedKept == IInv /\ Placed => PacketsKept
<1> SUFFICES ASSUME TypeOK, OwnPackets, Placed PROVE PacketsKept
  BY DEF IInv
<1>1. Apart(Collecting, Sealed, Posted, tun, gone)
  BY DEF Placed, OnePlace
<1>2. ASSUME NEW p \in Known
      PROVE  Holders(p) = 1
  <2> DEFINE B == {b \in Batches : p \in b}
             E == {s \in {"tun", "gone"} : p \in IF s = "tun" THEN tun ELSE gone}
  <2>1. \A b \in Batches : b \subseteq Collecting \cup Sealed \cup Posted
    BY DEF Batches, Collecting, Sealed, Posted, BlobPackets
  <2>2. CASE p \in Collecting \cup Sealed \cup Posted
    <3>1. E = {}
      BY <1>1, <2>2 DEF Apart
    <3>2. \E b \in Batches : p \in b
      BY <2>2 DEF Batches, Collecting, Sealed, Posted, BlobPackets
    <3>3. ASSUME NEW b \in Batches, NEW c \in Batches, p \in b, p \in c PROVE b = c
      <4> DEFINE InPending(d) == \E n \in Nodes : d = pending[n]
                 InBlob(d) == \E n \in Nodes : \E i \in DOMAIN blobs[n] : d = blobs[n][i]
      <4>1. \A d \in Batches : InPending(d) \/ d \in posts \/ InBlob(d)
        BY DEF Batches
      <4>2. \A d \in {b, c} : /\ InPending(d) => p \in Collecting
                              /\ d \in posts => p \in Posted
                              /\ InBlob(d) => p \in Sealed
        BY <3>3 DEF Collecting, Sealed, Posted, BlobPackets
      <4>3. CASE InPending(b) /\ InPending(c)
        BY <3>3, <4>3 DEF OwnPackets
      <4>4. CASE b \in posts /\ c \in posts
        BY <3>3, <4>4 DEF Placed, OnePlace
      <4>5. CASE InBlob(b) /\ InBlob(c)
        <5>1. PICK n \in Nodes : \E i \in DOMAIN blobs[n] : b = blobs[n][i]
          BY <4>5
        <5>2. PICK m \in Nodes : \E i \in DOMAIN blobs[m] : c = blobs[m][i]
          BY <4>5
        <5>3. p \in BlobPackets(n) /\ p \in BlobPackets(m)
          BY <3>3, <5>1, <5>2 DEF BlobPackets
        <5>4. n = m
          BY <5>3 DEF Placed, OwnBlobs
        <5> QED
          BY <3>3, <5>1, <5>2, <5>4 DEF Placed, OnePlace, Disjoint
      <4> HIDE DEF InPending, InBlob
      <4> QED
        BY <1>1, <4>1, <4>2, <4>3, <4>4, <4>5 DEF Apart
    <3>4. \E b : B = {b}
      BY <3>2, <3>3
    <3>5. Cardinality(B) = 1 /\ Cardinality(E) = 0
      BY <3>1, <3>4, FS_Singleton, FS_EmptySet
    <3> QED
      BY <3>5 DEF Holders
  <2>3. CASE p \notin Collecting \cup Sealed \cup Posted
    <3>1. B = {}
      BY <2>1, <2>3
    <3>2. E = {"tun"} \/ E = {"gone"}
      BY <1>1, <2>3 DEF Apart, Known
    <3>3. Cardinality(B) = 0 /\ Cardinality(E) = 1
      BY <3>1, <3>2, FS_Singleton, FS_EmptySet
    <3> QED
      BY <3>3 DEF Holders
  <2> QED
    BY <2>2, <2>3
<1>3. Known \subseteq Packets
  BY DEF TypeOK, Known, Collecting, Sealed, Posted, BlobPackets
<1> QED
  BY <1>2, <1>3 DEF PacketsKept, Placed, Numbered, OnePort

(* However many packets, ports and restarts: a packet noted once is in one  *)
(* place or known to be lost, and no batch mixes ports                      *)
(* (note_overlay_packet, flush_pending_overlay).                            *)
THEOREM PacketsAccounted == Spec => []PacketsKept
<1>1. IInv /\ Placed /\ [Next]_vars => Placed'
  BY NextPlaced
<1>2. Spec => []Placed
  BY <1>1, InitPlaced, Invariance, PTL DEF Spec
<1> QED
  BY <1>2, PlacedKept, Invariance, PTL
=============================================================================

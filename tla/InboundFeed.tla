----------------------------- MODULE InboundFeed -----------------------------
(***************************************************************************)
(* What comes in for the lines of one daemon: each line's temporary listen *)
(* (listen.rs OwnedListenSession, pump_sse_armors_owned_session), the      *)
(* return side of its occupied pipe (pipe.rs run_occupied_pipe), the one   *)
(* queue they all feed, and the loop that applies it (linux.rs             *)
(* stream_loop, proxy_loop; client.rs apply_inbound_chunk).                *)
(*                                                                         *)
(* Blob n of line l is the n-th one its peer seals for it; whether it is a *)
(* frame, a reject or does not open under the line's key is kind[l][n].    *)
(* Peers and mailboxes are external: they hand over the blobs in order.    *)
(* The listen's reconnects are in SiPool, pings and what becomes of a      *)
(* line's bytes behind its stream queue in ClientLine and ProxyLine.       *)
(***************************************************************************)
EXTENDS Naturals, Sequences

CONSTANTS
  Lines,      \* lines of this daemon, each with an id of its own
  ProxyLines, \* those of a proxy port
  Warm,       \* proxy lines that take a pre-warmed listen
  Kinds,      \* Kinds[l]: kinds of blobs the peer of l sends
  PipeLines,  \* lines whose peers also send back over the occupied pipe
  MaxBlobs,   \* bound: blobs of one line
  FeedCap,    \* LISTEN_QUEUE (512)
  StreamCap   \* capacity of a line's stream queue (64)

AllKinds == {"frame", "reject", "bad"}
Route == {"sse", "pipe"}
Routes(l) == IF l \in PipeLines THEN Route ELSE {"sse"}

ASSUME FeedAssumption ==
  /\ ProxyLines \subseteq Lines /\ Warm \subseteq ProxyLines
  /\ Kinds \in [Lines -> SUBSET AllKinds] /\ PipeLines \subseteq Lines
  /\ MaxBlobs \in Nat /\ FeedCap \in Nat \ {0} /\ StreamCap \in Nat \ {0}

VARIABLES
  kind,     \* kind[l]: the kinds of the blobs sent so far
  route,    \* route[l]: and the ways they took
  net,      \* net[l]: blobs on their way on the listen's stream
  back,     \* back[l]: blobs on their way on the occupied pipe
  owner,    \* owner[l]: the listen in the registry: "up", "cancelled", "none"
  bound,    \* bound[l]: the session id of the listen is the line's handle
  answered, \* answered[l]: the peer knows the listen
  held,     \* held[l]: the chunk the pump waits to send, at most one
  feed,     \* the inbound queue
  session,  \* session[l]: the duplex map: "live", "rejected", "gone"
  stream,   \* stream[l]: the sender in local_streams or proxy_receivers
  queue,    \* queue[l]: blobs behind it
  got,      \* got[l]: blobs the line's own task took
  refused,  \* refused[l]: blobs lost, and why
  ending    \* ending[l]: steps of its end the line's task has done

listenVars == <<owner, bound, answered, held>>
lineVars == <<session, stream, queue, got, ending>>
vars == <<kind, route, net, back, listenVars, feed, lineVars, refused>>

Blob == 1 .. MaxBlobs
Handle == {"own", "minted"}
Chunk == [line : Lines, via : Route, session : Handle, blob : Blob]
Reasons == {"owner", "mismatch", "unknown", "key", "no_stream", "full", "feed_full", "aborted"}

TypeOK ==
  /\ kind \in [Lines -> Seq(AllKinds)] /\ route \in [Lines -> Seq(Route)]
  /\ net \in [Lines -> Seq(Blob)] /\ back \in [Lines -> Seq(Blob)]
  /\ owner \in [Lines -> {"up", "cancelled", "none"}]
  /\ bound \in [Lines -> BOOLEAN] /\ answered \in [Lines -> BOOLEAN]
  /\ held \in [Lines -> Seq(Chunk)] /\ \A l \in Lines : Len(held[l]) <= 1
  /\ feed \in Seq(Chunk) /\ Len(feed) <= FeedCap
  /\ session \in [Lines -> {"live", "rejected", "gone"}]
  /\ stream \in [Lines -> BOOLEAN]
  /\ queue \in [Lines -> Seq(Blob)] /\ \A l \in Lines : Len(queue[l]) <= StreamCap
  /\ got \in [Lines -> Seq(Blob)]
  /\ refused \in [Lines -> SUBSET (Blob \X Reasons)]
  /\ ending \in [Lines -> 0 .. 4]

\* A client's listen and a cold proxy's are registered under the line's
\* handle; a pre-warmed one under the id minted with it.
Init ==
  /\ kind = [l \in Lines |-> <<>>] /\ route = [l \in Lines |-> <<>>]
  /\ net = [l \in Lines |-> <<>>] /\ back = [l \in Lines |-> <<>>]
  /\ owner = [l \in Lines |-> "up"]
  /\ bound = [l \in Lines |-> l \notin Warm]
  /\ answered = [l \in Lines |-> FALSE]
  /\ held = [l \in Lines |-> <<>>] /\ feed = <<>>
  /\ session = [l \in Lines |-> "live"]
  /\ stream = [l \in Lines |-> TRUE]
  /\ queue = [l \in Lines |-> <<>>] /\ got = [l \in Lines |-> <<>>]
  /\ refused = [l \in Lines |-> {}]
  /\ ending = [l \in Lines |-> 0]

Ended(l) == ending[l] > 0
Elements(s) == {s[i] : i \in DOMAIN s}
CurrentSession(l) == IF bound[l] THEN "own" ELSE "minted"

-----------------------------------------------------------------------------
(* The line is set up, and its peer sends *)

\* apply_duplex_offer's spawn_dynamic_accept_listen.
BindSession(l) ==
  /\ ~bound[l] /\ owner[l] = "up" /\ ~Ended(l)
  /\ bound' = [bound EXCEPT ![l] = TRUE]
  /\ UNCHANGED <<kind, route, net, back, owner, answered, held, feed, lineVars, refused>>

\* Mutant: the offer is answered without waiting for the binding.
MayAnswerUnbound(l) == ~answered[l] /\ ~Ended(l)

\* The handshake that answers is spawned behind the binding.
MayAnswer(l) == ~answered[l] /\ ~Ended(l) /\ bound[l]

\* The offer or the accept that names the listen goes out.
Answer(l) ==
  /\ MayAnswer(l)
  /\ answered' = [answered EXCEPT ![l] = TRUE]
  /\ UNCHANGED <<kind, route, net, back, owner, bound, held, feed, lineVars, refused>>

\* What is sent when the listen or the pipe is gone is lost outside.
PeerSends(l) ==
  /\ answered[l] /\ Len(kind[l]) < MaxBlobs
  /\ \E k \in Kinds[l], r \in Routes(l) :
       LET n == Len(kind[l]) + 1
       IN /\ kind' = [kind EXCEPT ![l] = Append(@, k)]
          /\ route' = [route EXCEPT ![l] = Append(@, r)]
          /\ \/ /\ r = "sse" /\ owner[l] # "none"
                /\ net' = [net EXCEPT ![l] = Append(@, n)] /\ UNCHANGED back
             \/ /\ r = "pipe" /\ session[l] = "live"
                /\ back' = [back EXCEPT ![l] = Append(@, n)] /\ UNCHANGED net
  /\ UNCHANGED <<listenVars, feed, lineVars, refused>>

-----------------------------------------------------------------------------
(* Listens and pipes *)

\* pump_sse_armors_owned_session: the stamp is taken before the wait.
PumpReads(l) ==
  /\ owner[l] = "up" /\ held[l] = <<>> /\ net[l] # <<>>
  /\ held' = [held EXCEPT ![l] = <<[line |-> l, via |-> "sse", blob |-> Head(net[l]),
                                    session |-> CurrentSession(l)]>>]
  /\ net' = [net EXCEPT ![l] = Tail(@)]
  /\ UNCHANGED <<kind, route, back, owner, bound, answered, feed, lineVars, refused>>

\* Mutant: a full queue drops the chunk instead of holding it.
PumpSendsOrDrops(l) ==
  /\ held[l] # <<>>
  /\ feed' = IF Len(feed) < FeedCap THEN Append(feed, Head(held[l])) ELSE feed
  /\ refused' = IF Len(feed) < FeedCap THEN refused
                ELSE [refused EXCEPT ![l] = @ \cup {<<Head(held[l]).blob, "feed_full">>}]
  /\ held' = [held EXCEPT ![l] = <<>>]
  /\ UNCHANGED <<kind, route, net, back, owner, bound, answered, lineVars>>

\* send().await: a full queue holds the listen back.
PumpSends(l) ==
  /\ held[l] # <<>> /\ Len(feed) < FeedCap
  /\ feed' = Append(feed, Head(held[l]))
  /\ held' = [held EXCEPT ![l] = <<>>]
  /\ UNCHANGED <<kind, route, net, back, owner, bound, answered, lineVars, refused>>

\* run_occupied_pipe: try_send, under the session id in the owner's place.
PipeReads(l) ==
  /\ back[l] # <<>>
  /\ back' = [back EXCEPT ![l] = Tail(@)]
  /\ IF Len(feed) < FeedCap
       THEN /\ feed' = Append(feed, [line |-> l, via |-> "pipe", session |-> "own",
                                     blob |-> Head(back[l])])
            /\ UNCHANGED refused
       ELSE /\ refused' = [refused EXCEPT ![l] = @ \cup {<<Head(back[l]), "feed_full">>}]
            /\ UNCHANGED feed
  /\ UNCHANGED <<kind, route, net, listenVars, lineVars>>

-----------------------------------------------------------------------------
(* apply_inbound_chunk *)

\* The registry holds listens under their wallets, and no session id.
Registered(c) == c.via = "sse" /\ owner[c.line] # "none"

\* Mutant: a rejected session is looked up by its port, which lines share.
RejectsOfPort(c, l) == TRUE

\* mark_duplex_rejected: by the id of the session.
Rejects(c, l) == l = c.line

Rejected(c) ==
  [l \in Lines |-> IF Rejects(c, l) /\ session[l] # "gone"
                     THEN "rejected" ELSE session[l]]

KindOf(c) == kind[c.line][c.blob]

\* The checks of apply_inbound_chunk, apply_duplex_aes_blob_for_session and
\* apply_duplex_frame, in their order; "none" is a blob that passes.  "full" is
\* try_send on a full queue, or on one whose task has returned.
Reason(c) ==
  CASE ~Registered(c) -> "owner"
    [] Registered(c) /\ CurrentSession(c.line) # c.session -> "mismatch"
    [] OTHER ->
         IF c.session = "minted" \/ session[c.line] = "gone" THEN "unknown"
         ELSE IF KindOf(c) = "bad" THEN "key"
         ELSE IF KindOf(c) = "reject" THEN "none"
         ELSE IF ~stream[c.line] THEN "no_stream"
         ELSE IF Len(queue[c.line]) = StreamCap \/ Ended(c.line) THEN "full"
         ELSE "none"

\* A mismatch cancels the listen; a blob that does not open rejects the
\* session, as a reject does.
ApplyChunk(c) ==
  LET why == Reason(c)
      rejecting == why = "key" \/ (why = "none" /\ KindOf(c) = "reject")
  IN /\ owner' = IF why = "mismatch" THEN [owner EXCEPT ![c.line] = "cancelled"] ELSE owner
     /\ session' = IF rejecting THEN Rejected(c) ELSE session
     /\ queue' = IF why = "none" /\ KindOf(c) = "frame"
                   THEN [queue EXCEPT ![c.line] = Append(@, c.blob)] ELSE queue
     /\ refused' = IF why = "none" THEN refused
                   ELSE [refused EXCEPT ![c.line] = @ \cup {<<c.blob, why>>}]

\* Mutant: a frame waits for room in its line's queue.
MayApplyRoom(c) == Reason(c) = "full" => Ended(c.line)

\* Nothing in apply_inbound_chunk waits.
MayApply(c) == TRUE

Apply ==
  /\ feed # <<>> /\ MayApply(Head(feed))
  /\ feed' = Tail(feed)
  /\ ApplyChunk(Head(feed))
  /\ UNCHANGED <<kind, route, net, back, bound, answered, held, stream, got, ending>>

-----------------------------------------------------------------------------
(* The line's own task *)

Takes(l) ==
  /\ queue[l] # <<>> /\ ~Ended(l)
  /\ got' = [got EXCEPT ![l] = Append(@, Head(queue[l]))]
  /\ queue' = [queue EXCEPT ![l] = Tail(@)]
  /\ UNCHANGED <<kind, route, net, back, listenVars, feed, session, stream, ending, refused>>

\* Socket, deadline or upstream: the task begins to end.
Ends(l) ==
  /\ ~Ended(l)
  /\ ending' = [ending EXCEPT ![l] = 1]
  /\ queue' = [queue EXCEPT ![l] = <<>>]
  /\ UNCHANGED <<kind, route, net, back, listenVars, feed, session, stream, got, refused>>

\* A client line goes stream, session, listen; a proxy line's listen goes first.
Step(l) == (IF l \in ProxyLines THEN <<"listen", "stream", "session">>
            ELSE <<"stream", "session", "listen">>)[ending[l]]

Removes(l) ==
  /\ ending[l] \in 1 .. 3
  /\ ending' = [ending EXCEPT ![l] = @ + 1]
  /\ stream' = IF Step(l) = "stream" THEN [stream EXCEPT ![l] = FALSE] ELSE stream
  /\ session' = IF Step(l) = "session" THEN [session EXCEPT ![l] = "gone"] ELSE session
  /\ IF Step(l) = "listen"
       THEN /\ owner' = [owner EXCEPT ![l] = "none"]
            /\ refused' = [refused EXCEPT ![l] = @ \cup
                 (Elements(net[l]) \cup {c.blob : c \in Elements(held[l])}) \X {"aborted"}]
            /\ net' = [net EXCEPT ![l] = <<>>] /\ held' = [held EXCEPT ![l] = <<>>]
       ELSE UNCHANGED <<owner, refused, net, held>>
  /\ UNCHANGED <<kind, route, back, bound, answered, feed, queue, got>>

-----------------------------------------------------------------------------
Next ==
  \/ Apply
  \/ \E l \in Lines :
       \/ BindSession(l) \/ Answer(l) \/ PeerSends(l)
       \/ PumpReads(l) \/ PumpSends(l) \/ PipeReads(l)
       \/ Takes(l) \/ Ends(l) \/ Removes(l)

Spec == Init /\ [][Next]_vars

\* The loop, the pumps and the end of a task run, and whoever waits for the
\* queue is let in; applications and upstreams owe nothing.
Fairness ==
  /\ WF_vars(Apply)
  /\ WF_vars(\E l \in Lines : PumpSends(l))
  /\ \A l \in Lines : WF_vars(PumpReads(l)) /\ WF_vars(Removes(l))

-----------------------------------------------------------------------------
(* Properties *)

(* A listen is bound to its line's handle before any blob sealed for the    *)
(* line can be stamped: no honest peer ever makes the daemon cancel it for  *)
(* a mismatch, or finds its blobs unknown before the line ends.             *)
(* (spawn_dynamic_accept_listen; client.rs:953)                             *)
NeverMismatched ==
  \A l \in Lines :
    /\ owner[l] # "cancelled"
    /\ \A n \in Blob : /\ <<n, "mismatch">> \notin refused[l]
                       /\ <<n, "unknown">> \in refused[l] => Ended(l)

(* A session is rejected by blobs of its own line only.                     *)
(* (mark_duplex_rejected; README.md:85: "Other owner sessions continue      *)
(* unaffected")                                                             *)
OthersUnaffected ==
  \A l \in Lines : session[l] = "rejected" =>
     \E i \in DOMAIN kind[l] : kind[l][i] \in {"reject", "bad"}

Waiting(l) ==
  Elements(net[l]) \cup {c.blob : c \in Elements(held[l])}
    \cup {c.blob : c \in {d \in Elements(feed) : d.line = l}}

(* What comes by the listen reaches the line's task in order, and until the *)
(* task ends nothing is lost on the way but what does not open and what     *)
(* finds the line's own queue full.  (pump_sse_armors_owned_session)        *)
ListenLosesNothing ==
  \A l \in Lines :
    LET taken == got[l] \o queue[l]
    IN /\ \A i, j \in DOMAIN taken : i < j => taken[i] < taken[j]
       /\ ~Ended(l) => \A n \in DOMAIN kind[l] :
            (route[l][n] = "sse" /\ kind[l][n] = "frame") =>
               \/ n \in Waiting(l) \/ n \in Elements(taken)
               \/ <<n, "full">> \in refused[l]

(* Every blob that waits for the loop is handed on or refused, whichever    *)
(* other lines have stopped reading, were rejected or are ending: again and *)
(* again none waits.                                                        *)
EveryBlobSettles == []<>(\A l \in Lines : Waiting(l) = {})
=============================================================================

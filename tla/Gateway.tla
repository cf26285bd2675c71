------------------------------- MODULE Gateway -------------------------------
(***************************************************************************)
(* The web3 gateway (gateway.rs): one mailbox listen that is opened again  *)
(* entry after entry, the queue between it and the main loop, and one task *)
(* per request that looks up the requester's key, asks the loopback origin *)
(* and posts the answer through the entries.                               *)
(*                                                                         *)
(* A delivery is one armor read from the SSE; deliveries are numbered in   *)
(* the order of the stream.  A mailbox may deliver a request twice.        *)
(***************************************************************************)
EXTENDS Naturals, Sequences, FiniteSets, SequencesExt

CONSTANTS
  Requests,       \* requests, as model values
  Kinds,          \* what a request may be, records of Kind
  NumDeliveries,  \* at most so many deliveries
  ListenEntries,  \* number of [gateway].listen_entries
  PostEntries,    \* number of [gateway].post_entries
  QueueCap,       \* the channel's capacity (256)
  MaxBody,        \* [gateway].max_body_bytes
  FaultSets       \* which failures of the surroundings occur together

\* wellFormed: the armor decrypts, parses and passes validate_request but for
\* method and expiry; builds: its headers and body make a request; size: of
\* the origin's answer; endless: the origin never ends that answer.
Kind == [method : {"GET", "HEAD", "get", "POST"}, wellFormed : BOOLEAN,
         builds : BOOLEAN, size : Nat, endless : BOOLEAN]

\* key: the mailbox's route certificate expires.  open: a listen POST fails.
\* rpc, origin, post: a step of handle_request fails.  expiry: time passes.
FaultNames == {"key", "open", "rpc", "origin", "post", "expiry"}

GatewayAssumption ==
  /\ Kinds \subseteq Kind
  /\ NumDeliveries \in Nat /\ QueueCap \in Nat \ {0} /\ MaxBody \in Nat \ {0}
  /\ ListenEntries \in Nat \ {0} /\ PostEntries \in Nat \ {0}
  /\ FaultSets \subseteq SUBSET FaultNames

Deliveries == 1 .. NumDeliveries

VARIABLES
  faults,    \* the failures that occur
  kind,      \* what each request is
  expired,   \* requests whose expiresAt has passed
  routeKey,  \* whether the route certificate still has a usable key
  listen,    \* the listen loop: [pc, entry]
  exit,      \* "running", or the status the process ended with
  of,        \* the requests delivered, in order
  queue,     \* the channel: deliveries
  stage,     \* where each delivery is
  at,        \* the post entry its answer is tried at
  held,      \* how much of the origin's answer the task holds
  asked,     \* what the origin was asked: [delivery, method]
  replies,   \* answers the requester's mailbox took, per delivery
  unsure     \* of those, the ones the gateway was told had failed

vars == <<faults, kind, expired, routeKey, listen, exit, of, queue, stage, at, held,
          asked, replies, unsure>>
world   == <<faults, kind, expired, routeKey>>
stream  == <<listen, of>>
answers == <<at, held, asked, replies, unsure>>

Stage == {"mailbox", "sending", "queued", "resolving", "fetching", "reading",
          "posting", "answered", "failed", "aborted"}
InTask == {"resolving", "fetching", "reading", "posting"}

TypeOK ==
  /\ faults \in FaultSets
  /\ kind \in [Requests -> Kinds] /\ expired \subseteq Requests
  /\ routeKey \in BOOLEAN
  /\ listen \in [pc : {"preparing", "opening", "pumping", "sleeping", "ended"},
                entry : 1 .. ListenEntries]
  /\ exit \in {"running", "success", "failure"}
  /\ of \in Seq(Requests) /\ Len(of) <= NumDeliveries
  /\ queue \in Seq(Deliveries) /\ Len(queue) <= QueueCap
  /\ stage \in [Deliveries -> Stage]
  /\ at \in [Deliveries -> 1 .. PostEntries]
  /\ held \in [Deliveries -> Nat]
  /\ asked \subseteq [delivery : Deliveries, method : {"GET", "HEAD", "get", "POST"}]
  /\ replies \in [Deliveries -> Nat] /\ unsure \in [Deliveries -> Nat]

Init ==
  /\ faults \in FaultSets
  /\ kind \in [Requests -> Kinds] /\ expired = {} /\ routeKey = TRUE
  /\ listen = [pc |-> "preparing", entry |-> 1]
  /\ exit = "running"
  /\ of = <<>> /\ queue = <<>>
  /\ stage = [d \in Deliveries |-> "mailbox"]
  /\ at = [d \in Deliveries |-> 1]
  /\ held = [d \in Deliveries |-> 0]
  /\ asked = {}
  /\ replies = [d \in Deliveries |-> 0] /\ unsure = [d \in Deliveries |-> 0]

KindOf(d) == kind[of[d]]

-----------------------------------------------------------------------------
(* listen_loop *)

Goto(pc) == listen' = [listen EXCEPT !.pc = pc]

Prepare ==
  /\ listen.pc = "preparing" /\ routeKey
  /\ Goto("opening")
  /\ UNCHANGED <<world, of, exit, queue, stage, answers>>

\* prepare_listen_post finds no usable encryption key: the loop returns.
PrepareFails ==
  /\ listen.pc = "preparing" /\ ~routeKey
  /\ Goto("ended")
  /\ UNCHANGED <<world, of, exit, queue, stage, answers>>

OpenOk ==
  /\ listen.pc = "opening"
  /\ Goto("pumping")
  /\ UNCHANGED <<world, of, exit, queue, stage, answers>>

\* The next entry, or three seconds of sleep after the last.
After(l) == IF l.entry < ListenEntries
            THEN [pc |-> "preparing", entry |-> l.entry + 1]
            ELSE [l EXCEPT !.pc = "sleeping"]

OpenFails ==
  /\ listen.pc = "opening" /\ "open" \in faults
  /\ listen' = After(listen)
  /\ UNCHANGED <<world, of, exit, queue, stage, answers>>

Wake ==
  /\ listen.pc = "sleeping"
  /\ listen' = [pc |-> "preparing", entry |-> 1]
  /\ UNCHANGED <<world, of, exit, queue, stage, answers>>

Sending(d) == stage[d] = "sending"
PumpIdle == listen.pc = "pumping" /\ ~ \E d \in Deliveries : Sending(d)

\* The pump reads one armor of the stream.
Read(r) ==
  /\ PumpIdle /\ Len(of) < NumDeliveries
  /\ of' = Append(of, r)
  /\ stage' = [stage EXCEPT ![Len(of) + 1] = "sending"]
  /\ UNCHANGED <<world, listen, exit, queue, answers>>

Room == Len(queue) < QueueCap

\* It waits for room in the channel.
Enqueue(d) ==
  /\ Sending(d) /\ Room
  /\ queue' = Append(queue, d)
  /\ stage' = [stage EXCEPT ![d] = "queued"]
  /\ UNCHANGED <<world, stream, exit, answers>>

StreamEnds ==
  /\ PumpIdle
  /\ listen' = After(listen)
  /\ UNCHANGED <<world, of, exit, queue, stage, answers>>

-----------------------------------------------------------------------------
(* run: the main loop *)

\* Methods are compared in capitals.
Upper(m) == IF m = "get" THEN "GET" ELSE m
Allowed == {"GET", "HEAD"}

Validated(d) ==
  /\ KindOf(d).wellFormed
  /\ of[d] \notin expired
  /\ Upper(KindOf(d).method) \in Allowed

\* Mutant: the loop awaits handle_request instead of spawning it.
MayTakeSerially == ~ \E d \in Deliveries : stage[d] \in InTask

\* The loop takes the next armor at once: the tasks are not counted.
MayTake == TRUE

\* A task is spawned; it decrypts, parses and validates without a pause.
Take ==
  /\ exit = "running" /\ queue # <<>> /\ MayTake
  /\ LET d == Head(queue)
     IN stage' = [stage EXCEPT ![d] = IF Validated(d) THEN "resolving" ELSE "failed"]
  /\ queue' = Tail(queue)
  /\ UNCHANGED <<world, stream, exit, answers>>

\* Mutant: the loop stops when the listener does, whatever is queued.
NothingMoreGone == listen.pc = "ended"

\* recv() returns None: the sender is dropped and the channel is drained.
NothingMore == listen.pc = "ended" /\ queue = <<>>

\* run returns Ok(()); the tasks still running end with the process.
Exit ==
  /\ exit = "running" /\ NothingMore
  /\ exit' = "success"
  /\ stage' = [d \in Deliveries |->
                 IF stage[d] \in InTask THEN "aborted" ELSE stage[d]]
  /\ UNCHANGED <<world, stream, queue, answers>>

-----------------------------------------------------------------------------
(* handle_request *)

Moves(d, from, to) ==
  /\ stage[d] = from
  /\ stage' = [stage EXCEPT ![d] = to]
  /\ UNCHANGED <<world, stream, exit, queue>>

\* The requester's key comes back.  fetch_upstream builds the request; what
\* cannot be built ends the task before the origin is asked.
Resolve(d) ==
  /\ stage[d] = "resolving"
  /\ IF KindOf(d).builds
     THEN /\ Moves(d, "resolving", "fetching")
          /\ asked' = asked \cup {[delivery |-> d, method |-> KindOf(d).method]}
     ELSE Moves(d, "resolving", "failed") /\ UNCHANGED asked
  /\ UNCHANGED <<at, held, replies, unsure>>

\* No answer, no result, or no registered key.
ResolveFails(d) ==
  /\ "rpc" \in faults
  /\ Moves(d, "resolving", "failed")
  /\ UNCHANGED answers

\* The answer's headers arrive within request_timeout_seconds.
Headers(d) ==
  /\ Moves(d, "fetching", "reading")
  /\ UNCHANGED answers

\* The request fails or times out.
FetchFails(d) ==
  /\ "origin" \in faults
  /\ Moves(d, "fetching", "failed")
  /\ UNCHANGED answers

\* bytes() gathers the whole body; no time limit is around it.
ReadBody(d) ==
  /\ stage[d] = "reading" /\ held[d] < KindOf(d).size
  /\ held' = [held EXCEPT ![d] = @ + 1]
  /\ UNCHANGED <<world, stream, exit, queue, stage, at, asked, replies, unsure>>

Fits(d) == held[d] <= MaxBody

BodyEnds(d) ==
  /\ stage[d] = "reading" /\ held[d] = KindOf(d).size /\ ~KindOf(d).endless
  /\ Moves(d, "reading", IF Fits(d) THEN "posting" ELSE "failed")
  /\ UNCHANGED answers

\* The body breaks off, or the requester's key is of no use.
BodyFails(d) ==
  /\ "origin" \in faults
  /\ Moves(d, "reading", "failed")
  /\ UNCHANGED answers

\* Mutant: every entry is tried, whatever the first answers.
PostToAll(d) ==
  /\ stage[d] = "posting"
  /\ IF at[d] < PostEntries
     THEN at' = [at EXCEPT ![d] = @ + 1] /\ UNCHANGED stage
     ELSE stage' = [stage EXCEPT ![d] = "answered"] /\ UNCHANGED at
  /\ replies' = [replies EXCEPT ![d] = @ + 1]
  /\ UNCHANGED <<world, stream, exit, queue, held, asked, unsure>>

(* send_via_entries: 2xx ends the walk, an error leads to the next entry, a *)
(* timeout gives up.  An entry that took the answer may be heard to fail.   *)
Post(d) ==
  /\ Moves(d, "posting", "answered")
  /\ replies' = [replies EXCEPT ![d] = @ + 1]
  /\ UNCHANGED <<at, held, asked, unsure>>

PostFails(d, took, timeout) ==
  /\ stage[d] = "posting" /\ "post" \in faults
  /\ IF timeout \/ at[d] = PostEntries
     THEN stage' = [stage EXCEPT ![d] = "failed"] /\ UNCHANGED at
     ELSE at' = [at EXCEPT ![d] = @ + 1] /\ UNCHANGED stage
  /\ LET n == IF took THEN 1 ELSE 0
     IN /\ replies' = [replies EXCEPT ![d] = @ + n]
        /\ unsure' = [unsure EXCEPT ![d] = @ + n]
  /\ UNCHANGED <<world, stream, exit, queue, held, asked>>

-----------------------------------------------------------------------------
(* The surroundings *)

Expire(r) ==
  /\ "expiry" \in faults /\ r \notin expired
  /\ expired' = expired \cup {r}
  /\ UNCHANGED <<faults, kind, routeKey, stream, exit, queue, stage, answers>>

RouteKeyExpires ==
  /\ "key" \in faults /\ routeKey
  /\ routeKey' = FALSE
  /\ UNCHANGED <<faults, kind, expired, stream, exit, queue, stage, answers>>

Listen == Prepare \/ PrepareFails \/ OpenOk \/ OpenFails \/ Wake \/ StreamEnds
Main == Take \/ Exit
Task(d) ==
  \/ Resolve(d) \/ ResolveFails(d) \/ Headers(d) \/ FetchFails(d)
  \/ ReadBody(d) \/ BodyEnds(d) \/ BodyFails(d) \/ Post(d)
  \/ \E took, timeout \in BOOLEAN : PostFails(d, took, timeout)

Next ==
  \/ Listen \/ Main
  \/ \E r \in Requests : Read(r) \/ Expire(r)
  \/ \E d \in Deliveries : Enqueue(d) \/ (exit = "running" /\ Task(d))
  \/ RouteKeyExpires

Spec == Init /\ [][Next]_vars

(* The gateway's own steps are taken; the RPC, the origin's headers and the *)
(* entries answer, a listen POST succeeds now and then.  Nothing makes an   *)
(* endless body end.                                                        *)
Fairness ==
  /\ WF_vars(Prepare \/ PrepareFails \/ Wake) /\ SF_vars(OpenOk)
  /\ WF_vars(Main)
  /\ \A d \in Deliveries : WF_vars(Enqueue(d)) /\ WF_vars(exit = "running" /\ Task(d))

-----------------------------------------------------------------------------
(* Properties *)

(* No request is lost between the stream and its task: every delivery is in *)
(* exactly one place, and the process ends with none unread.  (run, its     *)
(* channel and the listener that is dropped before it)                      *)
DeliveriesAccounted ==
  /\ \A d \in Deliveries :
       /\ (stage[d] = "mailbox") <=> (d > Len(of))
       /\ (stage[d] = "queued") <=> (d \in Range(queue))
  /\ IsInjective(queue)
  /\ exit # "running" => \A d \in Deliveries : stage[d] \notin {"sending", "queued"} \cup InTask

(* Whoever is answered sent a request the gateway could check and build,    *)
(* the origin was asked about it, and the answer is all of the origin's,    *)
(* within the limit.  (handle_request, fetch_upstream)                      *)
AnswersAreAsked ==
  \A d \in Deliveries : replies[d] > 0 =>
    /\ KindOf(d).wellFormed /\ KindOf(d).builds
    /\ \E a \in asked : a.delivery = d
    /\ held[d] = KindOf(d).size /\ held[d] <= MaxBody

(* Of the answers a requester gets to one delivery, every one but one went  *)
(* to an entry that took it and was then heard to fail (unsure), so that    *)
(* the walk over the entries went on or gave up; the one left is the answer *)
(* an entry confirmed, which ends the walk.  (send_via_entries)             *)
RepliesExplained ==
  \A d \in Deliveries : replies[d] <= unsure[d] + (IF stage[d] = "answered" THEN 1 ELSE 0)

MustAnswer(d) ==
  /\ stage[d] # "mailbox"
  /\ KindOf(d).wellFormed /\ KindOf(d).builds /\ ~KindOf(d).endless
  /\ Upper(KindOf(d).method) \in Allowed
  /\ KindOf(d).size <= MaxBody

AllServed ==
  /\ listen.pc = "pumping"
  /\ \A d \in Deliveries : MustAnswer(d) => stage[d] = "answered"

(* Whichever listen POSTs fail, the gateway listens again and again, and    *)
(* every permitted request that is delivered gets its answer, however long  *)
(* the origin takes over another one.  (listen_loop; run spawns a task for  *)
(* each request)                                                            *)
OthersAnswered == []<>(faults \subseteq {"open"} => AllServed)
=============================================================================

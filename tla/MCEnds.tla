-------------------------------- MODULE MCEnds --------------------------------
(***************************************************************************)
(* The two ends of the network at which a daemon serves others, in models  *)
(* that share no state: a client's pre-warmed identities, which its local  *)
(* lines take (ReadyPool), and the gateway (Gateway).  The variable served *)
(* says which one a behaviour is of; the other stands still.               *)
(***************************************************************************)
EXTENDS ReadyPool

CONSTANTS
  \* of Gateway
  Requests, Kinds, NumDeliveries, ListenEntries, PostEntries, QueueCap, MaxBody, FaultSets

VARIABLES
  served,
  faults, kind, expired, routeKey, listen, exit, of, queue, stage, at, held,
  asked, replies, unsure

gatewayVars == <<faults, kind, expired, routeKey, listen, exit, of, queue, stage,
                 at, held, asked, replies, unsure>>

-----------------------------------------------------------------------------
(* Requests *)

Req(method, wellFormed, builds, size, endless) ==
  [method |-> method, wellFormed |-> wellFormed, builds |-> builds,
   size |-> size, endless |-> endless]

Plain == Req("GET", TRUE, TRUE, 1, FALSE)

\* One of each thing that can be wrong with a request.
Faulty ==
  {Req("POST", TRUE, TRUE, 0, FALSE), Req("HEAD", FALSE, TRUE, 0, FALSE),
   Req("GET", TRUE, FALSE, 0, FALSE), Req("GET", TRUE, TRUE, 2, FALSE)}

\* An answer that never ends.
Endless == Req("GET", TRUE, TRUE, 1, TRUE)

\* Failing listen POSTs, and all other failures.
ListenFaults == {"open"}
OtherFaults == {"key", "rpc", "origin", "post", "expiry"}

\* The values of Kinds and FaultSets in the run.
MCKinds == {Plain, Endless} \cup Faulty
MCFaultSets == {ListenFaults, OtherFaults}

Gate == INSTANCE Gateway

ASSUME MCGateway == Gate!GatewayAssumption

-----------------------------------------------------------------------------
\* One request is plain.  The other one is plain too or never ends where only
\* listen POSTs fail, and has something wrong with it where the rest may fail.
GatewayInit ==
  /\ served = "gateway"
  /\ Gate!Init
  /\ \E r \in Requests : kind[r] = Plain
  /\ LET sorts == {kind[r] : r \in Requests}
     IN /\ faults = ListenFaults => sorts \subseteq {Plain, Endless}
        /\ faults = OtherFaults => Endless \notin sorts

\* A gateway that has ended, in the behaviours of the pool.
PoolInit ==
  /\ served = "pool"
  /\ faults = ListenFaults /\ kind = [r \in Requests |-> Plain]
  /\ expired = {} /\ routeKey = TRUE
  /\ listen = [pc |-> "ended", entry |-> 1] /\ exit = "success"
  /\ of = <<>> /\ queue = <<>>
  /\ stage = [d \in Gate!Deliveries |-> "mailbox"] /\ at = [d \in Gate!Deliveries |-> 1]
  /\ held = [d \in Gate!Deliveries |-> 0] /\ asked = {}
  /\ replies = [d \in Gate!Deliveries |-> 0] /\ unsure = [d \in Gate!Deliveries |-> 0]

MCInit == Init /\ (GatewayInit \/ PoolInit)

MCNext ==
  \/ served = "pool" /\ Next /\ UNCHANGED <<served, gatewayVars>>
  \/ served = "gateway" /\ Gate!Next /\ UNCHANGED <<served, vars>>

\* Of the part that stands still neither fairness asks for anything: an empty
\* pool's warmer waits for nothing, and a gateway that has ended has no step.
MCSpec ==
  /\ MCInit /\ [][MCNext]_<<served, vars, gatewayVars>>
  /\ Fairness /\ Gate!Fairness

-----------------------------------------------------------------------------
(* Properties *)

\* Every delivery is in one place until its task ends, and whoever is answered
\* sent a request that passed every check.
DeliveriesServed == Gate!TypeOK /\ Gate!DeliveriesAccounted /\ Gate!AnswersAreAsked

\* One delivery brings one confirmed answer at most, and besides it only those
\* of entries that took the answer and were then heard to fail.
RepliesExplained == Gate!RepliesExplained

\* Whichever listen POSTs fail, the gateway listens again and again, and every
\* permitted request that is delivered is answered, however long the origin
\* takes over another one.
OthersAnswered == []<>(served = "gateway" /\ faults = ListenFaults => Gate!AllServed)
=============================================================================

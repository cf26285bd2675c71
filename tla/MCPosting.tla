------------------------------ MODULE MCPosting ------------------------------
(***************************************************************************)
(* The two ways a packet is posted, in one model: [l0].si_pool_from_       *)
(* contract decides at the start of the daemon whether its POSTs (and its  *)
(* listens) go over the pool of storage nodes (SiPool) or over the entries *)
(* of the configuration (PostWorker).  The half that is not used stands    *)
(* still.                                                                  *)
(***************************************************************************)
EXTENDS PostWorker

CONSTANTS
  Nodes, Good,   \* entry URLs of the pool, and those that come to work
  Posts,         \* send_via_pool tasks
  Workers,       \* l0_listen workers
  Unnamed, None, PageSize, MaxTries, MaxRecords

VARIABLES
  pooled,        \* si_pool_from_contract
  registry, settled, nodes, fresh, cooldown, pc, order, entry, exclude, tries,
  listed, struck

poolVars == <<registry, settled, nodes, fresh, cooldown, pc, order, entry,
              exclude, tries, listed, struck>>

Pool == INSTANCE SiPool WITH Entries <- Nodes, Jobs <- Posts

ASSUME MCPoolNames == Pool!PoolNamesAssumption
ASSUME MCPoolBounds == Pool!PoolBoundsAssumption

\* What the entries of a pooled daemon would answer does not matter.
MCInit ==
  /\ Init /\ Pool!Init
  /\ pooled \in BOOLEAN
  /\ pooled => answers = <<>>
  /\ ~pooled => registry = <<>>

MCNext ==
  \/ ~pooled /\ Next /\ UNCHANGED <<pooled, poolVars>>
  \/ pooled /\ Pool!Next /\ UNCHANGED <<pooled, vars>>

MCSpec == MCInit /\ [][MCNext]_<<pooled, vars, poolVars>> /\ Fairness

-----------------------------------------------------------------------------
(* Properties *)

\* Every packet that was queued is posted and settled although others time
\* out and fail, and a control message gets through whenever an entry takes
\* it and none in front of that one times out.
PostsSettle == JobsEnd /\ ControlAccepted

\* The pool lists every record it read, and offers no caller an entry that
\* failed it before its cooldown is over, unless nothing else is left.
PoolServes == Pool!TypeOK /\ Pool!ListComplete /\ Pool!OneStrike

\* No failing refresh loses the list; and under the fairness of SiPool every
\* task over the pool ends, and a worker that lost its listen gets one again
\* once the RPC and a listed entry work.
PoolRecovers ==
  /\ Pool!PoolKept
  /\ pooled /\ Pool!Fairness => Pool!JobsEnd /\ Pool!Reconnects
=============================================================================

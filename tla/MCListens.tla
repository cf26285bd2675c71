------------------------------ MODULE MCListens ------------------------------
(***************************************************************************)
(* A listen in two models that share no state: how its stream is cut into  *)
(* frames (SseStream), and what becomes of the frames of all listens of a  *)
(* daemon (InboundFeed).  A behaviour is of one of them, the other stands  *)
(* still.                                                                  *)
(***************************************************************************)
EXTENDS InboundFeed

CONSTANT MaxWrites

VARIABLES cutting, coalesce, sent, wire, buf, out, ended

sseVars == <<coalesce, sent, wire, buf, out, ended>>

Sse == INSTANCE SseStream

ASSUME MCWrites == Sse!WritesAssumption

\* One line meets a reject, the other a blob that does not open.
LineKinds ==
  [l \in Lines |-> IF l \in ProxyLines THEN {"frame", "bad"} ELSE {"frame", "reject"}]

MCInit == Init /\ Sse!Init /\ cutting \in BOOLEAN

MCNext ==
  \/ cutting /\ Sse!Next /\ UNCHANGED <<cutting, vars>>
  \/ ~cutting /\ Next /\ UNCHANGED <<cutting, sseVars>>

MCSpec == MCInit /\ [][MCNext]_<<cutting, vars, sseVars>> /\ Fairness

-----------------------------------------------------------------------------
(* Properties *)

\* However the stream is cut into reads, whole frames are handed on in their
\* order; each is as soon as its last byte was read, if no read merges
\* writes; and what merged reads lose comes behind a keepalive comment.
FramesKept ==
  Sse!TypeOK /\ Sse!WholeFrames /\ Sse!EveryFrameInTime /\ Sse!LostToComments
=============================================================================

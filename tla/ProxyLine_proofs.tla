--------------------------- MODULE ProxyLine_proofs ---------------------------
(***************************************************************************)
(* Proofs about ProxyLine for any number of incarnations, generations and  *)
(* chunks: its type invariant and the three safety invariants of its run.  *)
(*                                                                         *)
(* TypeOK is not inductive: UpstreamChunk needs BacklogRead, which needs   *)
(* FreshOff.  OneUpstream needs FreshOff too, so that an allocation never  *)
(* overwrites a handshake task at work.  SessionHasOwner and               *)
(* InflightHasTask are inductive over TypeOK.                              *)
(***************************************************************************)
EXTENDS ProxyLine, TLAPS

\* An incarnation that has not been allocated has no handshake task.
FreshOff == \A i \in Inc : i > count => handshake[i] = "off"

\* Chunks wait in a backlog only after they were read, and none does before
\* the handshake task streams.
BacklogRead ==
  /\ \A s \in Source : backlog[s] <= read[s]
  /\ \A i \in Inc :
       handshake[i] \in {"off", "spawn", "listen", "dial"} => backlog[i] = 0

\* An incarnation has a chunk of its upstream, the responseChunk, exactly from
\* the moment its accepts may go out, and that chunk is never in the backlog.
Answered ==
  \A i \in Inc :
    /\ handshake[i] \in {"off", "spawn", "listen", "dial"} => read[i] = 0
    /\ handshake[i] \in {"pipe", "stream"} \/ i \in accepting => read[i] >= 1
    /\ read[i] >= 1 => backlog[i] < read[i]

\* Chunks of source s that are behind its forward task.
Passed(s) == read[s] - backlog[s]

\* The inductive invariant.
IInv ==
  /\ TypeOK
  /\ FreshOff
  /\ BacklogRead
  /\ Answered
  /\ OneUpstream
  /\ SessionHasOwner
  /\ InflightHasTask

-----------------------------------------------------------------------------
(* Types *)

\* The numbers the initial values and the updates use.
LEMMA Numbers ==
  /\ 0 \in Source
  /\ \A i \in Inc : i \in Source
  /\ 0 \in 0 .. MaxGen
  /\ 1 \in 0 .. MaxChunks /\ 0 \in 0 .. MaxChunks
BY BoundsAssumption DEF BoundsAssumption, Inc, Source

\* What the code does to a session leaves a session.
LEMMA SessionTypes ==
  /\ NoSession \in Session
  /\ NewSession \in Session
  /\ \A s \in Session :
       /\ ClearInflight(s) \in Session
       /\ [s EXCEPT !.pipe = 0] \in Session
       /\ [s EXCEPT !.inflight = TRUE] \in Session
       /\ [s EXCEPT !.returned = TRUE] \in Session
       /\ [s EXCEPT !.rejected = TRUE, !.pipe = 0, !.inflight = FALSE] \in Session
       /\ \A i \in Source : [s EXCEPT !.pipe = i] \in Session
       /\ s.gen < MaxGen => [s EXCEPT !.gen = @ + 1] \in Session
<1>1. NoSession \in Session /\ NewSession \in Session
  BY Numbers DEF Session, NoSession, NewSession
<1>2. ASSUME NEW s \in Session PROVE
        /\ ClearInflight(s) \in Session
        /\ [s EXCEPT !.pipe = 0] \in Session
        /\ [s EXCEPT !.inflight = TRUE] \in Session
        /\ [s EXCEPT !.returned = TRUE] \in Session
  BY Numbers DEF Session, ClearInflight
<1>3. ASSUME NEW s \in Session PROVE
        [s EXCEPT !.rejected = TRUE, !.pipe = 0, !.inflight = FALSE] \in Session
  BY Numbers DEF Session
<1>4. ASSUME NEW s \in Session, NEW i \in Source PROVE [s EXCEPT !.pipe = i] \in Session
  BY DEF Session
<1>5. ASSUME NEW s \in Session, s.gen < MaxGen PROVE [s EXCEPT !.gen = @ + 1] \in Session
  <2>1. s.gen + 1 \in 0 .. MaxGen
    BY <1>5, BoundsAssumption DEF Session, BoundsAssumption
  <2> QED
    BY <2>1 DEF Session
<1> QED
  BY <1>1, <1>2, <1>3, <1>4, <1>5

\* Every step keeps TypeOK.  Only UpstreamChunk needs BacklogRead.
LEMMA TypeNext ==
  ASSUME TypeOK, BacklogRead, [Next]_vars PROVE TypeOK'
<1> USE DEF TypeOK
<1>1. CASE UNCHANGED vars
  BY <1>1 DEF vars
<1>2. ASSUME NEW i \in Inc, AllocateLine(i) PROVE TypeOK'
  <2>1. count' \in 0 .. MaxInc
    BY <1>2 DEF AllocateLine, Inc
  <2> QED
    BY <1>2, <2>1, SessionTypes DEF AllocateLine, HandshakePc
<1>3. ASSUME NEW i \in Inc, SpawnHandshake(i) PROVE TypeOK'
  BY <1>3 DEF SpawnHandshake, InsertReceiver, HandshakePc
<1>4. CASE MarkRejected
  BY <1>4, SessionTypes DEF MarkRejected
<1>5. CASE ReturnAttached
  BY <1>5, SessionTypes DEF ReturnAttached
<1>6. ASSUME NEW i \in Inc, HandshakeListens(i) PROVE TypeOK'
  BY <1>6 DEF HandshakeListens, HandshakeGoes, HandshakePc
<1>7. ASSUME NEW i \in Inc, HandshakeNoListen(i) PROVE TypeOK'
  BY <1>7 DEF HandshakeNoListen, HandshakeGoes, HandshakePc
<1>8. ASSUME NEW i \in Inc, HandshakeDials(i) PROVE TypeOK'
  <2>1. line' \in Session
    BY <1>8, SessionTypes DEF HandshakeDials
  <2>2. occupy' \in [Inc -> [pc : OccupyPc, gen : 0 .. MaxGen, http : BOOLEAN]]
    BY <1>8 DEF HandshakeDials, OccupyPc
  <2>3. read' \in [Source -> 0 .. MaxChunks]
    BY <1>8, Numbers DEF HandshakeDials
  <2> QED
    BY <1>8, <2>1, <2>2, <2>3 DEF HandshakeDials, HandshakeGoes, HandshakePc
<1>9. ASSUME NEW i \in Inc, HandshakeGivesUp(i) PROVE TypeOK'
  BY <1>9 DEF HandshakeGivesUp, HandshakeGoes, HandshakePc
<1>10. ASSUME NEW i \in Inc, HandshakePipeUp(i) PROVE TypeOK'
  BY <1>10, Numbers DEF HandshakePipeUp, HandshakeGoes, HandshakePc
<1>11. ASSUME NEW s \in Source, UpstreamChunk(s) PROVE TypeOK'
  <2>1. read' \in [Source -> 0 .. MaxChunks]
    BY <1>11, BoundsAssumption DEF UpstreamChunk, BoundsAssumption
  <2>2. backlog' \in [Source -> 0 .. MaxChunks]
    <3>1. backlog[s] + 1 \in 0 .. MaxChunks
      BY <1>11, BoundsAssumption DEF UpstreamChunk, BacklogRead, BoundsAssumption
    <3> QED
      BY <1>11, <3>1 DEF UpstreamChunk
  <2> QED
    BY <1>11, <2>1, <2>2 DEF UpstreamChunk
<1>12. ASSUME NEW i \in Inc, HandshakeStreamEnds(i) PROVE TypeOK'
  BY <1>12 DEF HandshakeStreamEnds, HandshakeGoes, HandshakePc
<1>13. ASSUME NEW i \in Inc, HandshakeRetires(i) PROVE TypeOK'
  BY <1>13, SessionTypes DEF HandshakeRetires, HandshakeGoes, HandshakePc
<1>14. ASSUME NEW s \in Source, ForwardChunk(s) PROVE TypeOK'
  <2>1. backlog[s] - 1 \in 0 .. MaxChunks
    BY <1>14, BoundsAssumption DEF ForwardChunk, BoundsAssumption
  <2> QED
    BY <1>14, <2>1 DEF ForwardChunk
<1>15. ASSUME NEW s \in Source, ForwardBreaks(s) PROVE TypeOK'
  BY <1>15, Numbers DEF ForwardBreaks
<1>16. CASE DrainEnds
  BY <1>16 DEF DrainEnds
<1>17. CASE DrainRetires
  BY <1>17, SessionTypes DEF DrainRetires
<1>18. ASSUME NEW i \in Inc, StopAccept(i) PROVE TypeOK'
  BY <1>18 DEF StopAccept
<1>19. ASSUME NEW i \in Inc, OccupyStarts(i) PROVE TypeOK'
  <2>1. line' \in Session
    BY <1>19, SessionTypes DEF OccupyStarts
  <2>2. occupy' \in [Inc -> [pc : OccupyPc, gen : 0 .. MaxGen, http : BOOLEAN]]
    <3>1. CASE line.live /\ ~line.rejected
      <4>1. line.gen + 1 \in 0 .. MaxGen
        BY <1>19, <3>1, BoundsAssumption DEF OccupyStarts, Session, BoundsAssumption
      <4>2. [pc |-> "role", gen |-> line.gen + 1, http |-> FALSE]
               \in [pc : OccupyPc, gen : 0 .. MaxGen, http : BOOLEAN]
        BY <4>1 DEF OccupyPc
      <4>3. occupy' = [occupy EXCEPT ![i] =
                         [pc |-> "role", gen |-> line.gen + 1, http |-> FALSE]]
        BY <1>19, <3>1 DEF OccupyStarts
      <4> QED
        BY <4>2, <4>3
    <3>2. CASE ~(line.live /\ ~line.rejected)
      BY <1>19, <3>2 DEF OccupyStarts, OccupyGoes, OccupyPc
    <3> QED
      BY <3>1, <3>2
  <2> QED
    BY <1>19, <2>1, <2>2 DEF OccupyStarts
<1>20. ASSUME NEW i \in Inc, OccupyRefused(i) PROVE TypeOK'
  BY <1>20, SessionTypes DEF OccupyRefused, OccupyGoes, OccupyPc
<1>21. ASSUME NEW i \in Inc, DrainChecksRole(i) PROVE TypeOK'
  BY <1>21 DEF DrainChecksRole, OccupyGoes, AfterDrain, OccupyPc
<1>22. ASSUME NEW i \in Inc, DrainChecksReceiver(i) PROVE TypeOK'
  BY <1>22 DEF DrainChecksReceiver, OccupyGoes, AfterDrain, OccupyPc
<1>23. ASSUME NEW i \in Inc, DrainInserts(i) PROVE TypeOK'
  BY <1>23, Numbers DEF DrainInserts, OccupyGoes, AfterDrain, InsertReceiver, OccupyPc
<1>24. ASSUME NEW i \in Inc, OccupyOpens(i) PROVE TypeOK'
  <2>1. line' \in Session
    <3>1. [line EXCEPT !.pipe = i] \in Session
      BY SessionTypes, Numbers
    <3> QED
      BY <1>24, <3>1 DEF OccupyOpens
  <2>2. occupy' \in [Inc -> [pc : OccupyPc, gen : 0 .. MaxGen, http : BOOLEAN]]
    BY <1>24 DEF OccupyOpens, OccupyGoes, OccupyPc
  <2> QED
    BY <1>24, <2>1, <2>2 DEF OccupyOpens
<1>25. ASSUME NEW i \in Inc, OccupyCloses(i) PROVE TypeOK'
  <2>1. line' \in Session
    BY <1>25, SessionTypes DEF OccupyCloses
  <2>2. occupy' \in [Inc -> [pc : OccupyPc, gen : 0 .. MaxGen, http : BOOLEAN]]
    BY <1>25 DEF OccupyCloses, OccupyGoes, OccupyPc
  <2> QED
    BY <1>25, <2>1, <2>2 DEF OccupyCloses
<1>26. ASSUME NEW i \in Inc, OccupyFails(i) PROVE TypeOK'
  BY <1>26, SessionTypes DEF OccupyFails, OccupyGoes, OccupyPc
<1> QED
  BY <1>1, <1>2, <1>3, <1>4, <1>5, <1>6, <1>7, <1>8, <1>9, <1>10, <1>11,
     <1>12, <1>13, <1>14, <1>15, <1>16, <1>17, <1>18, <1>19, <1>20, <1>21,
     <1>22, <1>23, <1>24, <1>25, <1>26
     DEF Next, Task, HandshakeTask, OccupyTask

-----------------------------------------------------------------------------
(* The strengthening *)

\* An incarnation gets its handshake task with its number.
LEMMA FreshNext == ASSUME TypeOK, FreshOff, [Next]_vars PROVE FreshOff'
<1> USE DEF TypeOK, FreshOff, Inc
<1>1. ASSUME NEW i \in Inc, AllocateLine(i) PROVE FreshOff'
  BY <1>1 DEF AllocateLine
<1>2. ASSUME NEW i \in Inc, HandshakeTask(i) \/ HandshakeNoListen(i)
      PROVE  FreshOff'
  BY <1>2 DEF HandshakeTask, SpawnHandshake, HandshakeListens, HandshakeDials,
              HandshakeGivesUp, HandshakePipeUp, HandshakeStreamEnds,
              HandshakeRetires, HandshakeNoListen, HandshakeGoes
<1>3. CASE UNCHANGED <<count, handshake>>
  BY <1>3
<1> QED
  BY <1>1, <1>2, <1>3
     DEF Next, Task, OccupyTask, vars, StopAccept, UpstreamChunk, ForwardBreaks,
         ForwardChunk, DrainEnds, DrainRetires, MarkRejected, ReturnAttached,
         OccupyStarts, OccupyRefused, DrainChecksRole, DrainChecksReceiver, DrainInserts,
         OccupyOpens, OccupyCloses, OccupyFails

\* A chunk is counted as read when it joins the backlog.
LEMMA BacklogNext ==
  ASSUME TypeOK, FreshOff, BacklogRead, [Next]_vars PROVE BacklogRead'
<1> USE BoundsAssumption DEF TypeOK, BacklogRead, BoundsAssumption
<1>1. ASSUME NEW i \in Inc, AllocateLine(i) PROVE BacklogRead'
  <2>1. handshake[i] = "off"
    BY <1>1 DEF AllocateLine, FreshOff
  <2> QED
    BY <1>1, <2>1 DEF AllocateLine
<1>2. ASSUME NEW i \in Inc, HandshakeDials(i) PROVE BacklogRead'
  <2>1. backlog[i] = 0 /\ backlog' = backlog
    BY <1>2 DEF HandshakeDials
  <2>2. read' = [read EXCEPT ![i] = 1] /\ handshake' = [handshake EXCEPT ![i] = "pipe"]
    BY <1>2 DEF HandshakeDials, HandshakeGoes
  <2> QED
    BY <2>1, <2>2 DEF Source, Inc
<1>3. ASSUME NEW i \in Inc,
             \/ SpawnHandshake(i) \/ HandshakeListens(i) \/ HandshakeGivesUp(i)
             \/ HandshakePipeUp(i) \/ HandshakeStreamEnds(i)
             \/ HandshakeRetires(i) \/ HandshakeNoListen(i)
      PROVE  BacklogRead'
  BY <1>3 DEF SpawnHandshake, HandshakeListens, HandshakeGivesUp,
              HandshakePipeUp, HandshakeStreamEnds, HandshakeRetires,
              HandshakeNoListen, HandshakeGoes
<1>4. ASSUME NEW s \in Source, UpstreamChunk(s) PROVE BacklogRead'
  <2>1. /\ read' = [read EXCEPT ![s] = @ + 1]
        /\ backlog' = [backlog EXCEPT ![s] = @ + 1]
        /\ UNCHANGED handshake
    BY <1>4 DEF UpstreamChunk
  <2>2. \A r \in Source : backlog'[r] <= read'[r]
    BY <2>1 DEF Source
  <2>3. ASSUME NEW i \in Inc, handshake[i] \in {"off", "spawn", "listen", "dial"}
        PROVE  i # s
    BY <1>4, <2>3 DEF UpstreamChunk, Inc
  <2> QED
    BY <2>1, <2>2, <2>3
<1>5. ASSUME NEW s \in Source, ForwardChunk(s) \/ ForwardBreaks(s)
      PROVE  BacklogRead'
  <2>1. PICK n \in {0, backlog[s] - 1} :
          /\ backlog' = [backlog EXCEPT ![s] = n]
          /\ 0 <= n /\ n <= backlog[s]
          /\ UNCHANGED <<read, handshake>>
    BY <1>5 DEF ForwardChunk, ForwardBreaks
  <2> QED
    BY <2>1
<1>6. CASE UNCHANGED <<handshake, read, backlog>>
  BY <1>6
<1> QED
  BY <1>1, <1>2, <1>3, <1>4, <1>5, <1>6
     DEF Next, Task, HandshakeTask, OccupyTask, vars, StopAccept, DrainEnds,
         DrainRetires, MarkRejected, ReturnAttached, OccupyStarts, OccupyRefused,
         DrainChecksRole, DrainChecksReceiver, DrainInserts, OccupyOpens,
         OccupyCloses, OccupyFails

\* The dial that reads the responseChunk lets the accepts out.
LEMMA AnsweredNext ==
  ASSUME TypeOK, FreshOff, BacklogRead, Answered, [Next]_vars PROVE Answered'
<1> USE DEF TypeOK, Answered
<1>1. ASSUME NEW i \in Inc, AllocateLine(i) PROVE Answered'
  <2>1. handshake[i] = "off"
    BY <1>1 DEF AllocateLine, FreshOff, Inc
  <2> QED
    BY <1>1, <2>1 DEF AllocateLine
<1>2. ASSUME NEW i \in Inc, HandshakeDials(i) PROVE Answered'
  <2>1. /\ handshake' = [handshake EXCEPT ![i] = "pipe"]
        /\ read' = [read EXCEPT ![i] = 1] /\ backlog' = backlog
        /\ accepting' = accepting \cup {i}
        /\ read[i] = 0 /\ i \in Source
    BY <1>2, Numbers DEF HandshakeDials, HandshakeGoes
  <2>2. ASSUME NEW j \in Inc, j # i
        PROVE  /\ handshake'[j] = handshake[j] /\ read'[j] = read[j]
               /\ backlog'[j] = backlog[j]
               /\ j \in accepting' => j \in accepting
    BY <2>1, <2>2
  <2>3. handshake'[i] = "pipe" /\ read'[i] = 1 /\ backlog'[i] = 0
    BY <1>2, <2>1 DEF BacklogRead, HandshakeDials
  <2> QED
    BY <2>2, <2>3
<1>3. ASSUME NEW i \in Inc,
             \/ SpawnHandshake(i) \/ HandshakeListens(i) \/ HandshakeGivesUp(i)
             \/ HandshakePipeUp(i) \/ HandshakeStreamEnds(i)
             \/ HandshakeRetires(i) \/ HandshakeNoListen(i)
      PROVE  Answered'
  BY <1>3 DEF SpawnHandshake, HandshakeListens, HandshakeGivesUp,
              HandshakePipeUp, HandshakeStreamEnds, HandshakeRetires,
              HandshakeNoListen, HandshakeGoes
<1>4. ASSUME NEW s \in Source, UpstreamChunk(s) PROVE Answered'
  <2>1. /\ read' = [read EXCEPT ![s] = @ + 1]
        /\ backlog' = [backlog EXCEPT ![s] = @ + 1]
        /\ UNCHANGED <<handshake, accepting>>
    BY <1>4 DEF UpstreamChunk
  <2>2. ASSUME s \in Inc PROVE handshake[s] = "stream"
    BY <1>4, <2>2, BoundsAssumption DEF UpstreamChunk, Inc, BoundsAssumption
  <2> QED
    BY <2>1, <2>2, Numbers, BoundsAssumption DEF BoundsAssumption
<1>5. ASSUME NEW s \in Source, ForwardChunk(s) \/ ForwardBreaks(s)
      PROVE  Answered'
  <2>1. PICK n \in {0, backlog[s] - 1} :
          /\ backlog' = [backlog EXCEPT ![s] = n]
          /\ 0 <= n /\ n <= backlog[s]
          /\ UNCHANGED <<read, handshake, accepting>>
    BY <1>5, BoundsAssumption DEF ForwardChunk, ForwardBreaks, BoundsAssumption
  <2> QED
    BY <2>1, Numbers, BoundsAssumption DEF BoundsAssumption
<1>6. ASSUME NEW i \in Inc, StopAccept(i) PROVE Answered'
  BY <1>6 DEF StopAccept
<1>7. CASE UNCHANGED <<handshake, read, backlog, accepting>>
  BY <1>7
<1> QED
  BY <1>1, <1>2, <1>3, <1>4, <1>5, <1>6, <1>7
     DEF Next, Task, HandshakeTask, OccupyTask, vars, DrainEnds,
         DrainRetires, MarkRejected, ReturnAttached, OccupyStarts, OccupyRefused,
         DrainChecksRole, DrainChecksReceiver, DrainInserts, OccupyOpens,
         OccupyCloses, OccupyFails

-----------------------------------------------------------------------------
(* The chunks *)

\* Chunks are read one by one, each from one upstream, up to the bound.
LEMMA ReadSteps ==
  ASSUME TypeOK, Answered, [Next]_vars
  PROVE  \/ read' = read
         \/ \E s \in Source : read[s] < MaxChunks /\ read' = [read EXCEPT ![s] = @ + 1]
<1> USE DEF TypeOK
<1>1. ASSUME NEW i \in Inc, HandshakeDials(i)
      PROVE  i \in Source /\ read[i] < MaxChunks /\ read' = [read EXCEPT ![i] = @ + 1]
  <2>1. read[i] = 0 /\ read' = [read EXCEPT ![i] = 1] /\ i \in Source
    BY <1>1, Numbers DEF HandshakeDials, Answered
  <2> QED
    BY <2>1, BoundsAssumption DEF BoundsAssumption
<1>2. ASSUME NEW s \in Source, UpstreamChunk(s)
      PROVE  read[s] < MaxChunks /\ read' = [read EXCEPT ![s] = @ + 1]
  BY <1>2 DEF UpstreamChunk
<1> QED
  BY <1>1, <1>2
     DEF Next, Task, HandshakeTask, OccupyTask, vars, StopAccept, DrainEnds,
         DrainRetires, MarkRejected, ReturnAttached, OccupyStarts, OccupyRefused,
         DrainChecksRole, DrainChecksReceiver, DrainInserts, OccupyOpens,
         OccupyCloses, OccupyFails, AllocateLine, SpawnHandshake, HandshakeListens,
         HandshakeGivesUp, HandshakePipeUp, HandshakeStreamEnds, HandshakeRetires,
         HandshakeNoListen, ForwardChunk, ForwardBreaks

\* No chunk comes back to the forward task once it has passed it.
LEMMA PassedSteps ==
  ASSUME TypeOK, Answered, [Next]_vars
  PROVE  \A s \in Source : read[s] <= read'[s] /\ Passed(s) <= Passed(s)'
<1> USE BoundsAssumption DEF TypeOK, Passed, BoundsAssumption
<1>1. ASSUME NEW i \in Inc, HandshakeDials(i)
      PROVE  \A s \in Source : read[s] <= read'[s] /\ Passed(s) <= Passed(s)'
  <2>1. read[i] = 0 /\ read' = [read EXCEPT ![i] = 1] /\ backlog' = backlog
    BY <1>1 DEF HandshakeDials, Answered
  <2> QED
    BY <2>1
<1>2. ASSUME NEW r \in Source, UpstreamChunk(r)
      PROVE  \A s \in Source : read[s] <= read'[s] /\ Passed(s) <= Passed(s)'
  BY <1>2 DEF UpstreamChunk
<1>3. ASSUME NEW r \in Source, ForwardChunk(r) \/ ForwardBreaks(r)
      PROVE  \A s \in Source : read[s] <= read'[s] /\ Passed(s) <= Passed(s)'
  BY <1>3 DEF ForwardChunk, ForwardBreaks
<1>4. CASE UNCHANGED <<read, backlog>>
  BY <1>4
<1> QED
  BY <1>1, <1>2, <1>3, <1>4
     DEF Next, Task, HandshakeTask, OccupyTask, vars, StopAccept, DrainEnds,
         DrainRetires, MarkRejected, ReturnAttached, OccupyStarts, OccupyRefused,
         DrainChecksRole, DrainChecksReceiver, DrainInserts, OccupyOpens,
         OccupyCloses, OccupyFails, AllocateLine, SpawnHandshake, HandshakeListens,
         HandshakeGivesUp, HandshakePipeUp, HandshakeStreamEnds, HandshakeRetires,
         HandshakeNoListen

\* The forward task sends the chunk that follows those that passed it: one
\* that was read, and never a responseChunk.
LEMMA ForwardedChunk ==
  ASSUME TypeOK, BacklogRead, Answered, NEW s \in Source, ForwardChunk(s)
  PROVE  /\ NextForward(s) = <<s, Passed(s) + 1>>
         /\ Passed(s) + 1 \in 1 .. MaxChunks
         /\ Passed(s)' = Passed(s) + 1
         /\ s \in Inc => Passed(s) + 1 # 1
<1> USE BoundsAssumption DEF TypeOK, BoundsAssumption
<1>1. /\ backlog[s] > 0 /\ backlog[s] <= read[s]
      /\ backlog' = [backlog EXCEPT ![s] = @ - 1] /\ read' = read
  BY DEF ForwardChunk, BacklogRead
<1>2. ASSUME s \in Inc PROVE backlog[s] < read[s]
  BY <1>1, <1>2 DEF Answered
<1> QED
  BY <1>1, <1>2 DEF NextForward, Passed

-----------------------------------------------------------------------------
(* The safety invariants *)

\* The entry in proxy_receivers goes with the only upstream it stands for.
LEMMA OneUpstreamNext ==
  ASSUME TypeOK, FreshOff, OneUpstream, [Next]_vars PROVE OneUpstream'
<1> USE DEF TypeOK, OneUpstream, Working
<1>1. ASSUME NEW i \in Inc, AllocateLine(i) PROVE OneUpstream'
  <2>1. handshake[i] = "off"
    BY <1>1 DEF AllocateLine, FreshOff, Inc
  <2> QED
    BY <1>1, <2>1 DEF AllocateLine
<1>2. ASSUME NEW i \in Inc, SpawnHandshake(i) PROVE OneUpstream'
  BY <1>2 DEF SpawnHandshake, InsertReceiver
<1>3. ASSUME NEW i \in Inc,
             HandshakeListens(i) \/ HandshakeDials(i) \/ HandshakePipeUp(i)
      PROVE  OneUpstream'
  BY <1>3 DEF HandshakeListens, HandshakeDials, HandshakePipeUp, HandshakeGoes
<1>4. ASSUME NEW i \in Inc,
             HandshakeNoListen(i) \/ HandshakeGivesUp(i) \/ HandshakeStreamEnds(i)
      PROVE  OneUpstream'
  BY <1>4 DEF HandshakeNoListen, HandshakeGivesUp, HandshakeStreamEnds,
              HandshakeGoes
<1>5. ASSUME NEW i \in Inc, HandshakeRetires(i) PROVE OneUpstream'
  BY <1>5 DEF HandshakeRetires, HandshakeGoes
<1>6. CASE DrainEnds
  BY <1>6 DEF DrainEnds
<1>7. ASSUME NEW i \in Inc, DrainInserts(i) PROVE OneUpstream'
  BY <1>7 DEF DrainInserts, InsertReceiver
<1>8. CASE UNCHANGED <<handshake, receiver, drain>>
  BY <1>8
<1> QED
  BY <1>1, <1>2, <1>3, <1>4, <1>5, <1>6, <1>7, <1>8
     DEF Next, Task, HandshakeTask, OccupyTask, vars, StopAccept, UpstreamChunk,
         ForwardBreaks, ForwardChunk, DrainRetires, MarkRejected,
         ReturnAttached, OccupyStarts, OccupyRefused, DrainChecksRole, DrainChecksReceiver,
         OccupyOpens, OccupyCloses, OccupyFails

\* Whoever lets the entry go has still to retire the session.
LEMMA OwnerNext ==
  ASSUME TypeOK, SessionHasOwner, [Next]_vars PROVE SessionHasOwner'
<1> USE DEF TypeOK, SessionHasOwner
<1>1. ASSUME NEW i \in Inc, AllocateLine(i) PROVE SessionHasOwner'
  BY <1>1 DEF AllocateLine
<1>2. ASSUME NEW i \in Inc, SpawnHandshake(i) PROVE SessionHasOwner'
  BY <1>2 DEF SpawnHandshake, InsertReceiver
<1>3. ASSUME NEW i \in Inc,
             HandshakeListens(i) \/ HandshakeDials(i) \/ HandshakePipeUp(i)
      PROVE  SessionHasOwner'
  BY <1>3 DEF HandshakeListens, HandshakeDials, HandshakePipeUp, HandshakeGoes, Session
<1>4. ASSUME NEW i \in Inc,
             HandshakeNoListen(i) \/ HandshakeGivesUp(i) \/ HandshakeStreamEnds(i)
      PROVE  SessionHasOwner'
  BY <1>4 DEF HandshakeNoListen, HandshakeGivesUp, HandshakeStreamEnds,
              HandshakeGoes
<1>5. ASSUME NEW i \in Inc, HandshakeRetires(i) \/ OccupyFails(i)
      PROVE  SessionHasOwner'
  BY <1>5 DEF HandshakeRetires, OccupyFails, NoSession
<1>6. CASE DrainEnds \/ DrainRetires
  BY <1>6 DEF DrainEnds, DrainRetires, NoSession
<1>7. ASSUME NEW i \in Inc, DrainInserts(i) PROVE SessionHasOwner'
  BY <1>7 DEF DrainInserts, InsertReceiver
<1>8. ASSUME NEW i \in Inc,
             OccupyStarts(i) \/ OccupyRefused(i) \/ OccupyOpens(i)
             \/ OccupyCloses(i)
      PROVE  SessionHasOwner'
  <2>1. line'.live = line.live
    BY <1>8 DEF OccupyStarts, OccupyRefused, OccupyOpens, OccupyCloses,
                ClearInflight, Session
  <2> QED
    BY <1>8, <2>1 DEF OccupyStarts, OccupyRefused, OccupyOpens, OccupyCloses
<1>9. CASE MarkRejected \/ ReturnAttached
  BY <1>9 DEF MarkRejected, ReturnAttached, Session
<1>10. CASE UNCHANGED <<line, handshake, receiver, retiring>>
  BY <1>10
<1> QED
  BY <1>1, <1>2, <1>3, <1>4, <1>5, <1>6, <1>7, <1>8, <1>9, <1>10
     DEF Next, Task, HandshakeTask, OccupyTask, vars, StopAccept, UpstreamChunk,
         ForwardBreaks, ForwardChunk, DrainChecksRole, DrainChecksReceiver

\* The flag is set with a task, and cleared or taken along when it ends.
LEMMA InflightNext ==
  ASSUME TypeOK, InflightHasTask, [Next]_vars PROVE InflightHasTask'
<1> USE DEF TypeOK, InflightHasTask, Occupying
<1>1. ASSUME NEW i \in Inc,
             AllocateLine(i) \/ HandshakeRetires(i) \/ OccupyFails(i)
      PROVE  InflightHasTask'
  BY <1>1 DEF AllocateLine, HandshakeRetires, OccupyFails, NewSession, NoSession
<1>2. ASSUME NEW i \in Inc, HandshakeDials(i) PROVE InflightHasTask'
  BY <1>2 DEF HandshakeDials, Session
<1>3. CASE MarkRejected \/ ReturnAttached
  BY <1>3 DEF MarkRejected, ReturnAttached, Session
<1>4. ASSUME NEW i \in Inc, OccupyStarts(i) \/ OccupyRefused(i)
      PROVE  InflightHasTask'
  BY <1>4 DEF OccupyStarts, OccupyRefused, OccupyGoes, ClearInflight, Session
<1>5. ASSUME NEW i \in Inc, OccupyOpens(i) PROVE InflightHasTask'
  BY <1>5 DEF OccupyOpens, OccupyGoes, Session
<1>6. ASSUME NEW i \in Inc, OccupyCloses(i) PROVE InflightHasTask'
  BY <1>6 DEF OccupyCloses, OccupyGoes, ClearInflight, Session
<1>7. ASSUME NEW i \in Inc,
             DrainChecksRole(i) \/ DrainChecksReceiver(i) \/ DrainInserts(i)
      PROVE  InflightHasTask'
  BY <1>7 DEF DrainChecksRole, DrainChecksReceiver, DrainInserts, AfterDrain,
              OccupyGoes
<1>8. CASE DrainRetires
  BY <1>8 DEF DrainRetires, NoSession
<1>9. CASE UNCHANGED <<line, occupy>>
  BY <1>9
<1> QED
  BY <1>1, <1>2, <1>3, <1>4, <1>5, <1>6, <1>7, <1>8, <1>9
     DEF Next, Task, HandshakeTask, OccupyTask, vars, StopAccept, UpstreamChunk,
         ForwardBreaks, ForwardChunk, DrainEnds, SpawnHandshake,
         HandshakeListens, HandshakeGivesUp, HandshakePipeUp,
         HandshakeStreamEnds, HandshakeNoListen

-----------------------------------------------------------------------------

\* The initial state satisfies the inductive invariant.
LEMMA InitInv == Init => IInv
<1> SUFFICES ASSUME Init PROVE IInv
  OBVIOUS
<1> USE Numbers, BoundsAssumption DEF Init, BoundsAssumption
<1>1. TypeOK
  <2>1. count \in 0 .. MaxInc
    OBVIOUS
  <2>2. line \in Session
    BY SessionTypes
  <2>3. /\ handshake \in [Inc -> HandshakePc]
        /\ occupy \in [Inc -> [pc : OccupyPc, gen : 0 .. MaxGen, http : BOOLEAN]]
    BY DEF HandshakePc, OccupyPc
  <2> QED
    BY <2>1, <2>2, <2>3 DEF TypeOK
<1>2. FreshOff /\ BacklogRead /\ Answered
  BY DEF FreshOff, BacklogRead, Answered, Inc, Source
<1>3. OneUpstream
  BY DEF OneUpstream, Working
<1>4. SessionHasOwner /\ InflightHasTask
  BY DEF SessionHasOwner, InflightHasTask, NoSession
<1> QED
  BY <1>1, <1>2, <1>3, <1>4 DEF IInv

\* Every step of the proxy's side keeps it.
LEMMA NextKeeps == ASSUME IInv, [Next]_vars PROVE IInv'
BY TypeNext, FreshNext, BacklogNext, AnsweredNext, OneUpstreamNext, OwnerNext,
   InflightNext
   DEF IInv

\* Every reachable state of the proxy's side satisfies it.
THEOREM Invariance == Spec => []IInv
<1>1. IInv /\ [Next]_vars => IInv'
  BY NextKeeps
<1> QED
  BY <1>1, InitInv, PTL DEF Spec

\* The proxy's state is always well typed: counters stay within their bounds
\* and no backlog goes below zero (the forward task of run_proxy_stream).
THEOREM TypeCorrect == Spec => []TypeOK
<1>1. IInv => TypeOK
  BY DEF IInv
<1> QED
  BY <1>1, Invariance, PTL

\* spawn_proxy_handshake and maybe_start_proxy_drain never both own an
\* upstream of the handle, however many incarnations were allocated.
THEOREM NeverTwoUpstreams == Spec => []OneUpstream
<1>1. IInv => OneUpstream
  BY DEF IInv
<1> QED
  BY <1>1, Invariance, PTL

\* apply_duplex_offer's session is always some task's to retire.
THEOREM NoOrphanSession == Spec => []SessionHasOwner
<1>1. IInv => SessionHasOwner
  BY DEF IInv
<1> QED
  BY <1>1, Invariance, PTL

\* The flag that keeps spawn_l0_pipe from running twice never sticks.
THEOREM NoStuckInflight == Spec => []InflightHasTask
<1>1. IInv => InflightHasTask
  BY DEF IInv
<1> QED
  BY <1>1, Invariance, PTL
=============================================================================

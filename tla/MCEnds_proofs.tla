----------------------------- MODULE MCEnds_proofs -----------------------------
(***************************************************************************)
(* Proofs of the safety properties of the two components MCEnds puts side  *)
(* by side: ReadyPool, for any set of identities and any target, and       *)
(* Gateway, for any requests of any kind, any number of deliveries and     *)
(* entries, any capacity and any limit of the body.                        *)
(***************************************************************************)
EXTENDS MCEnds, SequenceTheorems, TLAPS

\* The counter is raised exactly while the warmer waits for an identity.
WarmingCounts == warming = (IF warmer = None THEN 0 ELSE 1)

IInv == TypeOK /\ WarmingCounts /\ ListenHasUser /\ OwnersRun /\ PoolBounded

\* What an append makes of a queue.
LEMMA QueueAppend ==
  ASSUME NEW S, NEW q \in Seq(S), NEW i \in S
  PROVE  /\ Append(q, i) \in Seq(S)
         /\ Len(Append(q, i)) = Len(q) + 1
         /\ ToSet(Append(q, i)) = ToSet(q) \cup {i}
<1> DEFINE a == Append(q, i)
<1>1. /\ a \in Seq(S)
      /\ Len(a) = Len(q) + 1
      /\ \A k \in 1 .. Len(q) : a[k] = q[k]
      /\ a[Len(q) + 1] = i
  BY AppendProperties
<1>2. DOMAIN q = 1 .. Len(q) /\ DOMAIN a = 1 .. (Len(q) + 1) /\ Len(q) \in Nat
  BY <1>1, LenProperties
<1> HIDE DEF a
<1>3. ToSet(a) = ToSet(q) \cup {i}
  <2>1. ASSUME NEW x \in ToSet(a) PROVE x \in ToSet(q) \cup {i}
    BY <1>1, <1>2 DEF ToSet
  <2>2. ASSUME NEW x \in ToSet(q) PROVE x \in ToSet(a)
    <3>1. PICK k \in 1 .. Len(q) : x = q[k]
      BY <1>2 DEF ToSet
    <3>2. k \in 1 .. (Len(q) + 1) /\ a[k] = x
      BY <3>1, <1>1, <1>2
    <3> QED BY <3>2, <1>2 DEF ToSet
  <2>3. i \in ToSet(a)
    BY <1>1, <1>2 DEF ToSet
  <2> QED BY <2>1, <2>2, <2>3
<1> QED BY <1>1, <1>3 DEF a

\* What is left of a queue without its head.
LEMMA QueueTail ==
  ASSUME NEW S, NEW q \in Seq(S), q # <<>>
  PROVE  /\ Head(q) \in S
         /\ Tail(q) \in Seq(S)
         /\ Len(Tail(q)) = Len(q) - 1
         /\ ToSet(q) \subseteq ToSet(Tail(q)) \cup {Head(q)}
<1> DEFINE t == Tail(q)
<1>1. /\ Head(q) \in S
      /\ t \in Seq(S)
      /\ Len(t) = Len(q) - 1
      /\ \A k \in 1 .. Len(t) : t[k] = q[k + 1]
  BY HeadTailProperties
<1>2. DOMAIN q = 1 .. Len(q) /\ DOMAIN t = 1 .. Len(t) /\ Len(q) \in Nat
  BY <1>1, LenProperties
<1>3. Head(q) = q[1]
  OBVIOUS
<1> HIDE DEF t
<1>4. ASSUME NEW x \in ToSet(q), x # Head(q) PROVE x \in ToSet(t)
  <2>1. PICK k \in 1 .. Len(q) : x = q[k]
    BY <1>2 DEF ToSet
  <2>2. k # 1
    BY <1>3, <1>4, <2>1
  <2>3. (k - 1) \in 1 .. Len(t) /\ t[k - 1] = q[(k - 1) + 1] /\ (k - 1) + 1 = k
    BY <1>1, <1>2, <2>1, <2>2
  <2> QED BY <2>1, <2>3, <1>2 DEF ToSet
<1> QED BY <1>1, <1>4 DEF t

LEMMA InitEstablishes == Init => IInv
<1> SUFFICES ASSUME Init PROVE IInv
  OBVIOUS
<1>1. TypeOK /\ WarmingCounts
  BY ReadyAssumption DEF Init, TypeOK, WarmingCounts
<1>2. ListenHasUser /\ OwnersRun
  BY DEF Init, ListenHasUser, OwnersRun, Running
<1>3. PoolBounded
  BY ReadyAssumption DEF Init, PoolBounded
<1> QED BY <1>1, <1>2, <1>3 DEF IInv

-----------------------------------------------------------------------------
(* Two actions of a worker are shared: a listen is started by the warmer   *)
(* and by a line, and released by both.                                    *)

\* A listen that is started runs and is registered, and no other changes.
LEMMA StartListenEffect ==
  ASSUME TypeOK, OwnersRun, NEW i \in Identities, StartListen(i)
  PROVE  /\ worker' \in [Identities -> {"none", "posting", "up", "ended", "aborted"}]
         /\ owners' \subseteq Identities
         /\ OwnersRun'
         /\ \A j \in Identities \ {i} : Running(j)' = Running(j)
<1>1. worker' = [worker EXCEPT ![i] = "posting"] /\ owners' = owners \cup {i}
  BY DEF StartListen
<1> QED BY <1>1 DEF TypeOK, OwnersRun, Running

\* After a release the listen does not run, and no other changes.
LEMMA ReleaseEffect ==
  ASSUME TypeOK, OwnersRun, NEW i \in Identities, Release(i)
  PROVE  /\ worker' \in [Identities -> {"none", "posting", "up", "ended", "aborted"}]
         /\ signal' \in [Identities -> {"held", "sent", "dropped"}]
         /\ owners' \subseteq Identities
         /\ OwnersRun'
         /\ ~ Running(i)'
         /\ \A j \in Identities \ {i} : Running(j)' = Running(j)
<1>1. CASE i \in owners
  <2>1. /\ worker' = [worker EXCEPT ![i] = "aborted"]
        /\ signal' = DropSignal(i)
        /\ owners' = owners \ {i}
    BY <1>1 DEF Release
  <2>2. signal' \in [Identities -> {"held", "sent", "dropped"}]
    BY <2>1 DEF DropSignal, TypeOK
  <2> QED BY <2>1, <2>2 DEF TypeOK, OwnersRun, Running
<1>2. CASE i \notin owners
  <2>1. UNCHANGED <<worker, signal, owners>>
    BY <1>2 DEF Release
  <2> QED BY <1>2, <2>1 DEF TypeOK, OwnersRun, Running
<1> QED BY <1>1, <1>2

\* The worker's own steps: the pool, the warmer and the lines stay.
LEMMA WorkerSteps ==
  ASSUME IInv, NEW i \in Identities,
         ListenOpens(i) \/ FirstFrame(i) \/ StreamEnds(i) \/ PoolFull(i)
  PROVE  IInv'
<1> USE DEF IInv
<1>1. UNCHANGED <<ready, warming, warmer, line>>
  BY DEF ListenOpens, FirstFrame, StreamEnds, PoolFull
<1>2. /\ signal' \in [Identities -> {"held", "sent", "dropped"}]
      /\ worker' \in [Identities -> {"none", "posting", "up", "ended", "aborted"}]
      /\ owners' \subseteq Identities
  <2>1. CASE ListenOpens(i)
    BY <2>1 DEF ListenOpens, TypeOK
  <2>2. CASE FirstFrame(i)
    BY <2>2 DEF FirstFrame, TypeOK
  <2>3. CASE StreamEnds(i)
    BY <2>3 DEF StreamEnds, DropSignal, TypeOK
  <2>4. CASE PoolFull(i)
    BY <2>4 DEF PoolFull, DropSignal, TypeOK
  <2> QED BY <2>1, <2>2, <2>3, <2>4
<1>3. OwnersRun' /\ \A j \in Identities : Running(j)' => Running(j)
  <2>1. CASE ListenOpens(i)
    BY <2>1 DEF ListenOpens, TypeOK, OwnersRun, Running
  <2>2. CASE FirstFrame(i)
    BY <2>2 DEF FirstFrame, TypeOK, OwnersRun, Running
  <2>3. CASE StreamEnds(i)
    BY <2>3 DEF StreamEnds, TypeOK, OwnersRun, Running
  <2>4. CASE PoolFull(i)
    BY <2>4 DEF PoolFull, TypeOK, OwnersRun, Running
  <2> QED BY <2>1, <2>2, <2>3, <2>4
<1>4. TypeOK'
  BY <1>1, <1>2 DEF TypeOK
<1>5. ListenHasUser'
  BY <1>1, <1>3 DEF ListenHasUser
<1>6. WarmingCounts' /\ PoolBounded'
  BY <1>1 DEF WarmingCounts, PoolBounded
<1> QED BY <1>3, <1>4, <1>5, <1>6

-----------------------------------------------------------------------------
(* The warmer's steps *)

LEMMA WarmStep ==
  ASSUME IInv, NEW i \in Identities, Warm(i)
  PROVE  IInv'
<1> USE DEF IInv
<1>1. /\ warmer = None /\ WantsMore /\ StartListen(i)
      /\ warming' = warming + 1 /\ warmer' = i
      /\ ready' = ready /\ signal' = signal /\ line' = line
  BY DEF Warm
<1>2. warming = 0 /\ warming' = 1 /\ i # None
  BY <1>1, ReadyAssumption DEF WarmingCounts
<1>3. TypeOK' /\ WarmingCounts'
  BY <1>1, <1>2, StartListenEffect DEF TypeOK, WarmingCounts
<1>4. OwnersRun'
  BY <1>1, StartListenEffect
<1>5. ListenHasUser'
  <2>1. \A j \in Identities \ {i} : Running(j)' = Running(j) /\ j # None
    BY <1>1, StartListenEffect, ReadyAssumption
  <2> QED BY <2>1, <1>1 DEF ListenHasUser
<1>6. PoolBounded'
  <2>1. Len(ready) \in Nat
    BY DEF TypeOK
  <2> QED BY <2>1, <1>1, <1>2, ReadyAssumption DEF WantsMore, PoolBounded
<1> QED BY <1>3, <1>4, <1>5, <1>6

LEMMA WarmedStep ==
  ASSUME IInv, Warmed
  PROVE  IInv'
<1> USE DEF IInv
<1>1. /\ warmer # None
      /\ ready' = Append(ready, warmer)
      /\ warming' = warming - 1 /\ warmer' = None
      /\ UNCHANGED <<worker, signal, owners, line>>
  BY DEF Warmed
<1>2. warming = 1 /\ warming' = 0 /\ warmer \in Identities /\ ready \in Seq(Identities)
  BY <1>1 DEF WarmingCounts, TypeOK
<1>3. /\ ready' \in Seq(Identities)
      /\ Len(ready') = Len(ready) + 1
      /\ ToSet(ready') = ToSet(ready) \cup {warmer}
  BY <1>1, <1>2, QueueAppend
<1>4. TypeOK' /\ WarmingCounts'
  BY <1>1, <1>2, <1>3 DEF TypeOK, WarmingCounts
<1>5. ListenHasUser' /\ OwnersRun'
  BY <1>1, <1>3 DEF ListenHasUser, OwnersRun, Running
<1>6. PoolBounded'
  <2>1. Len(ready) \in Nat
    BY <1>2
  <2> QED BY <2>1, <1>2, <1>3, ReadyAssumption DEF PoolBounded
<1> QED BY <1>4, <1>5, <1>6

LEMMA WarmFailsStep ==
  ASSUME IInv, WarmFails
  PROVE  IInv'
<1> USE DEF IInv
<1>1. /\ warmer # None /\ Release(warmer)
      /\ warming' = warming - 1 /\ warmer' = None
      /\ ready' = ready /\ line' = line
  BY DEF WarmFails
<1>2. PICK w \in Identities : w = warmer
  BY <1>1 DEF TypeOK
<1>3. warming = 1 /\ warming' = 0 /\ Release(w)
  BY <1>1, <1>2 DEF WarmingCounts
<1>4. TypeOK' /\ WarmingCounts'
  BY <1>1, <1>3, ReleaseEffect DEF TypeOK, WarmingCounts
<1>5. OwnersRun'
  BY <1>3, ReleaseEffect
<1>6. ListenHasUser'
  <2>1. ~ Running(w)' /\ \A j \in Identities \ {w} : Running(j)' = Running(j)
    BY <1>3, ReleaseEffect
  <2> QED BY <2>1, <1>1, <1>2 DEF ListenHasUser
<1>7. PoolBounded'
  <2>1. Len(ready) \in Nat
    BY DEF TypeOK
  <2> QED BY <2>1, <1>1, <1>3, ReadyAssumption DEF PoolBounded
<1> QED BY <1>4, <1>5, <1>6, <1>7

-----------------------------------------------------------------------------
(* The steps of the lines *)

LEMMA TakeReadyStep ==
  ASSUME IInv, TakeReady
  PROVE  IInv'
<1> USE DEF IInv
<1> DEFINE h == Head(ready)
<1>1. /\ ready # <<>> /\ ready \in Seq(Identities)
      /\ line' = [line EXCEPT ![h] = "open"]
      /\ ready' = Tail(ready)
      /\ UNCHANGED <<warming, warmer, worker, signal, owners>>
  BY DEF TakeReady, TypeOK
<1>2. /\ h \in Identities
      /\ ready' \in Seq(Identities)
      /\ Len(ready') = Len(ready) - 1
      /\ ToSet(ready) \subseteq ToSet(ready') \cup {h}
  BY <1>1, QueueTail
<1> HIDE DEF h
<1>3. TypeOK' /\ WarmingCounts'
  BY <1>1, <1>2 DEF TypeOK, WarmingCounts
<1>4. OwnersRun'
  BY <1>1 DEF OwnersRun, Running
<1>5. ListenHasUser'
  BY <1>1, <1>2 DEF ListenHasUser, Running, TypeOK
<1>6. PoolBounded'
  <2>1. Len(ready) \in Nat /\ warming \in Int
    BY <1>1 DEF TypeOK
  <2> QED BY <2>1, <1>1, <1>2, ReadyAssumption DEF PoolBounded
<1> QED BY <1>3, <1>4, <1>5, <1>6

LEMMA MintColdStep ==
  ASSUME IInv, NEW i \in Identities, MintCold(i)
  PROVE  IInv'
<1> USE DEF IInv
<1>1. /\ StartListen(i)
      /\ line' = [line EXCEPT ![i] = "listen"]
      /\ UNCHANGED <<ready, warming, warmer, signal>>
  BY DEF MintCold
<1>2. TypeOK' /\ WarmingCounts'
  BY <1>1, StartListenEffect DEF TypeOK, WarmingCounts
<1>3. OwnersRun'
  BY <1>1, StartListenEffect
<1>4. ListenHasUser'
  <2>1. \A j \in Identities \ {i} : Running(j)' = Running(j)
    BY <1>1, StartListenEffect
  <2> QED BY <2>1, <1>1 DEF ListenHasUser, TypeOK
<1>5. PoolBounded'
  BY <1>1 DEF PoolBounded
<1> QED BY <1>2, <1>3, <1>4, <1>5

LEMMA ColdReadyStep ==
  ASSUME IInv, NEW i \in Identities, ColdReady(i)
  PROVE  IInv'
<1> USE DEF IInv
<1>1. /\ line' = [line EXCEPT ![i] = "open"]
      /\ UNCHANGED <<ready, warming, warmer, worker, signal, owners>>
  BY DEF ColdReady
<1>2. TypeOK' /\ WarmingCounts' /\ OwnersRun' /\ PoolBounded'
  BY <1>1 DEF TypeOK, WarmingCounts, OwnersRun, Running, PoolBounded
<1>3. ListenHasUser'
  BY <1>1 DEF ListenHasUser, Running, TypeOK
<1> QED BY <1>2, <1>3

LEMMA LineEndsStep ==
  ASSUME IInv, NEW i \in Identities, LineEnds(i)
  PROVE  IInv'
<1> USE DEF IInv
<1>1. /\ line' = [line EXCEPT ![i] = "closed"]
      /\ Release(i)
      /\ UNCHANGED <<ready, warming, warmer>>
  BY DEF LineEnds
<1>2. TypeOK' /\ WarmingCounts'
  BY <1>1, ReleaseEffect DEF TypeOK, WarmingCounts
<1>3. OwnersRun'
  BY <1>1, ReleaseEffect
<1>4. ListenHasUser'
  <2>1. ~ Running(i)' /\ \A j \in Identities \ {i} : Running(j)' = Running(j)
    BY <1>1, ReleaseEffect
  <2> QED BY <2>1, <1>1 DEF ListenHasUser, TypeOK
<1>5. PoolBounded'
  BY <1>1 DEF PoolBounded
<1> QED BY <1>2, <1>3, <1>4, <1>5

LEMMA StepPreserves == IInv /\ [Next]_vars => IInv'
<1> SUFFICES ASSUME IInv, [Next]_vars PROVE IInv'
  OBVIOUS
<1>1. CASE UNCHANGED vars
  BY <1>1 DEF vars, IInv, TypeOK, WarmingCounts, ListenHasUser, OwnersRun,
              PoolBounded, Running
<1>2. CASE Next
  <2>1. CASE Warmed
    BY <2>1, WarmedStep
  <2>2. CASE WarmFails
    BY <2>2, WarmFailsStep
  <2>3. CASE TakeReady
    BY <2>3, TakeReadyStep
  <2>4. ASSUME NEW i \in Identities,
               ListenOpens(i) \/ FirstFrame(i) \/ StreamEnds(i) \/ PoolFull(i)
        PROVE  IInv'
    BY <2>4, WorkerSteps
  <2>5. ASSUME NEW i \in Identities, Warm(i) PROVE IInv'
    BY <2>5, WarmStep
  <2>6. ASSUME NEW i \in Identities, MintCold(i) PROVE IInv'
    BY <2>6, MintColdStep
  <2>7. ASSUME NEW i \in Identities, ColdReady(i) PROVE IInv'
    BY <2>7, ColdReadyStep
  <2>8. ASSUME NEW i \in Identities, LineEnds(i) PROVE IInv'
    BY <2>8, LineEndsStep
  <2> QED BY <1>2, <2>1, <2>2, <2>3, <2>4, <2>5, <2>6, <2>7, <2>8 DEF Next
<1> QED BY <1>1, <1>2

-----------------------------------------------------------------------------
(* The theorems *)

\* The inductive invariant holds in every reachable state.
THEOREM Invariance == Spec => []IInv
  BY InitEstablishes, StepPreserves, PTL DEF Spec

\* Every variable keeps its type; the warming counter stays 0 or 1, so the
\* decrement of the source never wraps.
THEOREM TypeCorrect == Spec => []TypeOK
<1>1. IInv => TypeOK
  BY DEF IInv
<1> QED BY <1>1, Invariance, PTL

\* Every listen that runs has the warmer, the pool or a line to release it: no
\* release of client.rs leaves a listen behind.
THEOREM EveryListenHasUser == Spec => []ListenHasUser
<1>1. IInv => ListenHasUser
  BY DEF IInv
<1> QED BY <1>1, Invariance, PTL

\* The owner registry of listen.rs holds exactly the listens that run.
THEOREM RegistryExact == Spec => []OwnersRun
<1>1. IInv => OwnersRun
  BY DEF IInv
<1> QED BY <1>1, Invariance, PTL

\* The pool and the warmer together never exceed READY_IDENTITY_POOL_TARGET.
THEOREM Bounded == Spec => []PoolBounded
<1>1. IInv => PoolBounded
  BY DEF IInv
<1> QED BY <1>1, Invariance, PTL

-----------------------------------------------------------------------------
(* Gateway *)

\* The pump holds an armor only while the stream is read, and the loop has
\* ended once the process has.
Pumped ==
  /\ \A d \in Gate!Deliveries : Gate!Sending(d) => listen.pc = "pumping"
  /\ exit # "running" => listen.pc = "ended" /\ queue = <<>>

\* What is known of a delivery once its task has passed a step, and for good
\* once an answer was taken.
AtOrigin(d) == stage[d] \in {"fetching", "reading", "posting"} \/ replies[d] > 0
Fetched(d) == stage[d] = "posting" \/ replies[d] > 0

Served(d) ==
  /\ stage[d] = "resolving" => Gate!KindOf(d).wellFormed
  /\ AtOrigin(d) => /\ Gate!KindOf(d).wellFormed /\ Gate!KindOf(d).builds
                    /\ \E a \in asked : a.delivery = d
  /\ Fetched(d) => held[d] = Gate!KindOf(d).size /\ held[d] <= MaxBody
  /\ replies[d] > 0 => stage[d] \in {"posting", "answered", "failed", "aborted"}

GateInv ==
  /\ Gate!TypeOK /\ Gate!DeliveriesAccounted /\ Pumped
  /\ \A d \in Gate!Deliveries : Served(d)
  /\ RepliesExplained

\* What an append makes of a queue of distinct elements.
LEMMA DistinctAppend ==
  ASSUME NEW S, NEW q \in Seq(S), NEW x \in S,
         Gate!IsInjective(q), x \notin Gate!Range(q)
  PROVE  /\ Append(q, x) \in Seq(S) /\ Len(Append(q, x)) = Len(q) + 1
         /\ Gate!IsInjective(Append(q, x))
         /\ Gate!Range(Append(q, x)) = Gate!Range(q) \cup {x}
<1> DEFINE a == Append(q, x)
<1>1. /\ a \in Seq(S) /\ Len(a) = Len(q) + 1
      /\ \A k \in 1 .. Len(q) : a[k] = q[k]
      /\ a[Len(q) + 1] = x
  BY AppendProperties
<1>2. DOMAIN q = 1 .. Len(q) /\ DOMAIN a = 1 .. (Len(q) + 1) /\ Len(q) \in Nat
  BY <1>1, LenProperties
<1>3. Gate!Range(a) = Gate!Range(q) \cup {x}
  BY QueueAppend DEF Gate!Range, ToSet
<1> HIDE DEF a
<1>4. \A k \in 1 .. Len(q) : q[k] # x
  BY <1>2 DEF Gate!Range
<1>5. ASSUME NEW j \in 1 .. (Len(q) + 1), NEW k \in 1 .. (Len(q) + 1), a[j] = a[k]
      PROVE  j = k
  <2>1. CASE j = Len(q) + 1 \/ k = Len(q) + 1
    BY <2>1, <1>1, <1>2, <1>4, <1>5
  <2>2. CASE j \in 1 .. Len(q) /\ k \in 1 .. Len(q)
    BY <2>2, <1>1, <1>2, <1>5 DEF Gate!IsInjective
  <2> QED BY <2>1, <2>2, <1>2
<1>6. Gate!IsInjective(a)
  BY <1>2, <1>5 DEF Gate!IsInjective
<1> QED BY <1>1, <1>3, <1>6 DEF a

\* What is left of a queue of distinct elements without its head.
LEMMA DistinctTail ==
  ASSUME NEW S, NEW q \in Seq(S), q # <<>>, Gate!IsInjective(q)
  PROVE  /\ Head(q) \in S /\ Tail(q) \in Seq(S) /\ Len(Tail(q)) = Len(q) - 1
         /\ Gate!IsInjective(Tail(q))
         /\ Head(q) \in Gate!Range(q)
         /\ Gate!Range(Tail(q)) = Gate!Range(q) \ {Head(q)}
<1> DEFINE t == Tail(q)
<1>1. /\ Head(q) \in S
      /\ t \in Seq(S)
      /\ Len(t) = Len(q) - 1
      /\ \A k \in 1 .. Len(t) : t[k] = q[k + 1]
  BY HeadTailProperties
<1>2. DOMAIN q = 1 .. Len(q) /\ DOMAIN t = 1 .. Len(t) /\ Len(q) \in Nat /\ Len(q) >= 1
  BY <1>1, LenProperties
<1>3. Head(q) = q[1] /\ 1 \in 1 .. Len(q)
  BY <1>2
<1>4. \A x \in Gate!Range(q) : x = Head(q) \/ x \in Gate!Range(t)
  BY QueueTail DEF Gate!Range, ToSet
<1> HIDE DEF t
<1>5. \A k \in 1 .. Len(t) : (k + 1) \in 1 .. Len(q) /\ k + 1 # 1
  BY <1>1, <1>2
<1>6. ASSUME NEW j \in 1 .. Len(t), NEW k \in 1 .. Len(t), t[j] = t[k]
      PROVE  j = k
  <2>1. q[j + 1] = q[k + 1] /\ (j + 1) \in 1 .. Len(q) /\ (k + 1) \in 1 .. Len(q)
    BY <1>1, <1>5, <1>6
  <2>2. j + 1 = k + 1
    BY <2>1, <1>2 DEF Gate!IsInjective
  <2> QED BY <2>2
<1>7. Gate!IsInjective(t)
  BY <1>2, <1>6 DEF Gate!IsInjective
<1>8. ASSUME NEW k \in 1 .. Len(t)
      PROVE  t[k] \in Gate!Range(q) /\ t[k] # Head(q)
  <2>1. t[k] = q[k + 1] /\ (k + 1) \in 1 .. Len(q) /\ k + 1 # 1
    BY <1>1, <1>5
  <2> QED BY <2>1, <1>2, <1>3 DEF Gate!Range, Gate!IsInjective
<1>9. Gate!Range(t) = Gate!Range(q) \ {Head(q)}
  <2>1. \A x \in Gate!Range(t) : x \in Gate!Range(q) /\ x # Head(q)
    BY <1>2, <1>8 DEF Gate!Range
  <2> QED BY <2>1, <1>4
<1>10. Head(q) \in Gate!Range(q)
  BY <1>2, <1>3 DEF Gate!Range
<1> QED BY <1>1, <1>7, <1>9, <1>10 DEF t

LEMMA GatewayInitEstablishes == Gate!Init => GateInv
<1> SUFFICES ASSUME Gate!Init PROVE GateInv
  OBVIOUS
<1> USE MCGateway DEF Gate!Init, Gate!GatewayAssumption, Gate!Deliveries
<1>1. Gate!TypeOK
  BY DEF Gate!TypeOK, Gate!Stage
<1>2. Gate!DeliveriesAccounted
  BY DEF Gate!DeliveriesAccounted, Gate!Range, Gate!IsInjective
<1>3. Pumped
  BY DEF Pumped, Gate!Sending
<1>4. \A d \in Gate!Deliveries : Served(d)
  BY DEF Served, AtOrigin, Fetched
<1>5. RepliesExplained
  BY DEF RepliesExplained, Gate!RepliesExplained
<1> QED BY <1>1, <1>2, <1>3, <1>4, <1>5 DEF GateInv

\* A served delivery stays so while nothing about it changes.
LEMMA ServedKept ==
  ASSUME NEW d, Served(d), UNCHANGED kind, of[d]' = of[d], stage[d]' = stage[d],
         held[d]' = held[d], replies[d]' = replies[d], asked \subseteq asked'
  PROVE  Served(d)'
BY DEF Served, AtOrigin, Fetched, Gate!KindOf

\* The listen loop's own steps: no delivery is touched, and it leaves the
\* stream only when the pump is idle.
LEMMA ListenSteps ==
  ASSUME GateInv, Gate!Listen
  PROVE  GateInv'
<1> USE DEF GateInv
<1>1. UNCHANGED <<faults, kind, expired, routeKey, of, exit, queue, stage,
                  at, held, asked, replies, unsure>>
  BY DEF Gate!Listen, Gate!Prepare, Gate!PrepareFails, Gate!OpenOk, Gate!OpenFails,
         Gate!Wake, Gate!StreamEnds, Gate!world, Gate!answers
<1>2. /\ listen.pc # "ended"
      /\ listen.pc = "pumping" => ~ \E d \in Gate!Deliveries : Gate!Sending(d)
  BY DEF Gate!Listen, Gate!Prepare, Gate!PrepareFails, Gate!OpenOk, Gate!OpenFails,
         Gate!Wake, Gate!StreamEnds, Gate!PumpIdle
<1>3. listen' \in [pc : {"preparing", "opening", "pumping", "sleeping", "ended"},
                  entry : 1 .. ListenEntries]
  <2>1. ListenEntries \in Nat \ {0}
    BY MCGateway DEF Gate!GatewayAssumption
  <2> QED BY <2>1 DEF Gate!TypeOK, Gate!Listen, Gate!Prepare, Gate!PrepareFails,
                      Gate!OpenOk, Gate!OpenFails, Gate!Wake, Gate!StreamEnds,
                      Gate!Goto, Gate!After
<1>4. Gate!TypeOK'
  BY <1>1, <1>3 DEF Gate!TypeOK
<1>5. Gate!DeliveriesAccounted'
  BY <1>1 DEF Gate!DeliveriesAccounted
<1>6. Pumped'
  BY <1>1, <1>2 DEF Pumped, Gate!Sending
<1>7. RepliesExplained' /\ \A d \in Gate!Deliveries : Served(d)'
  BY <1>1, ServedKept DEF RepliesExplained, Gate!RepliesExplained
<1> QED BY <1>4, <1>5, <1>6, <1>7

\* Time passes, or the route certificate's key expires.
LEMMA WorldSteps ==
  ASSUME GateInv, (\E r \in Requests : Gate!Expire(r)) \/ Gate!RouteKeyExpires
  PROVE  GateInv'
<1> USE DEF GateInv
<1>1. /\ UNCHANGED <<faults, kind, listen, of, exit, queue, stage, at, held, asked,
                     replies, unsure>>
      /\ expired' \subseteq Requests /\ routeKey' \in BOOLEAN
  BY DEF Gate!Expire, Gate!RouteKeyExpires, Gate!stream, Gate!answers, Gate!TypeOK
<1>2. Gate!TypeOK'
  BY <1>1 DEF Gate!TypeOK
<1>3. Gate!DeliveriesAccounted' /\ Pumped'
  BY <1>1 DEF Gate!DeliveriesAccounted, Pumped, Gate!Sending
<1>4. RepliesExplained' /\ \A d \in Gate!Deliveries : Served(d)'
  BY <1>1, ServedKept DEF RepliesExplained, Gate!RepliesExplained
<1> QED BY <1>2, <1>3, <1>4

\* The pump reads an armor: the next delivery leaves the mailbox.
LEMMA ReadStep ==
  ASSUME GateInv, NEW r \in Requests, Gate!Read(r)
  PROVE  GateInv'
<1> USE DEF GateInv
<1> DEFINE n == Len(of) + 1
<1>1. /\ listen.pc = "pumping" /\ Len(of) < NumDeliveries
      /\ of' = Append(of, r) /\ stage' = [stage EXCEPT ![n] = "sending"]
      /\ UNCHANGED <<faults, kind, expired, routeKey, listen, exit, queue, at, held,
                     asked, replies, unsure>>
  BY DEF Gate!Read, Gate!PumpIdle, Gate!world, Gate!answers
<1>2. /\ of \in Seq(Requests) /\ Len(of) \in Nat /\ NumDeliveries \in Nat
      /\ n \in Gate!Deliveries /\ stage \in [Gate!Deliveries -> Gate!Stage]
  <2>1. of \in Seq(Requests) /\ stage \in [Gate!Deliveries -> Gate!Stage]
    BY DEF Gate!TypeOK
  <2>2. NumDeliveries \in Nat
    BY MCGateway DEF Gate!GatewayAssumption
  <2>3. Len(of) \in Nat
    BY <2>1, LenProperties
  <2> QED BY <1>1, <2>1, <2>2, <2>3 DEF Gate!Deliveries
<1>3. /\ of' \in Seq(Requests) /\ Len(of') = n
      /\ \A d \in 1 .. Len(of) : of'[d] = of[d]
  BY <1>1, <1>2, AppendProperties
<1>4. stage[n] = "mailbox" /\ n \notin Gate!Range(queue)
  BY <1>2 DEF Gate!DeliveriesAccounted
<1>5. \A d \in Gate!Deliveries \ {n} : stage'[d] = stage[d]
  BY <1>1, <1>2
<1>6. stage'[n] = "sending" /\ stage' \in [Gate!Deliveries -> Gate!Stage]
  BY <1>1, <1>2 DEF Gate!Stage
<1>7. exit = "running"
  BY <1>1 DEF Pumped
<1>8. Gate!TypeOK'
  <2>1. Len(of') <= NumDeliveries
    BY <1>1, <1>2, <1>3
  <2> QED BY <1>1, <1>3, <1>6, <2>1 DEF Gate!TypeOK
<1>9. Gate!DeliveriesAccounted'
  <2>1. \A d \in Gate!Deliveries : d > n <=> d > Len(of) /\ d # n
    BY <1>2 DEF Gate!Deliveries
  <2>2. \A d \in Gate!Deliveries : (stage'[d] = "mailbox") <=> (d > n)
    BY <2>1, <1>5, <1>6 DEF Gate!DeliveriesAccounted
  <2>3. \A d \in Gate!Deliveries : (stage'[d] = "queued") <=> (d \in Gate!Range(queue))
    BY <1>4, <1>5, <1>6 DEF Gate!DeliveriesAccounted
  <2> QED BY <1>1, <1>3, <1>7, <2>2, <2>3 DEF Gate!DeliveriesAccounted
<1>10. Pumped'
  BY <1>1, <1>7 DEF Pumped
<1>11. ASSUME NEW d \in Gate!Deliveries PROVE Served(d)'
  <2>1. CASE d = n
    BY <2>1, <1>1, <1>4, <1>6 DEF Served, AtOrigin, Fetched
  <2>2. CASE d # n /\ d > Len(of)
    <3>1. stage[d] = "mailbox" /\ stage'[d] = "mailbox"
      BY <2>2, <1>5 DEF Gate!DeliveriesAccounted
    <3> QED BY <3>1, <1>1 DEF Served, AtOrigin, Fetched
  <2>3. CASE d # n /\ d <= Len(of)
    <3>1. d \in 1 .. Len(of)
      BY <2>3, <1>2 DEF Gate!Deliveries
    <3> QED BY <3>1, <2>3, <1>1, <1>3, <1>5, ServedKept
  <2> QED BY <2>1, <2>2, <2>3, <1>2 DEF Gate!Deliveries
<1>12. RepliesExplained'
  BY <1>1, <1>4, <1>5, <1>6 DEF RepliesExplained, Gate!RepliesExplained
<1> QED BY <1>8, <1>9, <1>10, <1>11, <1>12

\* The pump finds room in the channel.
LEMMA EnqueueStep ==
  ASSUME GateInv, NEW d \in Gate!Deliveries, Gate!Enqueue(d)
  PROVE  GateInv'
<1> USE DEF GateInv
<1>1. /\ stage[d] = "sending" /\ Len(queue) < QueueCap
      /\ queue' = Append(queue, d) /\ stage' = [stage EXCEPT ![d] = "queued"]
      /\ UNCHANGED <<faults, kind, expired, routeKey, listen, of, exit, at, held,
                     asked, replies, unsure>>
  BY DEF Gate!Enqueue, Gate!Sending, Gate!Room, Gate!world, Gate!stream, Gate!answers
<1>2. /\ queue \in Seq(Gate!Deliveries) /\ Len(queue) \in Nat /\ QueueCap \in Nat
      /\ stage \in [Gate!Deliveries -> Gate!Stage]
      /\ Gate!IsInjective(queue) /\ d \notin Gate!Range(queue)
  BY <1>1, MCGateway DEF Gate!TypeOK, Gate!GatewayAssumption, Gate!DeliveriesAccounted
<1>3. /\ queue' \in Seq(Gate!Deliveries) /\ Len(queue') = Len(queue) + 1
      /\ Gate!IsInjective(queue') /\ Gate!Range(queue') = Gate!Range(queue) \cup {d}
  BY <1>1, <1>2, DistinctAppend
<1>4. /\ stage'[d] = "queued" /\ stage' \in [Gate!Deliveries -> Gate!Stage]
      /\ \A e \in Gate!Deliveries \ {d} : stage'[e] = stage[e]
  BY <1>1, <1>2 DEF Gate!Stage
<1>5. exit = "running"
  BY <1>1 DEF Pumped, Gate!Sending
<1>6. Gate!TypeOK'
  <2>1. Len(queue') <= QueueCap
    BY <1>1, <1>2, <1>3
  <2> QED BY <1>1, <1>3, <1>4, <2>1 DEF Gate!TypeOK
<1>7. Gate!DeliveriesAccounted'
  <2>1. \A e \in Gate!Deliveries : (stage'[e] = "mailbox") <=> (stage[e] = "mailbox")
    BY <1>1, <1>4
  <2>2. \A e \in Gate!Deliveries : (stage'[e] = "queued") <=> (e \in Gate!Range(queue'))
    BY <1>3, <1>4 DEF Gate!DeliveriesAccounted
  <2> QED BY <1>1, <1>3, <1>5, <2>1, <2>2 DEF Gate!DeliveriesAccounted
<1>8. Pumped'
  BY <1>1, <1>4, <1>5 DEF Pumped, Gate!Sending
<1>9. ASSUME NEW e \in Gate!Deliveries PROVE Served(e)'
  <2>1. CASE e = d
    BY <2>1, <1>1, <1>4 DEF Served, AtOrigin, Fetched
  <2>2. CASE e # d
    BY <2>2, <1>1, <1>4, ServedKept
  <2> QED BY <2>1, <2>2
<1>10. RepliesExplained'
  BY <1>1, <1>4 DEF RepliesExplained, Gate!RepliesExplained
<1> QED BY <1>6, <1>7, <1>8, <1>9, <1>10

\* The main loop takes the oldest armor and checks it.
LEMMA TakeStep ==
  ASSUME GateInv, Gate!Take
  PROVE  GateInv'
<1> USE DEF GateInv
<1> DEFINE d == Head(queue)
<1>1. /\ exit = "running" /\ queue # <<>>
      /\ stage' = [stage EXCEPT ![d] = IF Gate!Validated(d) THEN "resolving" ELSE "failed"]
      /\ queue' = Tail(queue)
      /\ UNCHANGED <<faults, kind, expired, routeKey, listen, of, exit, at, held,
                     asked, replies, unsure>>
  BY DEF Gate!Take, Gate!world, Gate!stream, Gate!answers
<1>2. /\ queue \in Seq(Gate!Deliveries) /\ Len(queue) \in Nat /\ Len(queue) <= QueueCap
      /\ QueueCap \in Nat /\ stage \in [Gate!Deliveries -> Gate!Stage]
      /\ Gate!IsInjective(queue)
  BY MCGateway DEF Gate!TypeOK, Gate!GatewayAssumption, Gate!DeliveriesAccounted
<1>3. /\ d \in Gate!Deliveries /\ queue' \in Seq(Gate!Deliveries)
      /\ Len(queue') = Len(queue) - 1
      /\ Gate!IsInjective(queue') /\ d \in Gate!Range(queue)
      /\ Gate!Range(queue') = Gate!Range(queue) \ {d}
  BY <1>1, <1>2, DistinctTail
<1> HIDE DEF d
<1>4. /\ stage[d] = "queued"
      /\ stage'[d] \in {"resolving", "failed"}
      /\ stage'[d] = "resolving" => Gate!KindOf(d).wellFormed
      /\ stage' \in [Gate!Deliveries -> Gate!Stage]
      /\ \A e \in Gate!Deliveries \ {d} : stage'[e] = stage[e]
  <2>1. stage[d] = "queued"
    BY <1>3 DEF Gate!DeliveriesAccounted
  <2> QED BY <2>1, <1>1, <1>2, <1>3 DEF Gate!Stage, Gate!Validated
<1>5. Gate!TypeOK'
  <2>1. Len(queue') <= QueueCap
    BY <1>2, <1>3
  <2> QED BY <1>1, <1>3, <1>4, <2>1 DEF Gate!TypeOK
<1>6. Gate!DeliveriesAccounted'
  <2>1. \A e \in Gate!Deliveries : (stage'[e] = "mailbox") <=> (stage[e] = "mailbox")
    BY <1>4
  <2>2. \A e \in Gate!Deliveries : (stage'[e] = "queued") <=> (e \in Gate!Range(queue'))
    BY <1>3, <1>4 DEF Gate!DeliveriesAccounted
  <2> QED BY <1>1, <1>3, <2>1, <2>2 DEF Gate!DeliveriesAccounted
<1>7. Pumped'
  BY <1>1, <1>4 DEF Pumped, Gate!Sending
<1>8. ASSUME NEW e \in Gate!Deliveries PROVE Served(e)'
  <2>1. CASE e = d
    BY <2>1, <1>1, <1>4 DEF Served, AtOrigin, Fetched, Gate!KindOf
  <2>2. CASE e # d
    BY <2>2, <1>1, <1>4, ServedKept
  <2> QED BY <2>1, <2>2
<1>9. RepliesExplained'
  BY <1>1, <1>4 DEF RepliesExplained, Gate!RepliesExplained
<1> QED BY <1>5, <1>6, <1>7, <1>8, <1>9

\* run returns: nothing is queued, and what the pump held it had handed over
\* before the listen loop returned.
LEMMA ExitStep ==
  ASSUME GateInv, Gate!Exit
  PROVE  GateInv'
<1> USE DEF GateInv
<1>1. /\ listen.pc = "ended" /\ queue = <<>> /\ exit' = "success"
      /\ stage' = [d \in Gate!Deliveries |->
                     IF stage[d] \in Gate!InTask THEN "aborted" ELSE stage[d]]
      /\ UNCHANGED <<faults, kind, expired, routeKey, listen, of, queue, at, held,
                     asked, replies, unsure>>
  BY DEF Gate!Exit, Gate!NothingMore, Gate!world, Gate!stream, Gate!answers
<1>2. /\ \A d \in Gate!Deliveries :
           stage'[d] = IF stage[d] \in Gate!InTask THEN "aborted" ELSE stage[d]
      /\ stage' \in [Gate!Deliveries -> Gate!Stage]
  BY <1>1 DEF Gate!TypeOK, Gate!Stage, Gate!InTask
<1>3. \A d \in Gate!Deliveries : stage[d] \notin {"sending", "queued"}
  <2>1. \A d : d \notin Gate!Range(queue)
    BY <1>1 DEF Gate!Range
  <2> QED BY <2>1, <1>1 DEF Pumped, Gate!Sending, Gate!DeliveriesAccounted
<1>4. Gate!TypeOK'
  BY <1>1, <1>2 DEF Gate!TypeOK
<1>5. Gate!DeliveriesAccounted'
  <2>1. \A d \in Gate!Deliveries :
          /\ (stage'[d] = "mailbox") <=> (stage[d] = "mailbox")
          /\ (stage'[d] = "queued") <=> (stage[d] = "queued")
          /\ stage'[d] \notin {"sending", "queued"} \cup Gate!InTask
    BY <1>2, <1>3 DEF Gate!InTask
  <2> QED BY <1>1, <2>1 DEF Gate!DeliveriesAccounted
<1>6. Pumped'
  BY <1>1, <1>2, <1>3 DEF Pumped, Gate!Sending
<1>7. ASSUME NEW d \in Gate!Deliveries PROVE Served(d)'
  BY <1>1, <1>2 DEF Served, AtOrigin, Fetched, Gate!InTask, Gate!KindOf
<1>8. RepliesExplained'
  BY <1>1, <1>2 DEF RepliesExplained, Gate!RepliesExplained, Gate!InTask
<1> QED BY <1>4, <1>5, <1>6, <1>7, <1>8

\* What the steps of a task have in common.
LEMMA TaskEffect ==
  ASSUME GateInv, NEW d \in Gate!Deliveries, Gate!Task(d)
  PROVE  /\ UNCHANGED <<faults, kind, expired, routeKey, listen, of, exit, queue>>
         /\ stage[d] \in Gate!InTask
         /\ stage' \in [Gate!Deliveries -> Gate!Stage]
         /\ stage'[d] \in Gate!InTask \cup {"answered", "failed"}
         /\ \A e \in Gate!Deliveries \ {d} :
              stage'[e] = stage[e] /\ held'[e] = held[e] /\ replies'[e] = replies[e]
         /\ asked \subseteq asked'
<1> USE DEF Gate!InTask, Gate!Moves, Gate!world, Gate!stream, Gate!answers
<1>1. /\ UNCHANGED <<faults, kind, expired, routeKey, listen, of, exit, queue>>
      /\ stage[d] \in Gate!InTask
  BY DEF Gate!Task, Gate!Resolve, Gate!ResolveFails, Gate!Headers, Gate!FetchFails,
         Gate!ReadBody, Gate!BodyEnds, Gate!BodyFails, Gate!Post, Gate!PostFails
<1>2. /\ \/ stage' = stage
         \/ \E s \in Gate!InTask \cup {"answered", "failed"} : stage' = [stage EXCEPT ![d] = s]
  BY DEF Gate!Task, Gate!Resolve, Gate!ResolveFails, Gate!Headers, Gate!FetchFails,
         Gate!ReadBody, Gate!BodyEnds, Gate!BodyFails, Gate!Post, Gate!PostFails
<1>3. held' = held \/ \E n : held' = [held EXCEPT ![d] = n]
  BY DEF Gate!Task, Gate!Resolve, Gate!ResolveFails, Gate!Headers, Gate!FetchFails,
         Gate!ReadBody, Gate!BodyEnds, Gate!BodyFails, Gate!Post, Gate!PostFails
<1>4. replies' = replies \/ \E n : replies' = [replies EXCEPT ![d] = n]
  BY DEF Gate!Task, Gate!Resolve, Gate!ResolveFails, Gate!Headers, Gate!FetchFails,
         Gate!ReadBody, Gate!BodyEnds, Gate!BodyFails, Gate!Post, Gate!PostFails
<1>5. asked \subseteq asked'
  BY DEF Gate!Task, Gate!Resolve, Gate!ResolveFails, Gate!Headers, Gate!FetchFails,
         Gate!ReadBody, Gate!BodyEnds, Gate!BodyFails, Gate!Post, Gate!PostFails
<1>6. /\ stage \in [Gate!Deliveries -> Gate!Stage]
      /\ held \in [Gate!Deliveries -> Nat] /\ replies \in [Gate!Deliveries -> Nat]
  BY DEF GateInv, Gate!TypeOK
<1>7. /\ stage' \in [Gate!Deliveries -> Gate!Stage]
      /\ stage'[d] \in Gate!InTask \cup {"answered", "failed"}
      /\ \A e \in Gate!Deliveries \ {d} : stage'[e] = stage[e]
  BY <1>1, <1>2, <1>6 DEF Gate!Stage
<1>8. \A e \in Gate!Deliveries \ {d} : held'[e] = held[e] /\ replies'[e] = replies[e]
  BY <1>3, <1>4, <1>6
<1> QED BY <1>1, <1>5, <1>7, <1>8

\* What a task's step keeps of the numbers.
LEMMA TaskTypes ==
  ASSUME GateInv, NEW d \in Gate!Deliveries, Gate!Task(d)
  PROVE  /\ at' \in [Gate!Deliveries -> 1 .. PostEntries]
         /\ held' \in [Gate!Deliveries -> Nat]
         /\ asked' \subseteq [delivery : Gate!Deliveries,
                              method : {"GET", "HEAD", "get", "POST"}]
         /\ replies' \in [Gate!Deliveries -> Nat]
         /\ unsure' \in [Gate!Deliveries -> Nat]
<1>1. /\ at \in [Gate!Deliveries -> 1 .. PostEntries]
      /\ held \in [Gate!Deliveries -> Nat]
      /\ asked \subseteq [delivery : Gate!Deliveries, method : {"GET", "HEAD", "get", "POST"}]
      /\ replies \in [Gate!Deliveries -> Nat]
      /\ unsure \in [Gate!Deliveries -> Nat]
      /\ PostEntries \in Nat
  BY MCGateway DEF GateInv, Gate!TypeOK, Gate!GatewayAssumption
<1>2. \/ at' = at
      \/ at[d] # PostEntries /\ at' = [at EXCEPT ![d] = at[d] + 1]
  BY DEF Gate!Task, Gate!Resolve, Gate!ResolveFails, Gate!Headers, Gate!FetchFails,
         Gate!ReadBody, Gate!BodyEnds, Gate!BodyFails, Gate!Post, Gate!PostFails,
         Gate!Moves, Gate!answers
<1>3. held' = held \/ held' = [held EXCEPT ![d] = held[d] + 1]
  BY DEF Gate!Task, Gate!Resolve, Gate!ResolveFails, Gate!Headers, Gate!FetchFails,
         Gate!ReadBody, Gate!BodyEnds, Gate!BodyFails, Gate!Post, Gate!PostFails,
         Gate!Moves, Gate!answers
<1>4. /\ replies' = replies \/ \E n \in {0, 1} : replies' = [replies EXCEPT ![d] = replies[d] + n]
      /\ unsure' = unsure \/ \E n \in {0, 1} : unsure' = [unsure EXCEPT ![d] = unsure[d] + n]
  BY DEF Gate!Task, Gate!Resolve, Gate!ResolveFails, Gate!Headers, Gate!FetchFails,
         Gate!ReadBody, Gate!BodyEnds, Gate!BodyFails, Gate!Post, Gate!PostFails,
         Gate!Moves, Gate!answers
<1>5. \/ asked' = asked
      \/ stage[d] = "resolving" /\ asked' = asked \cup {[delivery |-> d, method |-> Gate!KindOf(d).method]}
  BY DEF Gate!Task, Gate!Resolve, Gate!ResolveFails, Gate!Headers, Gate!FetchFails,
         Gate!ReadBody, Gate!BodyEnds, Gate!BodyFails, Gate!Post, Gate!PostFails,
         Gate!Moves, Gate!answers
<1>6. at' \in [Gate!Deliveries -> 1 .. PostEntries]
  BY <1>1, <1>2
<1>7. held' \in [Gate!Deliveries -> Nat]
  BY <1>1, <1>3
<1>8. replies' \in [Gate!Deliveries -> Nat] /\ unsure' \in [Gate!Deliveries -> Nat]
  BY <1>1, <1>4
<1>9. ASSUME stage[d] = "resolving"
      PROVE  Gate!KindOf(d).method \in {"GET", "HEAD", "get", "POST"}
  <2>1. d <= Len(of) /\ of \in Seq(Requests)
    BY <1>9 DEF GateInv, Gate!DeliveriesAccounted, Gate!TypeOK, Gate!Deliveries
  <2>2. of[d] \in Requests
    BY <2>1, ElementOfSeq DEF Gate!Deliveries
  <2> QED BY <2>2, MCGateway DEF GateInv, Gate!TypeOK, Gate!GatewayAssumption, Gate!Kind,
                                 Gate!KindOf
<1>10. asked' \subseteq [delivery : Gate!Deliveries, method : {"GET", "HEAD", "get", "POST"}]
  BY <1>1, <1>5, <1>9
<1> QED BY <1>6, <1>7, <1>8, <1>10

\* The delivery the task is of.
LEMMA TaskServes ==
  ASSUME GateInv, NEW d \in Gate!Deliveries, Gate!Task(d)
  PROVE  Served(d)'
<1> USE DEF Gate!Moves
<1>1. /\ stage \in [Gate!Deliveries -> Gate!Stage]
      /\ held \in [Gate!Deliveries -> Nat] /\ replies \in [Gate!Deliveries -> Nat]
      /\ Served(d)
  BY DEF GateInv, Gate!TypeOK
<1>2. Gate!KindOf(d)' = Gate!KindOf(d) /\ asked \subseteq asked'
  BY TaskEffect DEF Gate!KindOf
<1>3. CASE Gate!Resolve(d)
  <2>1. /\ stage[d] = "resolving" /\ ~ (replies[d] > 0) /\ Gate!KindOf(d).wellFormed
        /\ replies' = replies
    BY <1>1, <1>3 DEF Gate!Resolve, Served
  <2>2. CASE Gate!KindOf(d).builds
    <3>1. /\ stage' = [stage EXCEPT ![d] = "fetching"]
          /\ asked' = asked \cup {[delivery |-> d, method |-> Gate!KindOf(d).method]}
      BY <1>3, <2>2 DEF Gate!Resolve
    <3>2. stage'[d] = "fetching"
      BY <3>1, <1>1
    <3>3. \E a \in asked' : a.delivery = d
      <4> DEFINE a == [delivery |-> d, method |-> Gate!KindOf(d).method]
      <4>1. a \in asked' /\ a.delivery = d
        BY <3>1
      <4> QED BY <4>1
    <3> QED BY <3>2, <3>3, <2>1, <2>2, <1>2 DEF Served, AtOrigin, Fetched
  <2>3. CASE ~ Gate!KindOf(d).builds
    <3>1. stage' = [stage EXCEPT ![d] = "failed"]
      BY <1>3, <2>3 DEF Gate!Resolve
    <3>2. stage'[d] = "failed"
      BY <3>1, <1>1
    <3> QED BY <3>2, <2>1 DEF Served, AtOrigin, Fetched
  <2> QED BY <2>2, <2>3
<1>4. CASE Gate!ResolveFails(d) \/ Gate!FetchFails(d) \/ Gate!BodyFails(d)
  BY <1>1, <1>2, <1>4 DEF Gate!ResolveFails, Gate!FetchFails, Gate!BodyFails, Gate!answers,
                          Served, AtOrigin, Fetched
<1>5. CASE Gate!Headers(d)
  BY <1>1, <1>2, <1>5 DEF Gate!Headers, Gate!answers, Served, AtOrigin, Fetched
<1>6. CASE Gate!ReadBody(d)
  BY <1>1, <1>2, <1>6 DEF Gate!ReadBody, Served, AtOrigin, Fetched
<1>7. CASE Gate!BodyEnds(d)
  BY <1>1, <1>2, <1>7 DEF Gate!BodyEnds, Gate!Fits, Gate!answers, Served, AtOrigin, Fetched
<1>8. CASE Gate!Post(d)
  BY <1>1, <1>2, <1>8 DEF Gate!Post, Served, AtOrigin, Fetched
<1>9. ASSUME NEW took \in BOOLEAN, NEW timeout \in BOOLEAN, Gate!PostFails(d, took, timeout)
      PROVE  Served(d)'
  <2>1. /\ stage[d] = "posting" /\ stage'[d] \in {"posting", "failed"}
        /\ UNCHANGED <<held, asked>>
    BY <1>1, <1>9 DEF Gate!PostFails
  <2> QED BY <1>1, <1>2, <2>1 DEF Served, AtOrigin, Fetched
<1> QED BY <1>3, <1>4, <1>5, <1>6, <1>7, <1>8, <1>9 DEF Gate!Task

\* What a task's step does to the answers taken and to those in doubt.
LEMMA TaskReplies ==
  ASSUME GateInv, NEW d \in Gate!Deliveries, Gate!Task(d)
  PROVE  RepliesExplained'
<1>1. /\ stage \in [Gate!Deliveries -> Gate!Stage]
      /\ replies \in [Gate!Deliveries -> Nat] /\ unsure \in [Gate!Deliveries -> Nat]
      /\ RepliesExplained
  BY DEF GateInv, Gate!TypeOK
<1>2. stage[d] \in Gate!InTask /\ stage[d] # "answered"
  BY TaskEffect DEF Gate!InTask
<1>3. \/ UNCHANGED <<replies, unsure>>
      \/ Gate!Post(d)
      \/ \E n \in {0, 1} : /\ replies' = [replies EXCEPT ![d] = replies[d] + n]
                           /\ unsure' = [unsure EXCEPT ![d] = unsure[d] + n]
  BY DEF Gate!Task, Gate!Resolve, Gate!ResolveFails, Gate!Headers, Gate!FetchFails,
         Gate!ReadBody, Gate!BodyEnds, Gate!BodyFails, Gate!PostFails,
         Gate!Moves, Gate!answers
<1>4. \A e \in Gate!Deliveries : stage[e] = "answered" => stage'[e] = "answered"
  BY <1>2, TaskEffect
<1>5. CASE UNCHANGED <<replies, unsure>>
  BY <1>1, <1>4, <1>5 DEF RepliesExplained, Gate!RepliesExplained
<1>6. CASE Gate!Post(d)
  <2>1. /\ stage' = [stage EXCEPT ![d] = "answered"]
        /\ replies' = [replies EXCEPT ![d] = replies[d] + 1] /\ unsure' = unsure
    BY <1>6 DEF Gate!Post, Gate!Moves
  <2> QED BY <2>1, <1>1, <1>2 DEF RepliesExplained, Gate!RepliesExplained
<1>7. ASSUME NEW n \in {0, 1},
             replies' = [replies EXCEPT ![d] = replies[d] + n],
             unsure' = [unsure EXCEPT ![d] = unsure[d] + n]
      PROVE  RepliesExplained'
  BY <1>1, <1>2, <1>4, <1>7 DEF RepliesExplained, Gate!RepliesExplained
<1> QED BY <1>3, <1>5, <1>6, <1>7

\* A step of handle_request.
LEMMA TaskSteps ==
  ASSUME GateInv, NEW d \in Gate!Deliveries, exit = "running", Gate!Task(d)
  PROVE  GateInv'
<1> USE DEF GateInv
<1>1. Gate!TypeOK'
  BY TaskEffect, TaskTypes DEF Gate!TypeOK
<1>2. Gate!DeliveriesAccounted'
  <2>1. \A e \in Gate!Deliveries :
          /\ (stage'[e] = "mailbox") <=> (stage[e] = "mailbox")
          /\ (stage'[e] = "queued") <=> (stage[e] = "queued")
    BY TaskEffect DEF Gate!InTask
  <2> QED BY <2>1, TaskEffect DEF Gate!DeliveriesAccounted
<1>3. Pumped'
  BY TaskEffect DEF Pumped, Gate!Sending, Gate!InTask
<1>4. ASSUME NEW e \in Gate!Deliveries PROVE Served(e)'
  <2>1. CASE e = d
    BY <2>1, TaskServes
  <2>2. CASE e # d
    BY <2>2, TaskEffect, ServedKept
  <2> QED BY <2>1, <2>2
<1> QED BY <1>1, <1>2, <1>3, <1>4, TaskReplies

LEMMA GatewayStepPreserves == GateInv /\ [Gate!Next]_(Gate!vars) => GateInv'
<1> SUFFICES ASSUME GateInv, [Gate!Next]_(Gate!vars) PROVE GateInv'
  OBVIOUS
<1>1. CASE UNCHANGED Gate!vars
  <2>1. UNCHANGED <<faults, kind, expired, routeKey, listen, of, exit, queue, stage, at,
                    held, asked, replies, unsure>>
    BY <1>1 DEF Gate!vars
  <2>2. Gate!TypeOK'
    BY <2>1 DEF GateInv, Gate!TypeOK
  <2>3. Gate!DeliveriesAccounted' /\ Pumped' /\ RepliesExplained'
    BY <2>1 DEF GateInv, Gate!DeliveriesAccounted, Pumped, Gate!Sending,
                RepliesExplained, Gate!RepliesExplained
  <2>4. \A d \in Gate!Deliveries : Served(d)'
    BY <2>1, ServedKept DEF GateInv
  <2> QED BY <2>2, <2>3, <2>4 DEF GateInv
<1>2. CASE Gate!Next
  <2>1. CASE Gate!Listen
    BY <2>1, ListenSteps
  <2>2. CASE Gate!Main
    BY <2>2, TakeStep, ExitStep DEF Gate!Main
  <2>3. ASSUME NEW r \in Requests, Gate!Read(r) PROVE GateInv'
    BY <2>3, ReadStep
  <2>4. CASE (\E r \in Requests : Gate!Expire(r)) \/ Gate!RouteKeyExpires
    BY <2>4, WorldSteps
  <2>5. ASSUME NEW d \in Gate!Deliveries, Gate!Enqueue(d) PROVE GateInv'
    BY <2>5, EnqueueStep
  <2>6. ASSUME NEW d \in Gate!Deliveries, exit = "running", Gate!Task(d) PROVE GateInv'
    BY <2>6, TaskSteps
  <2> QED BY <1>2, <2>1, <2>2, <2>3, <2>4, <2>5, <2>6 DEF Gate!Next
<1> QED BY <1>1, <1>2

\* The gateway's inductive invariant holds in every reachable state.
THEOREM GatewayInvariance == Gate!Spec => []GateInv
  BY GatewayInitEstablishes, GatewayStepPreserves, PTL DEF Gate!Spec

\* run, its channel and handle_request: no delivery is lost between the stream
\* and its task, and whoever is answered sent a request that passed every check
\* and gets all of the origin's answer, within the limit.
THEOREM EveryDeliveryServed == Gate!Spec => []DeliveriesServed
<1>1. GateInv => DeliveriesServed
  <2> SUFFICES ASSUME GateInv PROVE DeliveriesServed
    OBVIOUS
  <2>1. Gate!AnswersAreAsked
    BY DEF GateInv, Served, AtOrigin, Fetched, Gate!AnswersAreAsked
  <2> QED BY <2>1 DEF GateInv, DeliveriesServed
<1> QED BY <1>1, GatewayInvariance, PTL

\* send_via_entries: the answers to one delivery are no more than the entries
\* that took it and were then heard to fail, and one more once an entry
\* confirmed it.  So one delivery may well bring several answers, but each
\* further one names an unsure entry, whatever the entries, kinds and limits.
THEOREM RepliesAreExplained == Gate!Spec => []RepliesExplained
<1>1. GateInv => RepliesExplained
  BY DEF GateInv
<1> QED BY <1>1, GatewayInvariance, PTL

=============================================================================

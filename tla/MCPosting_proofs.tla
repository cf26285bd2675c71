--------------------------- MODULE MCPosting_proofs ---------------------------
(***************************************************************************)
(* Proofs of the safety properties of the two ways a packet is posted: of  *)
(* PostWorker for any queue, any number of permits and packets, and any    *)
(* entries; of SiPool in MCPosting for any registry, page size and any     *)
(* sets of entries, tasks and workers.                                     *)
(***************************************************************************)
EXTENDS MCPosting, SequenceTheorems, FiniteSetTheorems, TLAPS

\* The worker's job counts as started here: no earlier one is still waiting.
TakenInOrder ==
  \A i, j \in Jobs :
    i < j /\ st[j] \in Started \cup {"held"} => st[i] \in Started \cup {"dropped"}

IInv == TypeOK /\ JobsAccounted /\ PermitsKept /\ TakenInOrder

Holds(q, j) == \E k \in DOMAIN q : q[k] = j
Ascending(q) == \A k, l \in DOMAIN q : k < l => q[k] < q[l]

LEMMA JobFacts ==
  /\ NumJobs \in Nat
  /\ \A j \in Jobs : j \in Nat /\ j >= 1 /\ j <= NumJobs
  /\ \A j \in Nat : 1 <= j /\ j <= NumJobs => j \in Jobs
BY WorkerAssumption DEF Jobs

\* A later job behind an ascending queue.
LEMMA QueueAppend ==
  ASSUME NEW q \in Seq(Jobs), NEW n \in Jobs, Ascending(q),
         \A k \in DOMAIN q : q[k] < n
  PROVE  /\ Append(q, n) \in Seq(Jobs)
         /\ Len(Append(q, n)) = Len(q) + 1
         /\ Ascending(Append(q, n))
         /\ \A j \in Jobs : Holds(Append(q, n), j) <=> j = n \/ Holds(q, j)
<1> DEFINE a == Append(q, n)
<1>1. /\ a \in Seq(Jobs)
      /\ Len(a) = Len(q) + 1
      /\ \A k \in 1 .. Len(q) : a[k] = q[k]
      /\ a[Len(q) + 1] = n
  BY AppendProperties
<1>2. DOMAIN q = 1 .. Len(q) /\ DOMAIN a = 1 .. (Len(q) + 1) /\ Len(q) \in Nat
  BY <1>1, LenProperties
<1> HIDE DEF a
<1>3. Ascending(a)
  <2> SUFFICES ASSUME NEW k \in DOMAIN a, NEW l \in DOMAIN a, k < l
               PROVE  a[k] < a[l]
    BY DEF Ascending
  <2>1. k \in DOMAIN q /\ a[k] = q[k]
    BY <1>1, <1>2
  <2>2. CASE l = Len(q) + 1
    BY <2>1, <2>2, <1>1
  <2>3. CASE l # Len(q) + 1
    <3>1. l \in DOMAIN q /\ a[l] = q[l]
      BY <2>3, <1>1, <1>2
    <3> QED BY <2>1, <3>1 DEF Ascending
  <2> QED BY <2>2, <2>3
<1>4. ASSUME NEW j \in Jobs PROVE Holds(a, j) <=> j = n \/ Holds(q, j)
  <2>1. ASSUME NEW k \in DOMAIN a, a[k] = j PROVE j = n \/ Holds(q, j)
    <3>1. CASE k = Len(q) + 1
      BY <3>1, <2>1, <1>1
    <3>2. CASE k # Len(q) + 1
      <4>1. k \in DOMAIN q /\ q[k] = j
        BY <3>2, <2>1, <1>1, <1>2
      <4> QED BY <4>1 DEF Holds
    <3> QED BY <3>1, <3>2
  <2>2. ASSUME j = n PROVE Holds(a, j)
    <3>1. Len(q) + 1 \in DOMAIN a /\ a[Len(q) + 1] = j
      BY <2>2, <1>1, <1>2
    <3> QED BY <3>1 DEF Holds
  <2>3. ASSUME NEW k \in DOMAIN q, q[k] = j PROVE Holds(a, j)
    <3>1. k \in DOMAIN a /\ a[k] = j
      BY <2>3, <1>1, <1>2
    <3> QED BY <3>1 DEF Holds
  <2> QED BY <2>1, <2>2, <2>3 DEF Holds
<1> QED BY <1>1, <1>3, <1>4 DEF a

\* The head of an ascending queue comes before the others, and is not among
\* them.
LEMMA QueueTail ==
  ASSUME NEW q \in Seq(Jobs), q # <<>>, Ascending(q)
  PROVE  /\ Head(q) \in Jobs
         /\ Tail(q) \in Seq(Jobs)
         /\ Len(Tail(q)) = Len(q) - 1
         /\ Ascending(Tail(q))
         /\ Holds(q, Head(q))
         /\ \A j \in Jobs : Holds(q, j) <=> j = Head(q) \/ Holds(Tail(q), j)
         /\ \A j \in Jobs : Holds(Tail(q), j) => Head(q) < j
<1> DEFINE t == Tail(q)
<1>1. /\ Head(q) \in Jobs
      /\ t \in Seq(Jobs)
      /\ Len(t) = Len(q) - 1
      /\ \A k \in 1 .. Len(t) : t[k] = q[k + 1]
  BY HeadTailProperties
<1>2. DOMAIN q = 1 .. Len(q) /\ DOMAIN t = 1 .. Len(t) /\ Len(q) \in Nat /\ Len(q) > 0
  BY <1>1, LenProperties, EmptySeq
<1>3. Head(q) = q[1] /\ 1 \in DOMAIN q
  BY <1>2
<1> HIDE DEF t
<1>4. \A k \in DOMAIN t : k + 1 \in DOMAIN q /\ t[k] = q[k + 1] /\ 1 < k + 1
  BY <1>1, <1>2
<1>5. Ascending(t)
  <2> SUFFICES ASSUME NEW k \in DOMAIN t, NEW l \in DOMAIN t, k < l
               PROVE  t[k] < t[l]
    BY DEF Ascending
  <2>1. k + 1 < l + 1
    BY <1>2
  <2> QED BY <2>1, <1>4 DEF Ascending
<1>6. \A j \in Jobs : Holds(q, j) <=> j = Head(q) \/ Holds(t, j)
  <2> SUFFICES ASSUME NEW j \in Jobs PROVE Holds(q, j) <=> j = Head(q) \/ Holds(t, j)
    OBVIOUS
  <2>1. ASSUME NEW k \in DOMAIN q, q[k] = j PROVE j = Head(q) \/ Holds(t, j)
    <3>1. CASE k = 1
      BY <3>1, <2>1, <1>3
    <3>2. CASE k # 1
      <4>1. k - 1 \in DOMAIN t /\ (k - 1) + 1 = k
        BY <3>2, <1>1, <1>2
      <4>2. t[k - 1] = j
        BY <4>1, <1>4, <2>1
      <4> QED BY <4>1, <4>2 DEF Holds
    <3> QED BY <3>1, <3>2
  <2>2. ASSUME NEW k \in DOMAIN t, t[k] = j PROVE Holds(q, j)
    BY <2>2, <1>4 DEF Holds
  <2> QED BY <2>1, <2>2, <1>3 DEF Holds
<1>7. \A j \in Jobs : Holds(t, j) => Head(q) < j
  BY <1>3, <1>4 DEF Holds, Ascending
<1> QED BY <1>1, <1>3, <1>5, <1>6, <1>7 DEF t, Holds

-----------------------------------------------------------------------------

LEMMA RunningFinite == IsFiniteSet(Running)
<1>1. IsFiniteSet(Jobs)
  BY FS_Interval, JobFacts DEF Jobs
<1> QED BY <1>1, FS_Subset DEF Running

LEMMA InitEstablishes == Init => IInv
<1> SUFFICES ASSUME Init PROVE IInv
  OBVIOUS
<1>1. TypeOK
  BY WorkerAssumption DEF Init, TypeOK, JobState, ControlState, Jobs
<1>2. JobsAccounted
  BY JobFacts DEF Init, JobsAccounted
<1>3. PermitsKept
  <2>1. Running = {}
    BY DEF Init, Running
  <2> QED BY <2>1, FS_EmptySet, WorkerAssumption DEF Init, PermitsKept
<1>4. TakenInOrder
  BY DEF Init, TakenInOrder, Started
<1> QED BY <1>1, <1>2, <1>3, <1>4 DEF IInv

LEMMA EnqueuePreserves ==
  ASSUME IInv, EnqueuePost
  PROVE  IInv'
<1> DEFINE n == made + 1
<1>1. n \in Jobs /\ n = made + 1 /\ made \in Nat /\ st[n] = "none"
  BY JobFacts DEF IInv, TypeOK, EnqueuePost, JobsAccounted
<1>2. made' = n /\ held' = held /\ permits' = permits /\ at' = at /\ control' = control
  BY DEF EnqueuePost
<1>3. PICK s \in {"queued", "dropped"} :
        /\ st' = [st EXCEPT ![n] = s]
        /\ s = "queued" => Len(queue) < Queue /\ queue' = Append(queue, n)
        /\ s = "dropped" => queue' = queue
  BY DEF EnqueuePost
<1>4. /\ st' \in [Jobs -> JobState] /\ st'[n] = s
      /\ \A j \in Jobs : j # n => st'[j] = st[j]
  BY <1>1, <1>3 DEF IInv, TypeOK, JobState
<1>5. queue \in Seq(Jobs) /\ Ascending(queue) /\ \A j \in Jobs : st[j] = "queued" <=> Holds(queue, j)
  BY DEF IInv, TypeOK, JobsAccounted, Ascending, Holds
<1>6. \A k \in DOMAIN queue : queue[k] < n
  <2> SUFFICES ASSUME NEW k \in DOMAIN queue PROVE queue[k] < n
    OBVIOUS
  <2>1. queue[k] \in Jobs
    BY <1>5, ElementOfSeq, LenProperties
  <2>2. st[queue[k]] = "queued"
    BY <1>5, <2>1 DEF Holds
  <2>3. ~(queue[k] > made)
    BY <2>1, <2>2 DEF IInv, JobsAccounted
  <2> QED BY <2>1, <2>3, <1>1, JobFacts
<1> HIDE DEF n
<1>7. /\ queue' \in Seq(Jobs) /\ Len(queue') <= Queue /\ Ascending(queue')
      /\ \A j \in Jobs : st'[j] = "queued" <=> Holds(queue', j)
  <2>1. CASE s = "queued"
    <3>1. queue' = Append(queue, n)
      BY <2>1, <1>3
    <3>2. /\ Append(queue, n) \in Seq(Jobs) /\ Len(Append(queue, n)) = Len(queue) + 1
          /\ Ascending(Append(queue, n))
          /\ \A j \in Jobs : Holds(Append(queue, n), j) <=> j = n \/ Holds(queue, j)
      BY <1>1, <1>5, <1>6, QueueAppend
    <3>3. /\ queue' \in Seq(Jobs) /\ Len(queue') = Len(queue) + 1 /\ Ascending(queue')
          /\ \A j \in Jobs : Holds(queue', j) <=> j = n \/ Holds(queue, j)
      BY <3>1, <3>2 DEF Ascending, Holds
    <3>4. Len(queue') <= Queue
      BY <2>1, <3>3, <1>3, <1>5, LenProperties, WorkerAssumption
    <3>5. \A j \in Jobs : st'[j] = "queued" <=> Holds(queue', j)
      BY <2>1, <3>3, <1>4, <1>5
    <3> QED BY <3>3, <3>4, <3>5
  <2>2. CASE s = "dropped"
    <3>1. queue' = queue /\ st[n] # "queued" /\ st'[n] # "queued"
      BY <2>2, <1>1, <1>3, <1>4
    <3> QED BY <3>1, <1>4, <1>5 DEF IInv, TypeOK
  <2> QED BY <2>1, <2>2
<1>8. TypeOK'
  BY <1>1, <1>2, <1>4, <1>7, JobFacts DEF IInv, TypeOK, Jobs
<1>9. JobsAccounted'
  <2>1. \A j \in Jobs : st'[j] = "none" <=> j > made'
    BY <1>1, <1>2, <1>4, JobFacts DEF IInv, JobsAccounted
  <2>2. \A j \in Jobs : st'[j] = "held" <=> held' = j
    BY <1>1, <1>2, <1>4 DEF IInv, JobsAccounted
  <2> QED BY <2>1, <2>2, <1>7 DEF JobsAccounted, Ascending, Holds
<1>10. PermitsKept'
  <2>1. Running' = Running
    BY <1>1, <1>4 DEF Running
  <2> QED BY <2>1, <1>2 DEF IInv, PermitsKept
<1>11. TakenInOrder'
  <2> SUFFICES ASSUME NEW i \in Jobs, NEW j \in Jobs, i < j,
                      st'[j] \in Started \cup {"held"}
               PROVE  st'[i] \in Started \cup {"dropped"}
    BY DEF TakenInOrder
  <2>1. j # n /\ st[j] # "none"
    BY <1>4 DEF Started
  <2>2. ~(j > made)
    BY <2>1 DEF IInv, JobsAccounted
  <2>3. i # n
    BY <2>2, <1>1, JobFacts
  <2> QED BY <2>1, <2>3, <1>4 DEF IInv, TakenInOrder
<1> QED BY <1>8, <1>9, <1>10, <1>11 DEF IInv

LEMMA ReceivePreserves ==
  ASSUME IInv, Receive
  PROVE  IInv'
<1> DEFINE h == Head(queue)
<1>1. /\ queue \in Seq(Jobs) /\ queue # <<>> /\ Ascending(queue) /\ held = 0
      /\ \A j \in Jobs : st[j] = "queued" <=> Holds(queue, j)
  BY DEF IInv, TypeOK, JobsAccounted, Receive, Ascending, Holds
<1>2. /\ h \in Jobs /\ Tail(queue) \in Seq(Jobs) /\ Len(Tail(queue)) = Len(queue) - 1
      /\ Ascending(Tail(queue)) /\ Holds(queue, h)
      /\ \A j \in Jobs : Holds(queue, j) <=> j = h \/ Holds(Tail(queue), j)
      /\ \A j \in Jobs : Holds(Tail(queue), j) => h < j
  BY <1>1, QueueTail
<1>3. /\ held' = h /\ queue' = Tail(queue) /\ st' = [st EXCEPT ![h] = "held"]
      /\ made' = made /\ permits' = permits /\ at' = at /\ control' = control
  BY DEF Receive
<1> HIDE DEF h
<1>4. /\ st' \in [Jobs -> JobState] /\ st'[h] = "held" /\ st[h] = "queued"
      /\ \A j \in Jobs : j # h => st'[j] = st[j]
  BY <1>1, <1>2, <1>3 DEF IInv, TypeOK, JobState
<1>5. TypeOK'
  <2>1. Len(queue') <= Queue
    BY <1>1, <1>2, <1>3, LenProperties, WorkerAssumption DEF IInv, TypeOK
  <2>2. held' \in 0 .. NumJobs
    BY <1>2, <1>3, JobFacts
  <2> QED BY <2>1, <2>2, <1>2, <1>3, <1>4 DEF IInv, TypeOK
<1>6. JobsAccounted'
  <2>1. \A j \in Jobs : st'[j] = "none" <=> j > made'
    BY <1>2, <1>3, <1>4 DEF IInv, JobsAccounted
  <2>2. \A j \in Jobs : st'[j] = "queued" <=> Holds(queue', j)
    <3> SUFFICES ASSUME NEW j \in Jobs PROVE st'[j] = "queued" <=> Holds(queue', j)
      OBVIOUS
    <3>1. CASE j = h
      <4>1. ~Holds(Tail(queue), h)
        BY <1>2, JobFacts
      <4> QED BY <3>1, <4>1, <1>3, <1>4
    <3>2. CASE j # h
      BY <3>2, <1>1, <1>2, <1>3, <1>4
    <3> QED BY <3>1, <3>2
  <2>3. \A j \in Jobs : st'[j] = "held" <=> held' = j
    <3>1. \A j \in Jobs : st[j] # "held"
      BY <1>1, JobFacts DEF IInv, JobsAccounted
    <3> QED BY <3>1, <1>2, <1>3, <1>4
  <2> QED BY <2>1, <2>2, <2>3, <1>2, <1>3 DEF JobsAccounted, Ascending, Holds
<1>7. PermitsKept'
  <2>1. Running' = Running
    BY <1>2, <1>4 DEF Running
  <2> QED BY <2>1, <1>3 DEF IInv, PermitsKept
<1>8. TakenInOrder'
  <2> SUFFICES ASSUME NEW i \in Jobs, NEW j \in Jobs, i < j,
                      st'[j] \in Started \cup {"held"}
               PROVE  st'[i] \in Started \cup {"dropped"}
    BY DEF TakenInOrder
  <2>1. CASE j = h
    <3>1. i # h /\ ~(h < i)
      BY <2>1, <1>2, JobFacts
    <3>2. st[i] # "queued"
      BY <3>1, <1>1, <1>2
    <3>3. st[i] # "none"
      <4>1. ~(h > made)
        BY <1>2, <1>4 DEF IInv, JobsAccounted
      <4>2. ~(i > made)
        BY <4>1, <2>1, <1>2, JobFacts DEF IInv, TypeOK
      <4> QED BY <4>2 DEF IInv, JobsAccounted
    <3>4. st[i] # "held"
      BY <1>1, JobFacts DEF IInv, JobsAccounted
    <3>5. st[i] \in JobState
      BY DEF IInv, TypeOK
    <3> QED BY <3>1, <3>2, <3>3, <3>4, <3>5, <1>4 DEF JobState, Started
  <2>2. CASE j # h
    <3>1. st[i] \in Started \cup {"dropped"}
      BY <2>2, <1>4 DEF IInv, TakenInOrder
    <3>2. i # h
      BY <3>1, <1>4 DEF Started
    <3> QED BY <3>1, <3>2, <1>4
  <2> QED BY <2>1, <2>2
<1> QED BY <1>5, <1>6, <1>7, <1>8 DEF IInv

LEMMA SpawnPreserves ==
  ASSUME IInv, Spawn
  PROVE  IInv'
<1>1. /\ held # 0 /\ permits > 0 /\ permits' = permits - 1 /\ held' = 0
      /\ st' = [st EXCEPT ![held] = "running"]
      /\ made' = made /\ queue' = queue /\ at' = at /\ control' = control
  BY DEF Spawn
<1>2. held \in Jobs /\ st[held] = "held"
  BY <1>1, JobFacts DEF IInv, TypeOK, JobsAccounted
<1>3. /\ st' \in [Jobs -> JobState] /\ st'[held] = "running"
      /\ \A j \in Jobs : j # held => st'[j] = st[j]
  BY <1>1, <1>2 DEF IInv, TypeOK, JobState
<1>4. permits \in Nat /\ Permits \in Nat /\ permits' \in 0 .. Permits
  BY <1>1, WorkerAssumption DEF IInv, TypeOK
<1>5. TypeOK'
  BY <1>1, <1>3, <1>4, JobFacts DEF IInv, TypeOK
<1>6. JobsAccounted'
  <2>1. \A j \in Jobs : st'[j] = "held" <=> held' = j
    BY <1>1, <1>2, <1>3, JobFacts DEF IInv, JobsAccounted
  <2>2. \A j \in Jobs : /\ st'[j] = "none" <=> st[j] = "none"
                        /\ st'[j] = "queued" <=> st[j] = "queued"
    BY <1>2, <1>3
  <2> QED BY <2>1, <2>2, <1>1 DEF IInv, JobsAccounted
<1>7. PermitsKept'
  <2>1. Running' = Running \cup {held} /\ held \notin Running
    BY <1>2, <1>3 DEF Running
  <2>2. Cardinality(Running') = Cardinality(Running) + 1
    BY <2>1, RunningFinite, FS_AddElement
  <2>3. Cardinality(Running) \in Nat
    BY RunningFinite, FS_CardinalityType
  <2> QED BY <2>2, <2>3, <1>1, <1>4 DEF IInv, PermitsKept
<1>8. TakenInOrder'
  BY <1>2, <1>3 DEF IInv, TakenInOrder, Started
<1> QED BY <1>5, <1>6, <1>7, <1>8 DEF IInv

LEMMA PostPreserves ==
  ASSUME IInv, NEW j \in Jobs, PostAnswered(j)
  PROVE  IInv'
<1>1. /\ st[j] = "running"
      /\ made' = made /\ queue' = queue /\ held' = held /\ control' = control
  BY DEF PostAnswered
<1>2. \/ at' = [at EXCEPT ![j] = @ + 1] /\ st' = st /\ permits' = permits
      \/ /\ at' = at /\ permits' = permits + 1
         /\ \E s \in {"accepted", "failed"} : st' = [st EXCEPT ![j] = s]
  BY DEF PostAnswered, PostEnds
<1>3. at' \in [Jobs -> Nat]
  BY <1>2 DEF IInv, TypeOK
<1>4. CASE st' = st /\ permits' = permits
  <2>1. TypeOK' /\ JobsAccounted' /\ TakenInOrder'
    BY <1>1, <1>3, <1>4 DEF IInv, TypeOK, JobsAccounted, TakenInOrder
  <2>2. PermitsKept'
    BY <1>4 DEF IInv, PermitsKept, Running
  <2> QED BY <2>1, <2>2 DEF IInv
<1>5. ASSUME NEW s \in {"accepted", "failed"}, st' = [st EXCEPT ![j] = s],
             permits' = permits + 1
      PROVE  IInv'
  <2>1. /\ st' \in [Jobs -> JobState] /\ st'[j] = s
        /\ \A i \in Jobs : i # j => st'[i] = st[i]
    BY <1>5 DEF IInv, TypeOK, JobState
  <2>2. Running' = Running \ {j} /\ j \in Running
    BY <1>1, <2>1 DEF Running
  <2>3. Cardinality(Running') = Cardinality(Running) - 1 /\ Cardinality(Running) \in Nat
    BY <2>2, RunningFinite, FS_RemoveElement, FS_CardinalityType
  <2>4. Cardinality(Running') \in Nat
    <3>1. IsFiniteSet(Running')
      BY <2>2, RunningFinite, FS_Subset
    <3> QED BY <3>1, FS_CardinalityType
  <2>5. PermitsKept' /\ permits' \in 0 .. Permits
    BY <1>5, <2>3, <2>4, WorkerAssumption DEF IInv, PermitsKept
  <2>6. TypeOK'
    BY <1>1, <1>3, <2>1, <2>5 DEF IInv, TypeOK
  <2>7. JobsAccounted'
    <3>1. \A i \in Jobs : /\ st'[i] = "held" <=> st[i] = "held"
                          /\ st'[i] = "none" <=> st[i] = "none"
                          /\ st'[i] = "queued" <=> st[i] = "queued"
      BY <1>1, <2>1
    <3> QED BY <3>1, <1>1 DEF IInv, JobsAccounted
  <2>8. TakenInOrder'
    BY <1>1, <2>1 DEF IInv, TakenInOrder, Started
  <2> QED BY <2>5, <2>6, <2>7, <2>8 DEF IInv
<1> QED BY <1>2, <1>4, <1>5

\* The control message has its own task and touches no job.
LEMMA OthersPreserve ==
  ASSUME IInv, ControlSpawned \/ ControlAnswered \/ ControlRetries \/ UNCHANGED vars
  PROVE  IInv'
<1>1. /\ made' = made /\ queue' = queue /\ held' = held /\ permits' = permits
      /\ st' = st /\ at' = at
  BY DEF ControlSpawned, ControlAnswered, ControlRetries, vars
<1>2. control'.st \in ControlState
  <2>1. CASE ControlAnswered
    <3>1. PICK a \in AnswersAt(control.at) :
            control' = IF GoesOn(a, control.at) THEN [control EXCEPT !.at = @ + 1]
                       ELSE [control EXCEPT !.st = IF a = "ok" THEN "accepted" ELSE "sleeping"]
      BY <2>1 DEF ControlAnswered
    <3>2. CASE GoesOn(a, control.at)
      BY <3>1, <3>2 DEF IInv, TypeOK
    <3>3. CASE ~GoesOn(a, control.at)
      BY <3>1, <3>3 DEF IInv, TypeOK, ControlState
    <3> QED BY <3>2, <3>3
  <2>2. CASE ControlRetries
    BY <2>2 DEF ControlRetries, ControlState
  <2>3. CASE ControlSpawned
    BY <2>3 DEF ControlSpawned, ControlState, IInv, TypeOK
  <2>4. CASE UNCHANGED vars
    BY <2>4 DEF vars, IInv, TypeOK
  <2> QED BY <2>1, <2>2, <2>3, <2>4
<1>3. TypeOK' /\ JobsAccounted' /\ TakenInOrder'
  BY <1>1, <1>2 DEF IInv, TypeOK, JobsAccounted, TakenInOrder
<1>4. PermitsKept'
  BY <1>1 DEF IInv, PermitsKept, Running
<1> QED BY <1>3, <1>4 DEF IInv

LEMMA StepPreserves == IInv /\ [Next]_vars => IInv'
<1> SUFFICES ASSUME IInv, [Next]_vars PROVE IInv'
  OBVIOUS
<1>1. CASE EnqueuePost
  BY <1>1, EnqueuePreserves
<1>2. CASE Receive
  BY <1>2, ReceivePreserves
<1>3. CASE Spawn
  BY <1>3, SpawnPreserves
<1>4. ASSUME NEW j \in Jobs, PostAnswered(j) PROVE IInv'
  BY <1>4, PostPreserves
<1>5. CASE ControlSpawned \/ ControlAnswered \/ ControlRetries \/ UNCHANGED vars
  BY <1>5, OthersPreserve
<1> QED BY <1>1, <1>2, <1>3, <1>4, <1>5 DEF Next

LEMMA Inductive == Spec => []IInv
BY InitEstablishes, StepPreserves, PTL DEF Spec

\* The queue never exceeds its bound, and the worker's values stay in their
\* ranges.
THEOREM TypeCorrect == Spec => []TypeOK
<1>1. IInv => TypeOK
  BY DEF IInv
<1> QED BY <1>1, Inductive, PTL

\* No more than POST_CONCURRENCY posts are under way, and no permit is lost,
\* however the posts end.
THEOREM PermitsAreKept == Spec => []PermitsKept
<1>1. IInv => PermitsKept
  BY DEF IInv
<1> QED BY <1>1, Inductive, PTL

\* Every packet handed over is in one place, and the queue is in its order.
THEOREM JobsAreAccounted == Spec => []JobsAccounted
<1>1. IInv => JobsAccounted
  BY DEF IInv
<1> QED BY <1>1, Inductive, PTL

\* Packets start in their order.
THEOREM StartsAreInOrder == Spec => []StartedInOrder
<1>1. IInv => StartedInOrder
  BY DEF IInv, TakenInOrder, StartedInOrder
<1> QED BY <1>1, Inductive, PTL

-----------------------------------------------------------------------------
(* The pool (SiPool), over whatever the registry comes to hold.            *)

\* An entry list is what the first records were, if they were usable and
\* distinct.
Listing == listed <= Len(registry) /\ Pool!ListComplete

\* A caller has candidates only while it qualifies them, an entry only while
\* it uses it, and what failed it is still cooling down.
Choosing ==
  \A c \in Pool!Callers :
    /\ pc[c] # "qualify" => order[c] = {}
    /\ pc[c] \in {"use", "up"} <=> entry[c] # None
    /\ struck[c] \subseteq cooldown

PoolInv == Pool!TypeOK /\ Listing /\ Choosing /\ Pool!OneStrike

LEMMA PoolFacts ==
  /\ PageSize \in Nat /\ PageSize >= 1 /\ MaxTries \in Nat /\ MaxTries >= 1
  /\ MaxRecords \in Nat
  /\ Unnamed \notin Nodes /\ None \notin Nodes
  /\ Posts \cap Workers = {} /\ Pool!Callers = Posts \cup Workers
BY MCPoolNames, MCPoolBounds DEF Pool!PoolNamesAssumption, Pool!PoolBoundsAssumption, Pool!Callers

\* The module of the pool counts like this one.
LEMMA SameCardinality == \A S : Pool!Cardinality(S) = Cardinality(S)
BY DEF Pool!Cardinality, Cardinality

\* Every position is on one page.
LEMMA PageOf ==
  ASSUME NEW i \in Nat, i >= 1
  PROVE  \E n \in Nat : n < i /\ n * PageSize < i /\ i <= (n + 1) * PageSize
<1> DEFINE n == (i - 1) \div PageSize
<1>1. PageSize \in Nat /\ PageSize >= 1
  BY PoolFacts
<1>2. /\ n \in Nat /\ (i - 1) % PageSize \in 0 .. PageSize - 1
      /\ i - 1 = n * PageSize + ((i - 1) % PageSize)
  BY <1>1
<1> HIDE DEF n
<1>3. n * PageSize \in Nat /\ n * PageSize >= n /\ (n + 1) * PageSize = n * PageSize + PageSize
  BY <1>1, <1>2
<1>4. n < i /\ n * PageSize < i /\ i <= (n + 1) * PageSize
  BY <1>1, <1>2, <1>3
<1> QED BY <1>2, <1>4

\* The pages before a position end before it.
LEMMA PageBefore ==
  ASSUME NEW n \in Nat, NEW m \in Nat, m < n
  PROVE  /\ m * PageSize \in Nat /\ n * PageSize \in Nat
         /\ (m + 1) * PageSize = m * PageSize + PageSize
         /\ m * PageSize + PageSize <= n * PageSize
<1>1. PageSize \in Nat /\ PageSize >= 1
  BY PoolFacts
<1>2. (m + 1) * PageSize = m * PageSize + PageSize
  BY <1>1
<1>3. n * PageSize - (m + 1) * PageSize = (n - (m + 1)) * PageSize
  BY <1>1
<1>4. (n - (m + 1)) * PageSize >= 0
  BY <1>1
<1> QED BY <1>1, <1>2, <1>3, <1>4

\* A refresh lists entries of records.
LEMMA CollectedNamed ==
  ASSUME NEW r \in Seq(Nodes \cup {Unnamed})
  PROVE  /\ Pool!Collected(r) \subseteq Nodes
         /\ Pool!Collected(r) \subseteq Pool!ToSet(r)
<1>1. \A i \in DOMAIN r : r[i] \in Nodes \cup {Unnamed}
  BY ElementOfSeq, LenProperties
<1> QED BY <1>1 DEF Pool!Collected, Pool!Added, Pool!Page, Pool!ToSet

\* Of distinct usable records it lists all.
LEMMA CollectedAll ==
  ASSUME NEW r \in Seq(Nodes \cup {Unnamed}),
         Unnamed \notin Pool!ToSet(r), Pool!IsInjective(r)
  PROVE  Pool!Collected(r) = Pool!ToSet(r)
<1>1. Len(r) \in Nat /\ DOMAIN r = 1 .. Len(r) /\ PageSize \in Nat /\ PageSize >= 1
  BY LenProperties, PoolFacts
<1>2. /\ \A i \in DOMAIN r : r[i] # Unnamed
      /\ \A i, j \in DOMAIN r : r[i] = r[j] => i = j
  BY DEF Pool!ToSet, Pool!IsInjective
<1>3. ASSUME NEW n \in Nat, NEW i \in DOMAIN r,
             n * PageSize < i, i <= (n + 1) * PageSize
      PROVE  r[i] \in Pool!Added(r, n)
  <2>1. i \in Pool!Page(r, n)
    BY <1>2, <1>3 DEF Pool!Page
  <2>2. n * PageSize \in Nat /\ i \in Nat
    BY <1>1
  <2>3. r[i] \notin {r[j] : j \in {k \in DOMAIN r : k <= n * PageSize}}
    BY <1>1, <1>2, <1>3, <2>2
  <2> QED BY <2>1, <2>3 DEF Pool!Added
<1>4. ASSUME NEW m \in Nat, m * PageSize + PageSize <= Len(r)
      PROVE  ~Pool!LastPage(r, m)
  <2>1. m * PageSize \in Nat /\ (m + 1) * PageSize = m * PageSize + PageSize
    BY PageBefore
  <2> DEFINE b == m * PageSize
  <2>2. Pool!Page(r, m) = b + 1 .. b + PageSize
    <3> HIDE DEF b
    <3>1. b \in Nat /\ b + PageSize <= Len(r)
      BY <1>4, <2>1 DEF b
    <3>2. Pool!Page(r, m) = {i \in DOMAIN r : b < i /\ i <= b + PageSize /\ r[i] # Unnamed}
      BY <2>1 DEF Pool!Page, b
    <3> QED BY <1>1, <1>2, <3>1, <3>2
  <2>3. Cardinality(Pool!Page(r, m)) = PageSize
    <3> HIDE DEF b
    <3>1. b + 1 \in Int /\ b + PageSize \in Int /\ ~(b + 1 > b + PageSize)
          /\ (b + PageSize) - (b + 1) + 1 = PageSize
      BY <1>1, <2>1 DEF b
    <3> QED BY <2>2, <3>1, FS_Interval
  <2>4. r[b + PageSize] \in Pool!Added(r, m)
    <3>1. b + PageSize \in DOMAIN r /\ b < b + PageSize /\ b + PageSize <= (m + 1) * PageSize
      BY <1>1, <1>4, <2>1
    <3> QED BY <1>3, <3>1
  <2>5. ~(Pool!Cardinality(Pool!Page(r, m)) < PageSize)
    BY <1>1, <2>3, SameCardinality
  <2> QED BY <2>4, <2>5 DEF Pool!LastPage
<1>5. ASSUME NEW i \in DOMAIN r PROVE r[i] \in Pool!Collected(r)
  <2>1. PICK n \in Nat : n < i /\ n * PageSize < i /\ i <= (n + 1) * PageSize
    <3>1. i \in Nat /\ i >= 1
      BY <1>1
    <3> QED BY <3>1, PageOf
  <2>2. n \in 0 .. Len(r) /\ i <= Len(r)
    BY <1>1, <2>1
  <2>3. ASSUME NEW m \in 0 .. n - 1 PROVE ~Pool!LastPage(r, m)
    <3>1. m \in Nat /\ m < n
      OBVIOUS
    <3>2. m * PageSize + PageSize <= Len(r)
      BY <1>1, <2>1, <2>2, <3>1, PageBefore
    <3> QED BY <1>4, <3>1, <3>2
  <2>4. r[i] \in Pool!Added(r, n)
    BY <1>3, <2>1
  <2> QED BY <2>2, <2>3, <2>4 DEF Pool!Collected
<1> QED BY <1>5, CollectedNamed DEF Pool!ToSet

\* The first n records of a sequence.
LEMMA Prefix ==
  ASSUME NEW S, NEW r \in Seq(S), NEW n \in 0 .. Len(r)
  PROVE  /\ SubSeq(r, 1, n) \in Seq(S) /\ Len(SubSeq(r, 1, n)) = n
         /\ DOMAIN SubSeq(r, 1, n) = 1 .. n
         /\ \A i \in 1 .. n : SubSeq(r, 1, n)[i] = r[i]
<1>1. Len(r) \in Nat /\ DOMAIN r = 1 .. Len(r) /\ n \in Nat /\ n <= Len(r)
  BY LenProperties
<1>2. \A i \in 1 .. n : r[i] \in S
  BY <1>1, ElementOfSeq
<1>3. SubSeq(r, 1, n) = [i \in 1 .. n |-> r[i]]
  BY <1>1
<1>4. SubSeq(r, 1, n) \in [1 .. n -> S]
  BY <1>2, <1>3
<1>5. SubSeq(r, 1, n) \in Seq(S)
  BY <1>1, <1>4, SeqDef
<1>6. Len(SubSeq(r, 1, n)) = n
  BY <1>1, <1>3, <1>5, LenProperties
<1> QED BY <1>3, <1>5, <1>6

\* What a refresh lists is complete, wherever the records end.
LEMMA Refreshed ==
  ASSUME PoolInv, NEW n \in Pool!Answered, Pool!Install(n), UNCHANGED registry
  PROVE  /\ nodes' \subseteq Nodes /\ listed' \in 0 .. MaxRecords /\ fresh' \in BOOLEAN
         /\ Listing' /\ cooldown' = cooldown
<1> DEFINE r == SubSeq(registry, 1, n)
<1>1. /\ registry \in Seq(Nodes \cup {Unnamed}) /\ Len(registry) <= MaxRecords
      /\ Len(registry) \in Nat /\ DOMAIN registry = 1 .. Len(registry)
  BY LenProperties DEF PoolInv, Pool!TypeOK
<1>2. n \in 0 .. Len(registry)
  BY <1>1 DEF Pool!Answered
<1>3. /\ nodes' = Pool!Collected(r) /\ listed' = n /\ fresh' = TRUE /\ cooldown' = cooldown
  BY DEF Pool!Install
<1>4. /\ r \in Seq(Nodes \cup {Unnamed}) /\ DOMAIN r = 1 .. n
      /\ \A i \in 1 .. n : r[i] = registry[i]
  BY <1>1, <1>2, Prefix
<1> HIDE DEF r
<1>5. Pool!Clean => Unnamed \notin Pool!ToSet(r) /\ Pool!IsInjective(r)
  <2>1. \A i \in 1 .. n : i \in DOMAIN registry
    BY <1>1, <1>2
  <2> QED BY <1>4, <2>1 DEF Pool!Clean, Pool!ToSet, Pool!IsInjective
<1>6. Pool!Clean => Pool!Collected(r) = Pool!ToSet(r)
  BY <1>4, <1>5, CollectedAll
<1>7. Listing'
  <2>1. Pool!Clean' = Pool!Clean /\ SubSeq(registry, 1, listed)' = r
    BY <1>3 DEF Pool!Clean, Pool!ToSet, Pool!IsInjective, r
  <2>2. (listed <= Len(registry))'
    BY <1>1, <1>2, <1>3
  <2> QED BY <1>3, <1>6, <2>1, <2>2 DEF Listing, Pool!ListComplete, Pool!ToSet
<1>8. listed' \in 0 .. MaxRecords
  BY <1>1, <1>2, <1>3, PoolFacts
<1> QED BY <1>3, <1>4, <1>7, <1>8, CollectedNamed

\* A record more leaves the list what it was.
LEMMA RecordAdded ==
  ASSUME PoolInv, NEW x \in Nodes \cup {Unnamed}, Pool!Register(x)
  PROVE  PoolInv'
<1>1. /\ registry \in Seq(Nodes \cup {Unnamed}) /\ Len(registry) < MaxRecords
      /\ registry' = Append(registry, x) /\ Len(registry) \in Nat
      /\ DOMAIN registry = 1 .. Len(registry) /\ listed \in Nat /\ listed <= Len(registry)
  BY LenProperties DEF PoolInv, Listing, Pool!TypeOK, Pool!Register
<1>2. UNCHANGED <<settled, nodes, fresh, cooldown, listed, pc, order, entry, exclude,
                  tries, struck>>
  BY DEF Pool!Register, Pool!pool, Pool!choice
<1>3. /\ registry' \in Seq(Nodes \cup {Unnamed}) /\ Len(registry') = Len(registry) + 1
      /\ \A i \in 1 .. Len(registry) : registry'[i] = registry[i]
  BY <1>1, AppendProperties
<1>4. Len(registry') <= MaxRecords /\ listed <= Len(registry')
  BY <1>1, <1>3, PoolFacts
<1>5. Pool!TypeOK'
  BY <1>2, <1>3, <1>4 DEF PoolInv, Pool!TypeOK
<1>6. Listing'
  <2>1. DOMAIN registry' = 1 .. (Len(registry) + 1)
    BY <1>3, LenProperties
  <2>2. \A i \in DOMAIN registry : i \in DOMAIN registry' /\ registry'[i] = registry[i]
    BY <1>1, <1>3, <2>1
  <2>3. Pool!Clean' => Pool!Clean
    BY <2>2 DEF Pool!Clean, Pool!ToSet, Pool!IsInjective
  <2>4. SubSeq(registry', 1, listed) = SubSeq(registry, 1, listed)
    <3>1. \A i \in 1 .. listed : registry'[i] = registry[i]
      BY <1>1, <1>3
    <3> QED BY <1>1, <1>3, <3>1
  <2> QED BY <1>2, <1>4, <2>3, <2>4 DEF PoolInv, Listing, Pool!ListComplete, Pool!ToSet
<1>7. Choosing' /\ Pool!OneStrike'
  BY <1>2 DEF PoolInv, Choosing, Pool!OneStrike
<1> QED BY <1>5, <1>6, <1>7 DEF PoolInv

\* As long as no record is added and no list is read.
LEMMA ListStands ==
  ASSUME PoolInv, UNCHANGED <<registry, nodes, listed>>
  PROVE  /\ registry' \in Seq(Nodes \cup {Unnamed}) /\ Len(registry') <= MaxRecords
         /\ nodes' \subseteq Nodes /\ listed' \in 0 .. MaxRecords /\ Listing'
BY DEF PoolInv, Pool!TypeOK, Listing, Pool!ListComplete, Pool!Clean, Pool!ToSet,
       Pool!IsInjective

Pc == {"idle", "pick", "qualify", "use", "up", "done"}

LEMMA CallerFacts ==
  ASSUME PoolInv
  PROVE  /\ pc \in [Pool!Callers -> Pc] /\ order \in [Pool!Callers -> SUBSET Nodes]
         /\ entry \in [Pool!Callers -> Nodes \cup {None}]
         /\ exclude \in [Pool!Callers -> Nodes \cup {None}]
         /\ struck \in [Pool!Callers -> SUBSET Nodes]
         /\ tries \in [Posts -> 0 .. MaxTries - 1]
         /\ cooldown \subseteq Nodes /\ nodes \subseteq Nodes
         /\ {settled, fresh} \subseteq BOOLEAN
         /\ \A c \in Pool!Callers :
              /\ pc[c] # "qualify" => order[c] = {}
              /\ pc[c] \in {"use", "up"} <=> entry[c] # None
              /\ struck[c] \subseteq cooldown
              /\ (order[c] \cup {entry[c]}) \cap struck[c] = {}
BY DEF PoolInv, Pool!TypeOK, Choosing, Pool!OneStrike, Pc

\* One caller moves, and entries may fail.
LEMMA CallerMoves ==
  ASSUME PoolInv, NEW c \in Pool!Callers,
         UNCHANGED settled, fresh' \in BOOLEAN,
         registry' \in Seq(Nodes \cup {Unnamed}), Len(registry') <= MaxRecords,
         nodes' \subseteq Nodes, listed' \in 0 .. MaxRecords, Listing',
         cooldown \subseteq cooldown', cooldown' \subseteq Nodes,
         pc' \in [Pool!Callers -> Pc], order' \in [Pool!Callers -> SUBSET Nodes],
         entry' \in [Pool!Callers -> Nodes \cup {None}],
         exclude' \in [Pool!Callers -> Nodes \cup {None}],
         struck' \in [Pool!Callers -> SUBSET Nodes],
         tries' \in [Posts -> 0 .. MaxTries - 1],
         \A d \in Pool!Callers \ {c} :
           /\ pc'[d] = pc[d] /\ order'[d] = order[d] /\ entry'[d] = entry[d]
           /\ struck'[d] = struck[d],
         pc'[c] # "qualify" => order'[c] = {},
         pc'[c] \in {"use", "up"} <=> entry'[c] # None,
         struck'[c] \subseteq cooldown',
         (order'[c] \cup {entry'[c]}) \cap struck'[c] = {}
  PROVE  PoolInv'
<1>1. {settled', fresh'} \subseteq BOOLEAN
  BY CallerFacts
<1>2. Pool!TypeOK'
  BY <1>1 DEF Pool!TypeOK, Pc
<1>3. ASSUME NEW d \in Pool!Callers
      PROVE  /\ pc'[d] # "qualify" => order'[d] = {}
             /\ pc'[d] \in {"use", "up"} <=> entry'[d] # None
             /\ struck'[d] \subseteq cooldown'
             /\ (order'[d] \cup {entry'[d]}) \cap struck'[d] = {}
  <2>1. CASE d = c
    BY <2>1
  <2>2. CASE d # c
    BY <2>2, CallerFacts
  <2> QED BY <2>1, <2>2
<1>4. Pool!Callers' = Pool!Callers
  BY DEF Pool!Callers
<1> QED BY <1>2, <1>3, <1>4 DEF PoolInv, Choosing, Pool!OneStrike

\* send_via_pool returns.
LEMMA PostOver ==
  ASSUME PoolInv, NEW j \in Posts, Pool!PostEnds(j),
         UNCHANGED <<registry, settled, nodes, fresh, listed>>,
         cooldown \subseteq cooldown', cooldown' \subseteq Nodes
  PROVE  PoolInv'
<1> USE PoolFacts
<1>1. j \in Pool!Callers
  OBVIOUS
<1>2. /\ pc' = [pc EXCEPT ![j] = "done"] /\ order' = [order EXCEPT ![j] = {}]
      /\ entry' = [entry EXCEPT ![j] = None] /\ exclude' = [exclude EXCEPT ![j] = None]
      /\ tries' = [tries EXCEPT ![j] = 0] /\ struck' = [struck EXCEPT ![j] = {}]
  BY DEF Pool!PostEnds
<1>3. /\ pc' \in [Pool!Callers -> Pc] /\ order' \in [Pool!Callers -> SUBSET Nodes]
      /\ entry' \in [Pool!Callers -> Nodes \cup {None}]
      /\ exclude' \in [Pool!Callers -> Nodes \cup {None}]
      /\ struck' \in [Pool!Callers -> SUBSET Nodes]
      /\ pc'[j] = "done" /\ order'[j] = {} /\ entry'[j] = None /\ struck'[j] = {}
      /\ \A d \in Pool!Callers \ {j} :
           /\ pc'[d] = pc[d] /\ order'[d] = order[d] /\ entry'[d] = entry[d]
           /\ struck'[d] = struck[d]
  BY <1>1, <1>2, CallerFacts DEF Pc
<1>4. tries' \in [Posts -> 0 .. MaxTries - 1]
  <2>1. 0 \in 0 .. MaxTries - 1
    OBVIOUS
  <2>2. tries \in [Posts -> 0 .. MaxTries - 1]
    BY CallerFacts
  <2> QED BY <1>2, <2>1, <2>2
<1>5. fresh' \in BOOLEAN
  BY CallerFacts
<1> QED BY <1>1, <1>3, <1>4, <1>5, ListStands, CallerMoves

\* An acquire that fails: a POST gives up, a worker asks again.
LEMMA AcquireFails ==
  ASSUME PoolInv, NEW c \in Pool!Callers, Pool!AcquireErrs(c),
         pc[c] \in {"idle", "qualify"}, order[c] = {},
         UNCHANGED <<registry, settled, nodes, fresh, cooldown, listed>>
  PROVE  PoolInv'
<1>1. CASE c \in Posts
  BY <1>1, PostOver, CallerFacts DEF Pool!AcquireErrs
<1>2. CASE c \notin Posts
  <2>1. /\ pc' = [pc EXCEPT ![c] = "idle"]
        /\ UNCHANGED <<order, entry, exclude, tries, struck>>
    BY <1>2 DEF Pool!AcquireErrs, Pool!choice
  <2>2. /\ pc' \in [Pool!Callers -> Pc] /\ pc'[c] = "idle"
        /\ \A d \in Pool!Callers \ {c} : pc'[d] = pc[d]
    BY <2>1, CallerFacts DEF Pc
  <2>3. entry[c] = None
    BY CallerFacts
  <2>4. fresh' \in BOOLEAN
    BY CallerFacts
  <2> QED BY <2>1, <2>2, <2>3, <2>4, ListStands, CallerFacts, CallerMoves
<1> QED BY <1>1, <1>2

\* acquire
LEMMA Acquires ==
  ASSUME PoolInv, NEW c \in Pool!Callers, Pool!AcquireStep(c)
  PROVE  PoolInv'
<1>1. CASE Pool!Refresh(c)
  <2>1. /\ pc[c] = "idle" /\ pc' = [pc EXCEPT ![c] = "pick"]
        /\ UNCHANGED <<registry, settled, order, entry, exclude, tries, struck>>
    BY <1>1 DEF Pool!Refresh, Pool!environment, Pool!choice
  <2>2. PICK n \in Pool!Answered : Pool!Install(n)
    BY <1>1 DEF Pool!Refresh
  <2>3. /\ nodes' \subseteq Nodes /\ listed' \in 0 .. MaxRecords /\ fresh' \in BOOLEAN
        /\ Listing' /\ cooldown' = cooldown
    BY <2>1, <2>2, Refreshed
  <2>4. registry' \in Seq(Nodes \cup {Unnamed}) /\ Len(registry') <= MaxRecords
    BY <2>1 DEF PoolInv, Pool!TypeOK
  <2>5. /\ pc' \in [Pool!Callers -> Pc] /\ pc'[c] = "pick"
        /\ \A d \in Pool!Callers \ {c} : pc'[d] = pc[d]
    BY <2>1, CallerFacts DEF Pc
  <2>6. entry[c] = None /\ order[c] = {}
    BY <2>1, CallerFacts
  <2> QED BY <2>1, <2>3, <2>4, <2>5, <2>6, CallerFacts, CallerMoves
<1>2. CASE Pool!RefreshFails(c)
  <2>1. /\ pc[c] = "idle" /\ Pool!AcquireErrs(c)
        /\ UNCHANGED <<registry, settled, nodes, fresh, cooldown, listed>>
    BY <1>2 DEF Pool!RefreshFails, Pool!environment, Pool!pool
  <2> QED BY <2>1, AcquireFails, CallerFacts
<1>3. CASE Pool!Pick(c)
  <2>1. /\ pc[c] \in {"idle", "pick"} /\ pc' = [pc EXCEPT ![c] = "qualify"]
        /\ order' = [order EXCEPT ![c] = Pool!Candidates(c)]
        /\ struck' = [struck EXCEPT ![c] = IF Pool!Cool(c) = {} THEN {} ELSE @]
        /\ UNCHANGED <<registry, settled, nodes, fresh, cooldown, listed, entry, exclude,
                       tries>>
    BY <1>3 DEF Pool!Pick, Pool!environment, Pool!pool
  <2>2. Pool!Candidates(c) \subseteq nodes
    BY DEF Pool!Candidates, Pool!Cool
  <2>3. /\ pc' \in [Pool!Callers -> Pc] /\ pc'[c] = "qualify"
        /\ order' \in [Pool!Callers -> SUBSET Nodes] /\ order'[c] = Pool!Candidates(c)
        /\ struck' \in [Pool!Callers -> SUBSET Nodes]
        /\ struck'[c] = IF Pool!Cool(c) = {} THEN {} ELSE struck[c]
        /\ \A d \in Pool!Callers \ {c} :
             pc'[d] = pc[d] /\ order'[d] = order[d] /\ struck'[d] = struck[d]
    BY <2>1, <2>2, CallerFacts DEF Pc
  <2>4. entry[c] = None /\ struck[c] \subseteq cooldown /\ struck[c] \subseteq Nodes
    BY <2>1, CallerFacts
  <2>5. (order'[c] \cup {entry'[c]}) \cap struck'[c] = {}
    <3>1. CASE Pool!Cool(c) = {}
      BY <2>3, <3>1
    <3>2. CASE Pool!Cool(c) # {}
      <4>1. order'[c] = Pool!Cool(c) /\ struck'[c] = struck[c]
        BY <2>3, <3>2 DEF Pool!Candidates
      <4> QED BY <2>1, <2>4, <4>1, PoolFacts DEF Pool!Cool
    <3> QED BY <3>1, <3>2
  <2>6. struck'[c] \subseteq cooldown' /\ fresh' \in BOOLEAN
    BY <2>1, <2>3, <2>4, CallerFacts
  <2> QED BY <2>1, <2>3, <2>4, <2>5, <2>6, ListStands, CallerFacts, CallerMoves
<1>4. ASSUME NEW e \in Nodes, Pool!Qualifies(c, e) PROVE PoolInv'
  <2>1. /\ pc[c] = "qualify" /\ e \in order[c] /\ entry' = [entry EXCEPT ![c] = e]
        /\ order' = [order EXCEPT ![c] = {}] /\ pc' = [pc EXCEPT ![c] = "use"]
        /\ UNCHANGED <<registry, settled, nodes, fresh, cooldown, listed, exclude, tries,
                       struck>>
    BY <1>4 DEF Pool!Qualifies, Pool!environment, Pool!pool
  <2>2. /\ pc' \in [Pool!Callers -> Pc] /\ pc'[c] = "use"
        /\ order' \in [Pool!Callers -> SUBSET Nodes] /\ order'[c] = {}
        /\ entry' \in [Pool!Callers -> Nodes \cup {None}] /\ entry'[c] = e
        /\ \A d \in Pool!Callers \ {c} :
             pc'[d] = pc[d] /\ order'[d] = order[d] /\ entry'[d] = entry[d]
    BY <2>1, CallerFacts DEF Pc
  <2>3. e # None /\ e \notin struck[c] /\ fresh' \in BOOLEAN
    BY <2>1, CallerFacts, PoolFacts
  <2> QED BY <2>1, <2>2, <2>3, ListStands, CallerFacts, CallerMoves
<1>5. ASSUME NEW e \in Nodes, Pool!Disqualifies(c, e) PROVE PoolInv'
  <2>1. /\ pc[c] = "qualify" /\ e \in order[c] /\ cooldown' = cooldown \cup {e}
        /\ struck' = [struck EXCEPT ![c] = @ \cup {e}]
        /\ order' = [order EXCEPT ![c] = @ \ {e}]
        /\ UNCHANGED <<registry, settled, nodes, fresh, listed, pc, entry, exclude, tries>>
    BY <1>5 DEF Pool!Disqualifies, Pool!MarkFailed, Pool!environment
  <2>2. /\ order' \in [Pool!Callers -> SUBSET Nodes] /\ order'[c] = order[c] \ {e}
        /\ struck' \in [Pool!Callers -> SUBSET Nodes] /\ struck'[c] = struck[c] \cup {e}
        /\ \A d \in Pool!Callers \ {c} : order'[d] = order[d] /\ struck'[d] = struck[d]
    BY <2>1, CallerFacts
  <2>3. /\ entry[c] = None /\ e # None /\ fresh' \in BOOLEAN
        /\ cooldown' \subseteq Nodes /\ struck'[c] \subseteq cooldown'
    BY <2>1, <2>2, CallerFacts, PoolFacts
  <2>4. (order'[c] \cup {entry'[c]}) \cap struck'[c] = {}
    BY <2>1, <2>2, <2>3, CallerFacts
  <2> QED BY <2>1, <2>2, <2>3, <2>4, ListStands, CallerFacts, CallerMoves
<1>6. CASE Pool!NoneQualified(c)
  <2>1. /\ pc[c] = "qualify" /\ order[c] = {} /\ Pool!AcquireErrs(c)
        /\ UNCHANGED <<registry, settled, nodes, fresh, cooldown, listed>>
    BY <1>6 DEF Pool!NoneQualified, Pool!environment, Pool!pool
  <2> QED BY <2>1, AcquireFails
<1> QED BY <1>1, <1>2, <1>3, <1>4, <1>5, <1>6 DEF Pool!AcquireStep

\* The caller's entry fails it: it is marked, excluded and given up.
LEMMA EntryFails ==
  ASSUME PoolInv, NEW c \in Pool!Callers, pc[c] \in {"use", "up"},
         Pool!MarkFailed(c, entry[c]),
         exclude' = [exclude EXCEPT ![c] = entry[c]],
         entry' = [entry EXCEPT ![c] = None],
         pc' = [pc EXCEPT ![c] = "idle"],
         tries' \in [Posts -> 0 .. MaxTries - 1],
         UNCHANGED <<registry, settled, nodes, fresh, listed, order>>
  PROVE  PoolInv'
<1>1. entry[c] \in Nodes /\ order[c] = {} /\ struck[c] \subseteq cooldown
  BY CallerFacts
<1>2. /\ cooldown' = cooldown \cup {entry[c]}
      /\ struck' = [struck EXCEPT ![c] = @ \cup {entry[c]}]
  BY DEF Pool!MarkFailed
<1>3. /\ pc' \in [Pool!Callers -> Pc] /\ pc'[c] = "idle"
      /\ entry' \in [Pool!Callers -> Nodes \cup {None}] /\ entry'[c] = None
      /\ exclude' \in [Pool!Callers -> Nodes \cup {None}]
      /\ struck' \in [Pool!Callers -> SUBSET Nodes]
      /\ struck'[c] = struck[c] \cup {entry[c]}
      /\ \A d \in Pool!Callers \ {c} :
           pc'[d] = pc[d] /\ entry'[d] = entry[d] /\ struck'[d] = struck[d]
  BY <1>1, <1>2, CallerFacts DEF Pc
<1>4. /\ cooldown' \subseteq Nodes /\ struck'[c] \subseteq cooldown'
      /\ None \notin struck'[c] /\ order'[c] = {} /\ fresh' \in BOOLEAN
  BY <1>1, <1>2, <1>3, CallerFacts, PoolFacts
<1> QED BY <1>2, <1>3, <1>4, ListStands, CallerFacts, CallerMoves

\* A POST with the entry it acquired.
LEMMA Posting ==
  ASSUME PoolInv, NEW j \in Posts, Pool!PostAccepted(j) \/ Pool!PostRefused(j)
  PROVE  PoolInv'
<1>1. /\ j \in Pool!Callers /\ pc[j] = "use"
      /\ UNCHANGED <<registry, settled, nodes, fresh, listed>>
  BY PoolFacts DEF Pool!PostAccepted, Pool!PostRefused, Pool!environment, Pool!pool
<1>2. entry[j] \in Nodes /\ cooldown \subseteq Nodes
  BY <1>1, CallerFacts
<1>3. CASE Pool!PostEnds(j) /\ cooldown' \in {cooldown, cooldown \cup {entry[j]}}
  BY <1>1, <1>2, <1>3, PostOver
<1>4. CASE Pool!MayTryAgain(j) /\ Pool!TryAnother(j)
  <2>1. /\ Pool!MarkFailed(j, entry[j]) /\ tries[j] + 1 < MaxTries
        /\ exclude' = [exclude EXCEPT ![j] = entry[j]]
        /\ entry' = [entry EXCEPT ![j] = None]
        /\ tries' = [tries EXCEPT ![j] = @ + 1]
        /\ pc' = [pc EXCEPT ![j] = "idle"] /\ UNCHANGED order
    BY <1>4 DEF Pool!TryAnother, Pool!MayTryAgain
  <2>2. tries \in [Posts -> 0 .. MaxTries - 1]
    BY CallerFacts
  <2>3. tries[j] + 1 \in 0 .. MaxTries - 1
    BY <2>1, <2>2, PoolFacts
  <2>4. tries' \in [Posts -> 0 .. MaxTries - 1]
    BY <2>1, <2>2, <2>3
  <2> QED BY <1>1, <2>1, <2>4, EntryFails
<1> QED BY <1>3, <1>4 DEF Pool!PostAccepted, Pool!PostRefused, Pool!pool

\* A worker with the entry it acquired.
LEMMA Listening ==
  ASSUME PoolInv, NEW w \in Workers,
         \/ Pool!ListenOpens(w) \/ Pool!ListenFails(w)
         \/ Pool!ListenEnds(w) \/ Pool!PoolFull(w)
  PROVE  PoolInv'
<1>1. /\ w \in Pool!Callers /\ pc[w] \in {"use", "up"}
      /\ UNCHANGED <<registry, settled, nodes, fresh, listed, order, tries>>
  BY PoolFacts DEF Pool!ListenOpens, Pool!ListenFails, Pool!ListenEnds, Pool!PoolFull,
                   Pool!environment, Pool!pool
<1>2. entry[w] \in Nodes /\ order[w] = {} /\ fresh' \in BOOLEAN
  BY <1>1, CallerFacts
<1>3. CASE Pool!ListenFails(w)
  BY <1>1, <1>3, EntryFails, CallerFacts DEF Pool!ListenFails
<1>4. CASE Pool!ListenOpens(w)
  <2>1. /\ pc' = [pc EXCEPT ![w] = "up"] /\ exclude' = [exclude EXCEPT ![w] = None]
        /\ UNCHANGED <<entry, struck, cooldown>>
    BY <1>4 DEF Pool!ListenOpens, Pool!pool
  <2>2. /\ pc' \in [Pool!Callers -> Pc] /\ pc'[w] = "up"
        /\ exclude' \in [Pool!Callers -> Nodes \cup {None}]
        /\ \A d \in Pool!Callers \ {w} : pc'[d] = pc[d]
    BY <1>1, <2>1, CallerFacts DEF Pc
  <2>3. entry[w] # None
    BY <1>2, PoolFacts
  <2> QED BY <1>1, <1>2, <2>1, <2>2, <2>3, ListStands, CallerFacts, CallerMoves
<1>5. CASE Pool!ListenEnds(w) \/ Pool!PoolFull(w)
  <2>1. /\ \E p \in {"idle", "done"} : pc' = [pc EXCEPT ![w] = p]
        /\ entry' = [entry EXCEPT ![w] = None]
        /\ UNCHANGED <<exclude, struck, cooldown>>
    BY <1>5 DEF Pool!ListenEnds, Pool!PoolFull, Pool!pool
  <2>2. /\ pc' \in [Pool!Callers -> Pc] /\ pc'[w] \in {"idle", "done"}
        /\ entry' \in [Pool!Callers -> Nodes \cup {None}] /\ entry'[w] = None
        /\ \A d \in Pool!Callers \ {w} : pc'[d] = pc[d] /\ entry'[d] = entry[d]
    BY <1>1, <2>1, CallerFacts DEF Pc
  <2>3. None \notin struck[w]
    BY CallerFacts, PoolFacts
  <2> QED BY <1>1, <1>2, <2>1, <2>2, <2>3, ListStands, CallerFacts, CallerMoves
<1> QED BY <1>3, <1>4, <1>5

\* Time, the network and the refresh loop.
LEMMA PoolTurns ==
  ASSUME PoolInv,
         \/ Pool!Settle \/ Pool!GetOld \/ Pool!RefreshLoop
         \/ \E e \in Nodes : Pool!CoolDown(e)
         \/ UNCHANGED poolVars
  PROVE  PoolInv'
<1>1. /\ UNCHANGED <<registry, pc, order, entry, exclude, tries>>
      /\ {settled', fresh'} \subseteq BOOLEAN /\ cooldown' \subseteq Nodes
  BY CallerFacts DEF Pool!Settle, Pool!GetOld, Pool!RefreshLoop, Pool!CoolDown, Pool!Install,
                     Pool!environment, Pool!pool, Pool!choice, poolVars
<1>2. nodes' \subseteq Nodes /\ listed' \in 0 .. MaxRecords /\ Listing'
  <2>1. CASE Pool!RefreshLoop
    BY <1>1, <2>1, Refreshed DEF Pool!RefreshLoop
  <2>2. CASE ~Pool!RefreshLoop
    <3>1. UNCHANGED <<nodes, listed>>
      BY <2>2 DEF Pool!Settle, Pool!GetOld, Pool!CoolDown, Pool!pool, poolVars
    <3> QED BY <1>1, <3>1, ListStands
  <2> QED BY <2>1, <2>2
<1>3. /\ struck' \in [Pool!Callers -> SUBSET Nodes]
      /\ \A c \in Pool!Callers : struck'[c] \subseteq struck[c] /\ struck'[c] \subseteq cooldown'
  <2>1. ASSUME NEW e \in Nodes, Pool!CoolDown(e)
        PROVE  /\ struck' \in [Pool!Callers -> SUBSET Nodes]
               /\ \A c \in Pool!Callers :
                    struck'[c] \subseteq struck[c] /\ struck'[c] \subseteq cooldown'
    <3>1. /\ cooldown' = cooldown \ {e}
          /\ struck' = [c \in Pool!Callers |-> struck[c] \ {e}]
      BY <2>1 DEF Pool!CoolDown
    <3> QED BY <3>1, CallerFacts
  <2>2. CASE ~\E e \in Nodes : Pool!CoolDown(e)
    <3>1. UNCHANGED <<struck, cooldown>>
      BY <2>2 DEF Pool!Settle, Pool!GetOld, Pool!RefreshLoop, Pool!Install, Pool!pool,
                  Pool!choice, poolVars
    <3> QED BY <3>1, CallerFacts
  <2> QED BY <2>1, <2>2
<1>4. Pool!TypeOK'
  BY <1>1, <1>2, <1>3 DEF PoolInv, Pool!TypeOK
<1>5. Choosing' /\ Pool!OneStrike'
  <2>1. Pool!Callers' = Pool!Callers
    BY DEF Pool!Callers
  <2> QED BY <1>1, <1>3, <2>1, CallerFacts DEF Choosing, Pool!OneStrike
<1> QED BY <1>2, <1>4, <1>5 DEF PoolInv

LEMMA PoolInit == Pool!Init => PoolInv
<1> SUFFICES ASSUME Pool!Init PROVE PoolInv
  OBVIOUS
<1> USE PoolFacts
<1>1. registry \in Seq(Nodes \cup {Unnamed}) /\ Len(registry) <= MaxRecords
  <2>1. PICK n \in 0 .. MaxRecords : registry \in [1 .. n -> Nodes \cup {Unnamed}]
    BY DEF Pool!Init, Pool!BoundedSeq, Pool!SeqOf
  <2>2. registry \in Seq(Nodes \cup {Unnamed})
    BY <2>1, SeqDef
  <2>3. Len(registry) = n
    BY <2>1, <2>2, LenProperties
  <2> QED BY <2>2, <2>3
<1>2. /\ settled = FALSE /\ fresh = FALSE /\ nodes = {} /\ cooldown = {} /\ listed = 0
      /\ pc = [c \in Pool!Callers |-> "idle"] /\ order = [c \in Pool!Callers |-> {}]
      /\ entry = [c \in Pool!Callers |-> None] /\ exclude = [c \in Pool!Callers |-> None]
      /\ tries = [j \in Posts |-> 0] /\ struck = [c \in Pool!Callers |-> {}]
  BY DEF Pool!Init
<1>3. /\ settled \in BOOLEAN /\ fresh \in BOOLEAN /\ nodes \subseteq Nodes
      /\ cooldown \subseteq Nodes
      /\ pc \in [Pool!Callers -> Pc] /\ order \in [Pool!Callers -> SUBSET Nodes]
      /\ entry \in [Pool!Callers -> Nodes \cup {None}]
      /\ exclude \in [Pool!Callers -> Nodes \cup {None}]
      /\ struck \in [Pool!Callers -> SUBSET Nodes]
  BY <1>2 DEF Pc
<1>4. tries \in [Posts -> 0 .. MaxTries - 1] /\ listed \in 0 .. MaxRecords
  BY <1>2
<1>5. Pool!TypeOK
  BY <1>1, <1>3, <1>4 DEF Pool!TypeOK, Pc
<1>6. Listing
  <2>1. 0 \in 0 .. Len(registry)
    BY <1>1, LenProperties
  <2>2. DOMAIN SubSeq(registry, 1, 0) = 1 .. 0
    BY <1>1, <2>1, Prefix
  <2>3. nodes = Pool!ToSet(SubSeq(registry, 1, listed))
    BY <1>2, <2>2 DEF Pool!ToSet
  <2> QED BY <1>2, <2>1, <2>3 DEF Listing, Pool!ListComplete
<1>7. Choosing /\ Pool!OneStrike
  BY <1>2 DEF Choosing, Pool!OneStrike
<1> QED BY <1>5, <1>6, <1>7 DEF PoolInv

LEMMA PoolStep == PoolInv /\ [Pool!Next]_poolVars => PoolInv'
<1> SUFFICES ASSUME PoolInv, [Pool!Next]_poolVars PROVE PoolInv'
  OBVIOUS
<1>1. ASSUME NEW x \in Nodes \cup {Unnamed}, Pool!Register(x) PROVE PoolInv'
  BY <1>1, RecordAdded
<1>2. ASSUME NEW j \in Posts, Pool!JobStep(j) PROVE PoolInv'
  BY <1>2, PoolFacts, Acquires, Posting DEF Pool!JobStep
<1>3. ASSUME NEW w \in Workers,
             Pool!WorkerStep(w) \/ Pool!ListenFails(w) \/ Pool!ListenEnds(w)
      PROVE  PoolInv'
  BY <1>3, PoolFacts, Acquires, Listening DEF Pool!WorkerStep
<1> QED BY <1>1, <1>2, <1>3, PoolTurns DEF Pool!Next

\* The composition: only the half that is used takes steps.
THEOREM PoolInvariance == MCSpec => []PoolInv
<1>1. MCInit => PoolInv
  BY PoolInit DEF MCInit
<1>2. PoolInv /\ [MCNext]_<<pooled, vars, poolVars>> => PoolInv'
  <2>1. ASSUME [MCNext]_<<pooled, vars, poolVars>> PROVE [Pool!Next]_poolVars
    BY <2>1 DEF MCNext
  <2> QED BY <2>1, PoolStep
<1> QED BY <1>1, <1>2, PTL DEF MCSpec

\* refresh lists all of a registry of distinct usable records, wherever its
\* pages end; acquire offers a caller no entry that failed it and still cools
\* down, unless it has to take what is left.
THEOREM PoolServesAll == MCSpec => []PoolServes
<1>1. PoolInv => PoolServes
  BY DEF PoolInv, Listing, PoolServes
<1> QED BY <1>1, PoolInvariance, PTL

\* refresh returns before it writes when it has nothing: no list is lost.
THEOREM NoListLost == MCSpec => Pool!PoolKept
<1>1. [MCNext]_<<pooled, vars, poolVars>> => [nodes # {} => nodes' # {}]_nodes
  <2>1. ASSUME Pool!Next PROVE [nodes # {} => nodes' # {}]_nodes
    <3>1. \/ nodes' = nodes
          \/ \E n \in Pool!Answered : Pool!Install(n)
      <4>1. ASSUME NEW c \in Pool!Callers, Pool!AcquireStep(c)
            PROVE  nodes' = nodes \/ \E n \in Pool!Answered : Pool!Install(n)
        BY <4>1 DEF Pool!AcquireStep, Pool!Refresh, Pool!RefreshFails, Pool!Pick,
                    Pool!Qualifies, Pool!Disqualifies, Pool!NoneQualified, Pool!pool
      <4>2. CASE \/ \E x \in Nodes \cup {Unnamed} : Pool!Register(x)
                 \/ Pool!Settle \/ Pool!GetOld \/ Pool!RefreshLoop
                 \/ \E e \in Nodes : Pool!CoolDown(e)
        BY <4>2 DEF Pool!Register, Pool!Settle, Pool!GetOld, Pool!RefreshLoop, Pool!CoolDown,
                    Pool!pool
      <4>3. ASSUME NEW j \in Posts, Pool!PostAccepted(j) \/ Pool!PostRefused(j)
            PROVE  nodes' = nodes
        BY <4>3 DEF Pool!PostAccepted, Pool!PostRefused, Pool!pool
      <4>4. ASSUME NEW w \in Workers,
                   \/ Pool!ListenOpens(w) \/ Pool!ListenFails(w)
                   \/ Pool!ListenEnds(w) \/ Pool!PoolFull(w)
            PROVE  nodes' = nodes
        BY <4>4 DEF Pool!ListenOpens, Pool!ListenFails, Pool!ListenEnds, Pool!PoolFull,
                    Pool!pool
      <4>5. ASSUME NEW j \in Posts, Pool!JobStep(j)
            PROVE  nodes' = nodes \/ \E n \in Pool!Answered : Pool!Install(n)
        BY <4>1, <4>3, <4>5, PoolFacts DEF Pool!JobStep
      <4>6. ASSUME NEW w \in Workers,
                   Pool!WorkerStep(w) \/ Pool!ListenFails(w) \/ Pool!ListenEnds(w)
            PROVE  nodes' = nodes \/ \E n \in Pool!Answered : Pool!Install(n)
        BY <4>1, <4>4, <4>6, PoolFacts DEF Pool!WorkerStep
      <4> QED BY <2>1, <4>2, <4>5, <4>6 DEF Pool!Next
    <3> QED BY <3>1 DEF Pool!Install
  <2> QED BY <2>1 DEF MCNext, poolVars
<1> QED BY <1>1, PTL DEF MCSpec, Pool!PoolKept

=============================================================================

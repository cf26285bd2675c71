------------------------------ MODULE PostWorker ------------------------------
(***************************************************************************)
(* POSTs of armored packets and of duplex control messages through the     *)
(* configured entries: the queue in front of the POST worker, its permits, *)
(* the tasks it spawns (client.rs spawn_post_worker), one control message  *)
(* that is posted until it is accepted, and send_via_entries (post.rs) for *)
(* both.  SiPool has the tries over the pool of storage nodes.             *)
(*                                                                         *)
(* A job is the number of the packet it carries.  What the entries answer  *)
(* is chosen once per entry.                                               *)
(***************************************************************************)
EXTENDS Naturals, Sequences, FiniteSets

CONSTANTS
  NumJobs,     \* packets the TUN loop hands over
  Queue,       \* POST_QUEUE
  Permits,     \* POST_CONCURRENCY
  MaxEntries,  \* at most so many entries are configured
  AnswerSets   \* what one entry may answer: sets of Answer

\* error: refused, reset, or not 2xx, or an entry that is no URL.  timeout:
\* the message of the error says so, of the connection or of the answer.
Answer == {"ok", "error", "timeout"}

ASSUME WorkerAssumption ==
  /\ NumJobs \in Nat /\ Queue \in Nat /\ Permits \in Nat \ {0} /\ MaxEntries \in Nat
  /\ AnswerSets \subseteq (SUBSET Answer) \ {{}}

Jobs == 1 .. NumJobs

VARIABLES
  answers,   \* [entry -> what it may answer]
  made,      \* jobs handed over so far
  queue,     \* the channel
  held,      \* the job the worker has received, 0 if none
  permits,   \* permits of the semaphore
  st,        \* what became of each job
  at,        \* the entry each job is tried at, or was last
  control    \* the control message: [st, at]

vars == <<answers, made, queue, held, permits, st, at, control>>

JobState == {"none", "queued", "held", "running", "accepted", "failed", "dropped"}
Started == {"running", "accepted", "failed"}
ControlState == {"none", "posting", "sleeping", "accepted"}

TypeOK ==
  /\ made \in 0 .. NumJobs
  /\ queue \in Seq(Jobs) /\ Len(queue) <= Queue
  /\ held \in 0 .. NumJobs
  /\ permits \in 0 .. Permits
  /\ st \in [Jobs -> JobState]
  /\ at \in [Jobs -> Nat]
  /\ control.st \in ControlState

Init ==
  /\ \E n \in 0 .. MaxEntries : answers \in [1 .. n -> AnswerSets]
  /\ made = 0 /\ queue = <<>> /\ held = 0
  /\ permits = Permits
  /\ st = [j \in Jobs |-> "none"]
  /\ at = [j \in Jobs |-> 1]
  /\ control = [st |-> "none", at |-> 1]

Entries == DOMAIN answers

-----------------------------------------------------------------------------
(* send_via_entries *)

\* Mutant: any error ends the walk.
GoesOnNever(a, k) == FALSE

\* After answer a of entry k: a timeout ends the walk, an error leads to the
\* next entry.
GoesOn(a, k) == a = "error" /\ k + 1 \in Entries

\* Answers at k; without any entry send_via_entries fails at once.
AnswersAt(k) == IF k \in Entries THEN answers[k] ELSE {"error"}

-----------------------------------------------------------------------------
(* Packets *)

\* enqueue_post, of the TUN loop, which never waits: a full queue drops.
EnqueuePost ==
  /\ made < NumJobs
  /\ made' = made + 1
  /\ IF Len(queue) < Queue
       THEN queue' = Append(queue, made + 1) /\ st' = [st EXCEPT ![made + 1] = "queued"]
       ELSE st' = [st EXCEPT ![made + 1] = "dropped"] /\ UNCHANGED queue
  /\ UNCHANGED <<answers, held, permits, at, control>>

\* Mutant: the worker takes the newest job.
ReceiveNewest ==
  /\ held = 0 /\ queue # <<>>
  /\ held' = queue[Len(queue)]
  /\ st' = [st EXCEPT ![queue[Len(queue)]] = "held"]
  /\ queue' = SubSeq(queue, 1, Len(queue) - 1)
  /\ UNCHANGED <<answers, made, permits, at, control>>

\* rx.recv: the job leaves the queue before there is a permit for it.
Receive ==
  /\ held = 0 /\ queue # <<>>
  /\ held' = Head(queue)
  /\ st' = [st EXCEPT ![Head(queue)] = "held"]
  /\ queue' = Tail(queue)
  /\ UNCHANGED <<answers, made, permits, at, control>>

\* Mutant: the worker does not let go of the job it handed over.
SpawnKeepsJob ==
  /\ held # 0 /\ permits > 0
  /\ permits' = permits - 1
  /\ st' = [st EXCEPT ![held] = "running"]
  /\ UNCHANGED <<answers, made, queue, held, at, control>>

\* acquire_owned, and a task of its own for the job.
Spawn ==
  /\ held # 0 /\ permits > 0
  /\ permits' = permits - 1
  /\ held' = 0
  /\ st' = [st EXCEPT ![held] = "running"]
  /\ UNCHANGED <<answers, made, queue, at, control>>

\* Mutant: a timeout leaves without giving the permit back.
PostEndsLosingPermit(j, a) ==
  /\ st' = [st EXCEPT ![j] = IF a = "ok" THEN "accepted" ELSE "failed"]
  /\ permits' = IF a = "timeout" THEN permits ELSE permits + 1
  /\ UNCHANGED at

\* The task ends, and drops its permit.
PostEnds(j, a) ==
  /\ st' = [st EXCEPT ![j] = IF a = "ok" THEN "accepted" ELSE "failed"]
  /\ permits' = permits + 1
  /\ UNCHANGED at

\* The client's timeout ends every request.
PostAnswered(j) ==
  /\ st[j] = "running"
  /\ \E a \in AnswersAt(at[j]) :
       IF GoesOn(a, at[j])
         THEN at' = [at EXCEPT ![j] = @ + 1] /\ UNCHANGED <<st, permits>>
         ELSE PostEnds(j, a)
  /\ UNCHANGED <<answers, made, queue, held, control>>

-----------------------------------------------------------------------------
(* A control message: post_control_armor_with_retry *)

\* A control message is made and its task spawned.
ControlSpawned ==
  /\ control.st = "none"
  /\ control' = [control EXCEPT !.st = "posting"]
  /\ UNCHANGED <<answers, made, queue, held, permits, st, at>>

ControlAnswered ==
  /\ control.st = "posting"
  /\ \E a \in AnswersAt(control.at) :
       control' = IF GoesOn(a, control.at) THEN [control EXCEPT !.at = @ + 1]
                  ELSE [control EXCEPT !.st = IF a = "ok" THEN "accepted" ELSE "sleeping"]
  /\ UNCHANGED <<answers, made, queue, held, permits, st, at>>

ControlRetries ==
  /\ control.st = "sleeping"
  /\ control' = [st |-> "posting", at |-> 1]
  /\ UNCHANGED <<answers, made, queue, held, permits, st, at>>

Next ==
  \/ EnqueuePost \/ Receive \/ Spawn
  \/ \E j \in Jobs : PostAnswered(j)
  \/ ControlSpawned \/ ControlAnswered \/ ControlRetries

Spec == Init /\ [][Next]_vars

\* The worker and its tasks are scheduled, and the client's timeout of eight
\* seconds ends every request.
Fairness ==
  /\ WF_vars(Receive \/ Spawn \/ \E j \in Jobs : PostAnswered(j))
  /\ WF_vars(ControlAnswered \/ ControlRetries)

-----------------------------------------------------------------------------
(* Properties *)

Running == {j \in Jobs : st[j] = "running"}

\* Whatever the jobs' tasks meet, a permit is free or with a running job: at
\* most POST_CONCURRENCY posts are under way, and none is lost to a failure.
PermitsKept ==
  /\ permits \in 0 .. Permits
  /\ Cardinality(Running) + permits = Permits

\* Every job is in one place: the queue holds the queued ones, in their
\* order and once each, and the worker the one it holds.
JobsAccounted ==
  /\ \A j \in Jobs : st[j] = "none" <=> j > made
  /\ \A j \in Jobs : st[j] = "queued" <=> \E k \in DOMAIN queue : queue[k] = j
  /\ \A k, l \in DOMAIN queue : k < l => queue[k] < queue[l]
  /\ \A j \in Jobs : st[j] = "held" <=> held = j

\* Posts are answered in any order, but a packet never starts ahead of an
\* earlier one that was not dropped.
StartedInOrder ==
  \A i, j \in Jobs : i < j /\ st[j] \in Started => st[i] \in Started \cup {"dropped"}

\* The worker keeps up: again and again every packet it was given is settled,
\* although others time out and fail.
JobsEnd == []<>(\A j \in Jobs : st[j] \notin {"queued", "held", "running"})

\* A control message gets through if one entry accepts and none in front of
\* it times out.
ControlAccepted ==
  (control.st = "posting" /\ \E k \in Entries :
     answers[k] = {"ok"} /\ \A l \in 1 .. k - 1 : "timeout" \notin answers[l])
    ~> control.st = "accepted"
=============================================================================

--------------------------------- MODULE SiPool ---------------------------------
(***************************************************************************)
(* The pool of SI entries (si_pool.rs) with those who use it: the refresh  *)
(* loop, POST jobs (spawn_post_worker, send_via_pool) and the entry choice *)
(* of l0_listen workers (spawn_listen_worker_with_ready).                  *)
(*                                                                         *)
(* An entry may fail at any time until the network settles; from then on   *)
(* the RPC and the entries in Good work.  Cooldowns end and the list gets  *)
(* old at any time.  The registry only grows, so the pages a refresh reads *)
(* one after the other are those it would read at once with the last one:  *)
(* a refresh is one step, and so are the failed pages that end one.        *)
(* A Chat listen is a worker that never sees pool_full.  Not modelled: the *)
(* caps of 24 picks and 1000 pages, the POST queue and its permits.        *)
(***************************************************************************)
EXTENDS Integers, FiniteSets, SequencesExt

CONSTANTS
  Entries,      \* entry URLs
  Unnamed,      \* a record whose domain gives no entry
  Good,         \* entries that work once the network has settled
  Jobs,         \* POST tasks
  Workers,      \* l0_listen workers
  None,         \* no entry
  PageSize,     \* PAGE
  MaxTries,     \* hosts a POST tries
  MaxRecords    \* bound: records of the registry

PoolNamesAssumption ==
  /\ Good \subseteq Entries
  /\ {Unnamed, None} \cap Entries = {}
  /\ Jobs \cap Workers = {}

PoolBoundsAssumption ==
  {PageSize, MaxTries, MaxRecords} \subseteq Nat \ {0}

Callers == Jobs \cup Workers

VARIABLES
  registry,  \* GuardianNodesInfoV6
  settled,   \* the network has settled
  nodes,     \* nodes: the entries listed locally
  fresh,     \* last_refresh is younger than REFRESH_INTERVAL
  cooldown,  \* cooldown: entries whose time is not over
  pc,        \* where each caller is
  order,     \* entries an acquire has still to qualify
  entry,     \* the entry a caller acquired
  exclude,   \* exclude of a POST, last_failed of a worker
  tries,     \* hosts a POST has tried
  listed,    \* history: records there were when nodes was read
  struck     \* history: entries that failed a caller, until their cooldown
             \* ends or the caller has to take what is left

environment == <<registry, settled>>
pool == <<nodes, fresh, cooldown, listed>>
choice == <<order, entry, exclude, tries, struck>>
vars == <<registry, settled, nodes, fresh, cooldown, listed, pc,
          order, entry, exclude, tries, struck>>

TypeOK ==
  /\ registry \in Seq(Entries \cup {Unnamed}) /\ Len(registry) <= MaxRecords
  /\ nodes \subseteq Entries
  /\ cooldown \subseteq Entries
  /\ {settled, fresh} \subseteq BOOLEAN
  /\ pc \in [Callers -> {"idle", "pick", "qualify", "use", "up", "done"}]
  /\ order \in [Callers -> SUBSET Entries]
  /\ entry \in [Callers -> Entries \cup {None}]
  /\ exclude \in [Callers -> Entries \cup {None}]
  /\ tries \in [Jobs -> 0 .. MaxTries - 1]
  /\ listed \in 0 .. MaxRecords
  /\ struck \in [Callers -> SUBSET Entries]

Init ==
  /\ registry \in BoundedSeq(Entries \cup {Unnamed}, MaxRecords)
  /\ settled = FALSE
  /\ nodes = {}
  /\ fresh = FALSE
  /\ cooldown = {}
  /\ listed = 0
  /\ pc = [c \in Callers |-> "idle"]
  /\ order = [c \in Callers |-> {}]
  /\ entry = [c \in Callers |-> None]
  /\ exclude = [c \in Callers |-> None]
  /\ tries = [j \in Jobs |-> 0]
  /\ struck = [c \in Callers |-> {}]

-----------------------------------------------------------------------------
(* Environment *)

\* A guardian node registers.
Register(record) ==
  /\ ~settled
  /\ Len(registry) < MaxRecords
  /\ registry' = Append(registry, record)
  /\ UNCHANGED <<settled, pool, pc, choice>>

Settle ==
  /\ ~settled
  /\ settled' = TRUE
  /\ UNCHANGED <<registry, pool, pc, choice>>

Works(e) == settled /\ e \in Good

\* REFRESH_INTERVAL is over.
GetOld ==
  /\ fresh
  /\ fresh' = FALSE
  /\ UNCHANGED <<environment, nodes, cooldown, listed, pc, choice>>

\* FAIL_COOLDOWN of an entry is over.
CoolDown(e) ==
  /\ e \in cooldown
  /\ cooldown' = cooldown \ {e}
  /\ struck' = [c \in Callers |-> struck[c] \ {e}]
  /\ UNCHANGED <<environment, nodes, fresh, listed, pc,
                 order, entry, exclude, tries>>

-----------------------------------------------------------------------------
(* refresh *)

\* send_via_pool returns, and its locals with it.
PostEnds(j) ==
  /\ pc' = [pc EXCEPT ![j] = "done"]
  /\ order' = [order EXCEPT ![j] = {}]
  /\ entry' = [entry EXCEPT ![j] = None]
  /\ exclude' = [exclude EXCEPT ![j] = None]
  /\ tries' = [tries EXCEPT ![j] = 0]
  /\ struck' = [struck EXCEPT ![j] = {}]

\* Mutant: a POST that gets no entry asks again.
AcquireErrsAgain(c) == pc' = [pc EXCEPT ![c] = "idle"] /\ UNCHANGED choice

\* Where an acquire that fails leaves its caller: send_via_pool gives up, a
\* worker sleeps and asks again.
AcquireErrs(c) ==
  IF c \in Jobs THEN PostEnds(c)
  ELSE pc' = [pc EXCEPT ![c] = "idle"] /\ UNCHANGED choice

\* eth_call_get_all_nodes and decode_get_all_nodes_result: the records of page n
\* that give an entry, by their positions; those without a usable domain are
\* dropped.
Page(records, n) ==
  {i \in DOMAIN records :
     n * PageSize < i /\ i <= (n + 1) * PageSize /\ records[i] # Unnamed}

\* The entries of page n that are on no page before it.
Added(records, n) ==
  {records[i] : i \in Page(records, n)} \
    {records[i] : i \in {j \in DOMAIN records : j <= n * PageSize}}

\* Whether refresh reads no further.
LastPage(records, n) ==
  Added(records, n) = {} \/ Cardinality(Page(records, n)) < PageSize

\* What the loop of refresh collects.  Its offset advances by the entries of a
\* page, which are PageSize if it goes on.
Collected(records) ==
  UNION {Added(records, n) :
           n \in {k \in 0 .. Len(records) : \A m \in 0 .. k - 1 : ~LastPage(records, m)}}

\* How many records a refresh may see: all, or those of the pages before the
\* RPC answers 0x, which is taken for the end.
Answered ==
  {Len(registry)} \cup
    {n \in 0 .. Len(registry) : ~settled /\ n % PageSize = 0}

Install(n) ==
  /\ Collected(SubSeq(registry, 1, n)) # {}
  /\ nodes' = Collected(SubSeq(registry, 1, n))
  /\ listed' = n
  /\ fresh' = TRUE
  /\ UNCHANGED cooldown

\* A refresh of the loop (one that fails changes nothing).
RefreshLoop ==
  /\ \E n \in Answered : Install(n)
  /\ UNCHANGED <<environment, pc, choice>>

-----------------------------------------------------------------------------
(* acquire *)

\* ensure_fresh_inner
NeedsRefresh == ~fresh \/ nodes = {}

Refresh(c) ==
  /\ pc[c] = "idle"
  /\ NeedsRefresh
  /\ \E n \in Answered : Install(n)
  /\ pc' = [pc EXCEPT ![c] = "pick"]
  /\ UNCHANGED <<environment, choice>>

\* Too many pages failed in a row, or there was no entry.
RefreshFails(c) ==
  /\ pc[c] = "idle"
  /\ NeedsRefresh
  /\ ~settled \/ Collected(registry) = {}
  /\ AcquireErrs(c)
  /\ UNCHANGED <<environment, pool>>

Cool(c) == nodes \ ({exclude[c]} \cup cooldown)

\* Entries not cooling down but the excluded one; if there are none, any but
\* the excluded one; if there are none, any.
Candidates(c) ==
  CASE Cool(c) # {} -> Cool(c)
    [] Cool(c) = {} /\ nodes \ {exclude[c]} # {} -> nodes \ {exclude[c]}
    [] OTHER -> nodes

Pick(c) ==
  /\ \/ pc[c] = "pick"
     \/ pc[c] = "idle" /\ ~NeedsRefresh
  /\ order' = [order EXCEPT ![c] = Candidates(c)]
  /\ struck' = [struck EXCEPT ![c] = IF Cool(c) = {} THEN {} ELSE @]
  /\ pc' = [pc EXCEPT ![c] = "qualify"]
  /\ UNCHANGED <<environment, pool, entry, exclude, tries>>

\* mark_failed
MarkFailed(c, e) ==
  /\ cooldown' = cooldown \cup {e}
  /\ struck' = [struck EXCEPT ![c] = @ \cup {e}]

\* qualify_entry accepts the next entry of the shuffled candidates.
Qualifies(c, e) ==
  /\ pc[c] = "qualify"
  /\ e \in order[c]
  /\ entry' = [entry EXCEPT ![c] = e]
  /\ order' = [order EXCEPT ![c] = {}]
  /\ pc' = [pc EXCEPT ![c] = "use"]
  /\ UNCHANGED <<environment, pool, exclude, tries, struck>>

Disqualifies(c, e) ==
  /\ pc[c] = "qualify"
  /\ e \in order[c]
  /\ ~Works(e)
  /\ MarkFailed(c, e)
  /\ order' = [order EXCEPT ![c] = @ \ {e}]
  /\ UNCHANGED <<environment, nodes, fresh, listed, pc,
                 entry, exclude, tries>>

NoneQualified(c) ==
  /\ pc[c] = "qualify"
  /\ order[c] = {}
  /\ AcquireErrs(c)
  /\ UNCHANGED <<environment, pool>>

-----------------------------------------------------------------------------
(* POST jobs *)

PostAccepted(j) ==
  /\ pc[j] = "use"
  /\ PostEnds(j)
  /\ UNCHANGED <<environment, pool>>

MayTryAgain(j) == tries[j] + 1 < MaxTries

TryAnother(j) ==
  /\ MarkFailed(j, entry[j])
  /\ exclude' = [exclude EXCEPT ![j] = entry[j]]
  /\ entry' = [entry EXCEPT ![j] = None]
  /\ tries' = [tries EXCEPT ![j] = @ + 1]
  /\ pc' = [pc EXCEPT ![j] = "idle"]
  /\ UNCHANGED order

\* The host refuses, and another is tried; or it times out or was the last.
PostRefused(j) ==
  /\ pc[j] = "use"
  /\ ~Works(entry[j])
  /\ \/ MayTryAgain(j) /\ TryAnother(j)
     \/ PostEnds(j) /\ cooldown' = cooldown \cup {entry[j]}
  /\ UNCHANGED <<environment, nodes, fresh, listed>>

-----------------------------------------------------------------------------
(* Listen workers *)

\* open_listen_sse returns a stream.
ListenOpens(w) ==
  /\ pc[w] = "use"
  /\ pc' = [pc EXCEPT ![w] = "up"]
  /\ exclude' = [exclude EXCEPT ![w] = None]
  /\ UNCHANGED <<environment, pool, order, entry, tries, struck>>

\* Mutant: an entry that failed a listen is excluded but not cooled down.
ListenFailsUnmarked(w) ==
  /\ pc[w] \in {"use", "up"}
  /\ ~Works(entry[w])
  /\ struck' = [struck EXCEPT ![w] = @ \cup {entry[w]}]
  /\ exclude' = [exclude EXCEPT ![w] = entry[w]]
  /\ entry' = [entry EXCEPT ![w] = None]
  /\ pc' = [pc EXCEPT ![w] = "idle"]
  /\ UNCHANGED <<environment, pool, order, tries>>

\* The POST of the listen fails, or its stream does.
ListenFails(w) ==
  /\ pc[w] \in {"use", "up"}
  /\ ~Works(entry[w])
  /\ MarkFailed(w, entry[w])
  /\ exclude' = [exclude EXCEPT ![w] = entry[w]]
  /\ entry' = [entry EXCEPT ![w] = None]
  /\ pc' = [pc EXCEPT ![w] = "idle"]
  /\ UNCHANGED <<environment, nodes, fresh, listed, order, tries>>

\* The mailbox ends the stream.
ListenEnds(w) ==
  /\ pc[w] = "up"
  /\ entry' = [entry EXCEPT ![w] = None]
  /\ pc' = [pc EXCEPT ![w] = "idle"]
  /\ UNCHANGED <<environment, pool, order, exclude, tries, struck>>

\* pool_full ends the worker.
PoolFull(w) ==
  /\ pc[w] = "use"
  /\ entry' = [entry EXCEPT ![w] = None]
  /\ pc' = [pc EXCEPT ![w] = "done"]
  /\ UNCHANGED <<environment, pool, order, exclude, tries, struck>>

-----------------------------------------------------------------------------
AcquireStep(c) ==
  \/ Refresh(c) \/ RefreshFails(c) \/ Pick(c)
  \/ \E e \in Entries : Qualifies(c, e) \/ Disqualifies(c, e)
  \/ NoneQualified(c)

JobStep(j) == AcquireStep(j) \/ PostAccepted(j) \/ PostRefused(j)

\* What a worker does by itself until its listen is up.
WorkerStep(w) ==
  \/ AcquireStep(w)
  \/ pc[w] = "use" /\ (ListenOpens(w) \/ ListenFails(w) \/ PoolFull(w))

Next ==
  \/ \E record \in Entries \cup {Unnamed} : Register(record)
  \/ Settle
  \/ GetOld
  \/ \E e \in Entries : CoolDown(e)
  \/ RefreshLoop
  \/ \E j \in Jobs : JobStep(j)
  \/ \E w \in Workers : WorkerStep(w) \/ ListenFails(w) \/ ListenEnds(w)

\* Every wait of a job and of a worker has a time limit, time passes (the list
\* gets old, cooldowns end), and a shuffle puts an entry that works first again
\* and again.
Fairness ==
  /\ WF_vars(GetOld)
  /\ \A e \in Entries : WF_vars(CoolDown(e))
  /\ \A j \in Jobs : WF_vars(JobStep(j))
  /\ \A w \in Workers :
       /\ WF_vars(WorkerStep(w))
       /\ \A e \in Good : SF_vars(Qualifies(w, e))

Spec == Init /\ [][Next]_vars /\ Fairness

-----------------------------------------------------------------------------
(* Properties *)

\* Whatever fails, an entry list once read is never lost (refresh returns
\* before it writes).
PoolKept == [][nodes # {} => nodes' # {}]_nodes

\* Every record has an entry, and no two the same.
Clean ==
  /\ Unnamed \notin ToSet(registry)
  /\ IsInjective(registry)

\* From a registry of distinct usable records a refresh installs all of them,
\* wherever the pages end, up to a page the RPC answered with 0x.
ListComplete == Clean => nodes = ToSet(SubSeq(registry, 1, listed))

\* An entry that failed a caller is not offered to that caller again before its
\* cooldown is over, unless nothing else could be.
OneStrike ==
  \A c \in Callers : (order[c] \cup {entry[c]}) \cap struck[c] = {}

\* Every POST task ends and gives its permit back, whatever the RPC and the
\* hosts do.
JobsEnd == \A j \in Jobs : <>(pc[j] = "done")

\* Once the RPC and a listed entry work, a worker that lost its listen gets one
\* (or is told pool_full), whatever failed it before.  Only an entry it excludes
\* may be out of its reach: while the list has another one, reachable or not,
\* the excluded entry is tried no more.
Reconnects ==
  \A w \in Workers :
    (settled /\ Clean /\ Good # {} /\ Good \subseteq ToSet(registry))
      ~> \/ pc[w] \in {"up", "done"}
         \/ exclude[w] \in Good /\ nodes # {exclude[w]}
=============================================================================

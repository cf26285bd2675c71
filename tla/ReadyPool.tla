-------------------------------- MODULE ReadyPool --------------------------------
(***************************************************************************)
(* The pre-warmed identities of one client-duplex port: the warmer         *)
(* (spawn_ready_identity_warmers), the l0_listen workers it and the lines  *)
(* start (spawn_listen_worker_with_ready), the owner registry of listen.rs *)
(* and the lines that take identities (run_dynamic_local_tcp_stream).      *)
(*                                                                         *)
(* Which entry a worker posts to is left to SiPool.  An identity is minted *)
(* once and its wallet is the registry's key, so names stand for both.     *)
(* Only the warmer reads the counter warming, so that it goes down in the  *)
(* step that ends the wait.  Not modelled: the task handle attached after  *)
(* the spawn (nobody releases a listen its starter has not returned); the  *)
(* lines of a proxy port, which alone rebind a listen to another session   *)
(* and so may have it cancelled for a mismatch.                            *)
(***************************************************************************)
EXTENDS Integers, SequencesExt

CONSTANTS
  Identities,  \* bound: identities that can be minted
  None,        \* no identity
  Target       \* READY_IDENTITY_POOL_TARGET

ASSUME ReadyAssumption == None \notin Identities /\ Target \in Nat \ {0}

VARIABLES
  ready,    \* ready: the pre-warmed identities, oldest first
  warming,  \* warming
  warmer,   \* the identity warm_one_ready_identity waits for, or None
  worker,   \* each identity's listen worker
  signal,   \* its ready channel: held, sent, or dropped by the worker
  owners,   \* wallets in ListenOwnerRegistry
  line      \* each identity's line

vars == <<ready, warming, warmer, worker, signal, owners, line>>

TypeOK ==
  /\ ready \in Seq(Identities)
  /\ warming \in 0 .. 1
  /\ warmer \in Identities \cup {None}
  /\ worker \in [Identities -> {"none", "posting", "up", "ended", "aborted"}]
  /\ signal \in [Identities -> {"held", "sent", "dropped"}]
  /\ owners \subseteq Identities
  /\ line \in [Identities -> {"none", "listen", "open", "closed"}]

Init ==
  /\ ready = <<>>
  /\ warming = 0
  /\ warmer = None
  /\ worker = [i \in Identities |-> "none"]
  /\ signal = [i \in Identities |-> "held"]
  /\ owners = {}
  /\ line = [i \in Identities |-> "none"]

Running(i) == worker[i] \in {"posting", "up"}

-----------------------------------------------------------------------------
(* The owner registry and the worker *)

\* register, and the spawn of the worker.
StartListen(i) ==
  /\ worker[i] = "none"
  /\ worker' = [worker EXCEPT ![i] = "posting"]
  /\ owners' = owners \cup {i}

\* Drop of the worker's future: its ready sender goes with it.
DropSignal(i) == [signal EXCEPT ![i] = IF @ = "held" THEN "dropped" ELSE @]

\* Mutant: only the cancel flag is set.
ReleaseByFlag(i) ==
  /\ owners' = owners \ {i}
  /\ UNCHANGED <<worker, signal>>

\* release_by_wallet: finds nothing unless the wallet is registered.
Release(i) ==
  IF i \in owners
    THEN /\ worker' = [worker EXCEPT ![i] = "aborted"]
         /\ signal' = DropSignal(i)
         /\ owners' = owners \ {i}
    ELSE UNCHANGED <<worker, signal, owners>>

\* open_listen_sse returns a stream.
ListenOpens(i) ==
  /\ worker[i] = "posting"
  /\ worker' = [worker EXCEPT ![i] = "up"]
  /\ UNCHANGED <<ready, warming, warmer, signal, owners, line>>

\* note_listen_handshake_or_ready: the first frame of the first stream.
FirstFrame(i) ==
  /\ worker[i] = "up"
  /\ signal[i] = "held"
  /\ signal' = [signal EXCEPT ![i] = "sent"]
  /\ UNCHANGED <<ready, warming, warmer, worker, owners, line>>

\* The stream ends or fails and will be reopened; the pump takes the ready
\* sender of the first one with it.
StreamEnds(i) ==
  /\ worker[i] = "up"
  /\ worker' = [worker EXCEPT ![i] = "posting"]
  /\ signal' = DropSignal(i)
  /\ UNCHANGED <<ready, warming, warmer, owners, line>>

\* Mutant: the worker ends and stays registered.
PoolFullStaysOwner(i) ==
  /\ worker[i] = "posting"
  /\ worker' = [worker EXCEPT ![i] = "ended"]
  /\ signal' = DropSignal(i)
  /\ UNCHANGED <<ready, warming, warmer, owners, line>>

\* pool_full ends the worker.
PoolFull(i) ==
  /\ worker[i] = "posting"
  /\ worker' = [worker EXCEPT ![i] = "ended"]
  /\ signal' = DropSignal(i)
  /\ owners' = owners \ {i}
  /\ UNCHANGED <<ready, warming, warmer, line>>

-----------------------------------------------------------------------------
(* The warmer *)

WantsMore == Len(ready) + warming < Target

Warm(i) ==
  /\ warmer = None
  /\ WantsMore
  /\ StartListen(i)
  /\ warming' = warming + 1
  /\ warmer' = i
  /\ UNCHANGED <<ready, signal, line>>

\* The ready signal came in time.
Warmed ==
  /\ warmer # None
  /\ signal[warmer] = "sent"
  /\ ready' = Append(ready, warmer)
  /\ warming' = warming - 1
  /\ warmer' = None
  /\ UNCHANGED <<worker, signal, owners, line>>

\* Mutant: the deadline is missing.
WarmFailsWhenDropped ==
  /\ warmer # None
  /\ signal[warmer] = "dropped"
  /\ Release(warmer)
  /\ warming' = warming - 1
  /\ warmer' = None
  /\ UNCHANGED <<ready, line>>

\* The ready sender was dropped, or 120 s are over.
WarmFails ==
  /\ warmer # None
  /\ Release(warmer)
  /\ warming' = warming - 1
  /\ warmer' = None
  /\ UNCHANGED <<ready, line>>

-----------------------------------------------------------------------------
(* Lines *)

\* A socket's first bytes came: take the oldest pre-warmed identity.
TakeReady ==
  /\ ready # <<>>
  /\ line' = [line EXCEPT ![Head(ready)] = "open"]
  /\ ready' = Tail(ready)
  /\ UNCHANGED <<warming, warmer, worker, signal, owners>>

\* There is none: mint one and start its listen.
MintCold(i) ==
  /\ ready = <<>>
  /\ StartListen(i)
  /\ line' = [line EXCEPT ![i] = "listen"]
  /\ UNCHANGED <<ready, warming, warmer, signal>>

ColdReady(i) ==
  /\ line[i] = "listen"
  /\ signal[i] = "sent"
  /\ line' = [line EXCEPT ![i] = "open"]
  /\ UNCHANGED <<ready, warming, warmer, worker, signal, owners>>

\* The socket's task returns (ReleaseListenOnDrop): its listen did not become
\* ready in time, or its line ended.
LineEnds(i) ==
  /\ line[i] \in {"listen", "open"}
  /\ line' = [line EXCEPT ![i] = "closed"]
  /\ Release(i)
  /\ UNCHANGED <<ready, warming, warmer>>

-----------------------------------------------------------------------------
Next ==
  \/ Warmed
  \/ WarmFails
  \/ TakeReady
  \/ \E i \in Identities :
       \/ ListenOpens(i) \/ FirstFrame(i) \/ StreamEnds(i) \/ PoolFull(i)
       \/ Warm(i) \/ MintCold(i) \/ ColdReady(i) \/ LineEnds(i)

\* The runtime polls the warmer's deadline and its ready channel.
Fairness == WF_vars(Warmed \/ WarmFails)

Spec == Init /\ [][Next]_vars /\ Fairness

-----------------------------------------------------------------------------
(* Properties *)

\* Every listen that runs has someone who will release it: the warmer, the
\* pool, or a line.  A listen without one would be kept up for ever.
ListenHasUser ==
  \A i \in Identities :
    Running(i) => \/ i = warmer
                  \/ i \in ToSet(ready)
                  \/ line[i] \in {"listen", "open"}

\* The registry holds exactly the listens that run: a release or the lookup of
\* a mailbox never misses one and never meets one that is gone.
OwnersRun == owners = {i \in Identities : Running(i)}

\* However lines take identities meanwhile, the pool and the warmer together
\* never hold more than the target.
PoolBounded == Len(ready) + warming <= Target

\* The warmer never waits for one identity for ever.
WarmerReturns == []<>(warmer = None)
=============================================================================

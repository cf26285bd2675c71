------------------------------ MODULE Lifecycle ------------------------------
(***************************************************************************)
(* conet-l0d start, stop and teardown over one configuration: processes of *)
(* their own that share the state file, the instance lock beside it and    *)
(* the host's TUN, route and iptables entries (here: the network).         *)
(*                                                                         *)
(* The configuration is a packet-mode one, the only mode that owns the     *)
(* network; in the others the same steps run without it.  The network's    *)
(* entries have fixed names, so there is one set of them; the variable     *)
(* remembers which daemon installed it last.                               *)
(***************************************************************************)
EXTENDS Integers

CONSTANTS
  Daemons,    \* processes that run `conet-l0d start`, each once
  Cleaners,   \* processes that run `conet-l0d stop` or `teardown`, each once
  None        \* no process

ASSUME ProcessAssumption ==
  /\ None \notin Daemons
  /\ None \notin Cleaners

VARIABLES
  daemon,     \* daemon[d]: where start_with_overrides stands
  cleaner,    \* cleaner[c]: where stop or teardown stands
  target,     \* target[c]: the daemon whose pid stop read from the state file
  lock,       \* holder of the flock
  state,      \* the daemon whose pid is in the state file
  network     \* the daemon that installed the network entries

vars == <<daemon, cleaner, target, lock, state, network>>

DaemonPc == {"off", "lock", "load", "uninstall", "remove", "install", "write",
             "unwind", "run", "leave", "clear", "dead"}

CleanerPc == {"off", "load", "signal", "wait", "uninstall", "remove", "done",
              "refused"}

TypeOK ==
  /\ daemon \in [Daemons -> DaemonPc]
  /\ cleaner \in [Cleaners -> CleanerPc]
  /\ target \in [Cleaners -> Daemons \cup {None}]
  /\ \A c \in Cleaners : cleaner[c] \in {"signal", "wait"} => target[c] # None
  /\ lock \in Daemons \cup {None}
  /\ state \in Daemons \cup {None}
  /\ network \in Daemons \cup {None}

Init ==
  /\ daemon = [d \in Daemons |-> "off"]
  /\ cleaner = [c \in Cleaners |-> "off"]
  /\ target = [c \in Cleaners |-> None]
  /\ lock = None
  /\ state = None
  /\ network = None

\* netops::process_alive (a pid is never that of another program here).
Alive(d) == d \in Daemons /\ daemon[d] \notin {"off", "dead"}

DaemonGoes(d, pc) == daemon' = [daemon EXCEPT ![d] = pc]

\* The process ends, and the kernel drops its flock.
Ends(d) ==
  /\ DaemonGoes(d, "dead")
  /\ lock' = IF lock = d THEN None ELSE lock

-----------------------------------------------------------------------------
(* start *)

Start(d) ==
  /\ daemon[d] = "off"
  /\ DaemonGoes(d, "lock")
  /\ UNCHANGED <<cleaner, target, lock, state, network>>

\* Mutant: the result of flock is not looked at.
TakeLockAnyway(d) ==
  /\ daemon[d] = "lock"
  /\ DaemonGoes(d, "load")
  /\ lock' = IF lock = None THEN d ELSE lock
  /\ UNCHANGED <<cleaner, target, state, network>>

\* Mutant: a start waits for the lock (no LOCK_NB).
TakeLockWaits(d) ==
  /\ daemon[d] = "lock" /\ lock = None
  /\ DaemonGoes(d, "load") /\ lock' = d
  /\ UNCHANGED <<cleaner, target, state, network>>

\* Mutant: a refused start tears down on its way out.
TakeLockOrTearDown(d) ==
  /\ daemon[d] = "lock"
  /\ IF lock = None THEN DaemonGoes(d, "load") /\ lock' = d
                    ELSE DaemonGoes(d, "leave") /\ UNCHANGED lock
  /\ UNCHANGED <<cleaner, target, state, network>>

\* acquire_instance_lock: LOCK_EX | LOCK_NB, held for the daemon's lifetime.
TakeLock(d) ==
  /\ daemon[d] = "lock"
  /\ IF lock = None THEN DaemonGoes(d, "load") /\ lock' = d ELSE Ends(d)
  /\ UNCHANGED <<cleaner, target, state, network>>

\* The saved state: another live process refuses the start, a stale one is
\* torn down first.
LoadState(d) ==
  /\ daemon[d] = "load"
  /\ CASE state = None -> DaemonGoes(d, "install") /\ UNCHANGED lock
       [] Alive(state) /\ state # d -> Ends(d)
       [] OTHER -> DaemonGoes(d, "uninstall") /\ UNCHANGED lock
  /\ UNCHANGED <<cleaner, target, state, network>>

\* teardown_inner on a stale state, and again when the daemon leaves.
Uninstall(d) ==
  /\ daemon[d] \in {"uninstall", "leave"}
  /\ DaemonGoes(d, IF daemon[d] = "leave" THEN "clear" ELSE "remove")
  /\ network' = None
  /\ UNCHANGED <<cleaner, target, lock, state>>

RemoveState(d) ==
  /\ daemon[d] \in {"remove", "clear"}
  /\ state' = None
  /\ IF daemon[d] = "clear" THEN Ends(d)
                            ELSE DaemonGoes(d, "install") /\ UNCHANGED lock
  /\ UNCHANGED <<cleaner, target, network>>

\* netops::install: every entry is added over whatever is there.
Install(d) ==
  /\ daemon[d] = "install"
  /\ DaemonGoes(d, "write")
  /\ network' = d
  /\ UNCHANGED <<cleaner, target, lock, state>>

WriteState(d) ==
  /\ daemon[d] = "write"
  /\ DaemonGoes(d, "run")
  /\ state' = d
  /\ UNCHANGED <<cleaner, target, lock, network>>

\* The state file cannot be written: uninstall and return the error.
WriteFails(d) ==
  /\ daemon[d] = "write"
  /\ DaemonGoes(d, "unwind")
  /\ UNCHANGED <<cleaner, target, lock, state, network>>

Unwind(d) ==
  /\ daemon[d] = "unwind"
  /\ network' = None
  /\ Ends(d)
  /\ UNCHANGED <<cleaner, target, state>>

\* SIGINT, SIGTERM, or the packet loop returns.
Leave(d) ==
  /\ daemon[d] = "run"
  /\ DaemonGoes(d, "leave")
  /\ UNCHANGED <<cleaner, target, lock, state, network>>

\* SIGKILL, a crash, an error return, or SIGTERM before the handler is there.
Crash(d) ==
  /\ Alive(d)
  /\ Ends(d)
  /\ UNCHANGED <<cleaner, target, state, network>>

-----------------------------------------------------------------------------
(* stop and teardown: neither takes the instance lock *)

CleanerGoes(c, pc) == cleaner' = [cleaner EXCEPT ![c] = pc]

Stop(c) ==
  /\ cleaner[c] = "off"
  /\ CleanerGoes(c, "load")
  /\ UNCHANGED <<daemon, target, lock, state, network>>

\* teardown goes straight to teardown_inner.
Teardown(c) ==
  /\ cleaner[c] = "off"
  /\ CleanerGoes(c, "uninstall")
  /\ UNCHANGED <<daemon, target, lock, state, network>>

StopLoads(c) ==
  /\ cleaner[c] = "load"
  /\ target' = [target EXCEPT ![c] = state]
  /\ CleanerGoes(c, IF Alive(state) THEN "signal" ELSE "uninstall")
  /\ UNCHANGED <<daemon, lock, state, network>>

\* SIGTERM: a daemon in its run loop leaves; one still starting dies of it;
\* one already leaving ignores it.
StopSignals(c) ==
  /\ cleaner[c] = "signal"
  /\ CleanerGoes(c, "wait")
  /\ LET d == target[c] IN
       CASE daemon[d] = "run" -> DaemonGoes(d, "leave") /\ UNCHANGED lock
         [] daemon[d] \in {"leave", "clear", "dead"} -> UNCHANGED <<daemon, lock>>
         [] OTHER -> Ends(d)
  /\ UNCHANGED <<target, state, network>>

\* wait_dead
StopSeesDead(c) ==
  /\ cleaner[c] = "wait"
  /\ ~Alive(target[c])
  /\ CleanerGoes(c, "uninstall")
  /\ UNCHANGED <<daemon, target, lock, state, network>>

\* Five seconds passed: the state is preserved.
StopTimesOut(c) ==
  /\ cleaner[c] = "wait"
  /\ Alive(target[c])
  /\ CleanerGoes(c, "refused")
  /\ UNCHANGED <<daemon, target, lock, state, network>>

\* teardown_inner
CleanNetwork(c) ==
  /\ cleaner[c] = "uninstall"
  /\ CleanerGoes(c, "remove")
  /\ network' = None
  /\ UNCHANGED <<daemon, target, lock, state>>

CleanState(c) ==
  /\ cleaner[c] = "remove"
  /\ CleanerGoes(c, "done")
  /\ state' = None
  /\ UNCHANGED <<daemon, target, lock, network>>

-----------------------------------------------------------------------------
DaemonStep(d) ==
  \/ TakeLock(d) \/ LoadState(d) \/ Uninstall(d) \/ RemoveState(d)
  \/ Install(d) \/ WriteState(d) \/ Unwind(d)

CleanerStep(c) ==
  \/ StopLoads(c) \/ StopSignals(c) \/ StopSeesDead(c) \/ StopTimesOut(c)
  \/ CleanNetwork(c) \/ CleanState(c)

Next ==
  \/ \E d \in Daemons :
       Start(d) \/ DaemonStep(d) \/ WriteFails(d) \/ Leave(d) \/ Crash(d)
  \/ \E c \in Cleaners : Stop(c) \/ Teardown(c) \/ CleanerStep(c)

Spec == Init /\ [][Next]_vars

\* A process that was started goes on; when it is started, signalled or
\* killed is up to the operator.
Fairness ==
  /\ \A d \in Daemons : WF_vars(DaemonStep(d))
  /\ \A c \in Cleaners : WF_vars(CleanerStep(c))

-----------------------------------------------------------------------------
(* Properties *)

Owns(d) == daemon[d] \notin {"off", "lock", "dead"}

\* Two starts over one configuration never both get past the lock, and a
\* state file that names a live process names the holder of the lock: start
\* never tears down, and stop never signals, a process that is not the owner.
LockedOwner ==
  /\ \A d \in Daemons : Owns(d) <=> lock = d
  /\ Alive(state) => lock = state

\* A cleaning command has deleted something.
Meddled(c) == cleaner[c] \in {"remove", "done"}

\* Starts, crashes and exits of other daemons never take the network or the
\* state file from a running one: only stop and teardown can.
RunningOwnsRuntime ==
  (\A c \in Cleaners : ~Meddled(c)) =>
    \A d \in Daemons : daemon[d] = "run" => state = d /\ network = d

\* No command hangs on another process, the holder of the lock among them:
\* again and again every start runs or has ended, every daemon told to leave
\* has left, and every stop and teardown has come back.
CommandsEnd ==
  []<>(/\ \A d \in Daemons : daemon[d] \in {"off", "run", "dead"}
       /\ \A c \in Cleaners : cleaner[c] \in {"off", "done", "refused"})

\* RULES.md, Lifecycle: teardown acts "after confirming no live process owns
\* it", and "Cleanup must never delete another process's files or sockets".
\* Violated: teardown_inner looks at no pid and takes no lock.
CleanupSparesOthers ==
  \A d \in Daemons : daemon[d] = "run" => state = d /\ network = d
=============================================================================

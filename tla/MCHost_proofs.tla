--------------------------- MODULE MCHost_proofs ---------------------------
(***************************************************************************)
(* Proofs about Lifecycle for any sets of daemons and of cleaning commands: *)
(* its type invariant, who owns the lock, and that starts and exits of     *)
(* other daemons leave a running one alone.  And about the other models of *)
(* MCHost: which listener gets which port, for any targets and ports; what *)
(* the packet tables agree on, for any configuration files; and which      *)
(* network entries are on the host, for any files and mishaps.             *)
(***************************************************************************)
EXTENDS MCHost, SequenceTheorems, FiniteSetTheorems, WellFoundedInduction, TLAPS

\* A pid gets into the state file only after its process took the lock.
StateWritten == state # None => daemon[state] \notin {"off", "lock"}

\* From its install on, a daemon has the network to itself.
InstalledOwns ==
  (\A c \in Cleaners : ~Meddled(c)) =>
    \A d \in Daemons : daemon[d] = "write" => network = d

\* The inductive invariant.
IInv ==
  /\ TypeOK
  /\ StateWritten
  /\ LockedOwner
  /\ InstalledOwns
  /\ RunningOwnsRuntime

-----------------------------------------------------------------------------

\* Every step keeps the types.
LEMMA TypeNext == ASSUME TypeOK, [Next]_vars PROVE TypeOK'
<1> USE ProcessAssumption
        DEF TypeOK, DaemonPc, CleanerPc, DaemonGoes, CleanerGoes, Ends,
            ProcessAssumption
<1>1. ASSUME NEW d \in Daemons,
             \/ Start(d) \/ TakeLock(d) \/ LoadState(d) \/ Uninstall(d)
             \/ RemoveState(d)
      PROVE  TypeOK'
  BY <1>1 DEF Start, TakeLock, LoadState, Uninstall, RemoveState
<1>2. ASSUME NEW d \in Daemons,
             \/ Install(d) \/ WriteState(d) \/ WriteFails(d) \/ Unwind(d)
             \/ Leave(d) \/ Crash(d)
      PROVE  TypeOK'
  BY <1>2 DEF Install, WriteState, WriteFails, Unwind, Leave, Crash
<1>3. ASSUME NEW c \in Cleaners, StopLoads(c) PROVE TypeOK'
  BY <1>3 DEF StopLoads, Alive
<1>4. ASSUME NEW c \in Cleaners, StopSignals(c) PROVE TypeOK'
  BY <1>4 DEF StopSignals
<1>5. ASSUME NEW c \in Cleaners,
             \/ Stop(c) \/ Teardown(c) \/ StopSeesDead(c) \/ StopTimesOut(c)
             \/ CleanNetwork(c) \/ CleanState(c)
      PROVE  TypeOK'
  BY <1>5 DEF Stop, Teardown, StopSeesDead, StopTimesOut, CleanNetwork, CleanState
<1>6. CASE UNCHANGED vars
  BY <1>6 DEF vars
<1> QED
  BY <1>1, <1>2, <1>3, <1>4, <1>5, <1>6 DEF Next, DaemonStep, CleanerStep

\* A daemon takes the lock before it writes its pid, and loses it only by
\* ending.
LEMMA OwnerNext ==
  ASSUME TypeOK, StateWritten, LockedOwner, [Next]_vars
  PROVE  StateWritten' /\ LockedOwner'
<1> USE ProcessAssumption
        DEF TypeOK, DaemonPc, StateWritten, LockedOwner, Owns, Alive, DaemonGoes,
            Ends, ProcessAssumption
<1>1. ASSUME NEW d \in Daemons, Start(d) PROVE StateWritten' /\ LockedOwner'
  BY <1>1 DEF Start
<1>2. ASSUME NEW d \in Daemons, TakeLock(d) PROVE StateWritten' /\ LockedOwner'
  BY <1>2 DEF TakeLock
<1>3. ASSUME NEW d \in Daemons, LoadState(d) PROVE StateWritten' /\ LockedOwner'
  BY <1>3 DEF LoadState
<1>4. ASSUME NEW d \in Daemons, Uninstall(d) \/ Install(d) \/ WriteFails(d) \/ Leave(d)
      PROVE  StateWritten' /\ LockedOwner'
  BY <1>4 DEF Uninstall, Install, WriteFails, Leave
<1>5. ASSUME NEW d \in Daemons, RemoveState(d) PROVE StateWritten' /\ LockedOwner'
  BY <1>5 DEF RemoveState
<1>6. ASSUME NEW d \in Daemons, WriteState(d) PROVE StateWritten' /\ LockedOwner'
  BY <1>6 DEF WriteState
<1>7. ASSUME NEW d \in Daemons, Unwind(d) \/ Crash(d)
      PROVE  StateWritten' /\ LockedOwner'
  BY <1>7 DEF Unwind, Crash
<1>8. ASSUME NEW c \in Cleaners, StopSignals(c) PROVE StateWritten' /\ LockedOwner'
  <2>1. target[c] \in Daemons
    BY <1>8 DEF StopSignals
  <2> QED
    BY <1>8, <2>1 DEF StopSignals
<1>9. ASSUME NEW c \in Cleaners, CleanState(c) PROVE StateWritten' /\ LockedOwner'
  BY <1>9 DEF CleanState
<1>10. CASE UNCHANGED <<daemon, lock, state>>
  BY <1>10
<1> QED
  BY <1>1, <1>2, <1>3, <1>4, <1>5, <1>6, <1>7, <1>8, <1>9, <1>10
     DEF Next, DaemonStep, CleanerStep, Stop, Teardown, StopLoads, StopSeesDead,
         StopTimesOut, CleanNetwork, vars

\* Only the holder of the lock installs, uninstalls, writes or removes, as long
\* as no cleaning command has.
LEMMA RuntimeNext ==
  ASSUME TypeOK, LockedOwner, InstalledOwns, RunningOwnsRuntime, [Next]_vars
  PROVE  InstalledOwns' /\ RunningOwnsRuntime'
<1> DEFINE Kept == InstalledOwns' /\ RunningOwnsRuntime'
<1> USE DEF TypeOK, DaemonPc, LockedOwner, Owns, InstalledOwns,
            RunningOwnsRuntime, Meddled, DaemonGoes, CleanerGoes, Ends
<1>1. ASSUME NEW d \in Daemons, Start(d) \/ TakeLock(d) \/ LoadState(d) PROVE Kept
  BY <1>1 DEF Start, TakeLock, LoadState
<1>2. ASSUME NEW d \in Daemons, Uninstall(d) \/ RemoveState(d) PROVE Kept
  BY <1>2 DEF Uninstall, RemoveState
<1>3. ASSUME NEW d \in Daemons, Install(d) \/ WriteState(d) PROVE Kept
  BY <1>3 DEF Install, WriteState
<1>4. ASSUME NEW d \in Daemons, WriteFails(d) \/ Unwind(d) PROVE Kept
  BY <1>4 DEF WriteFails, Unwind
<1>5. ASSUME NEW d \in Daemons, Leave(d) \/ Crash(d) PROVE Kept
  BY <1>5 DEF Leave, Crash
<1>6. ASSUME NEW c \in Cleaners, StopSignals(c) PROVE Kept
  <2>1. target[c] \in Daemons
    BY <1>6, ProcessAssumption DEF StopSignals, ProcessAssumption
  <2>2. (\A b \in Cleaners : ~Meddled(b)') => \A b \in Cleaners : ~Meddled(b)
    BY <1>6 DEF StopSignals, CleanerPc
  <2>3. \A d \in Daemons : daemon'[d] \in {"write", "run"} => daemon'[d] = daemon[d]
    BY <1>6, <2>1 DEF StopSignals
  <2> QED
    BY <1>6, <2>2, <2>3 DEF StopSignals
<1>7. ASSUME NEW c \in Cleaners,
             \/ Stop(c) \/ Teardown(c) \/ StopLoads(c) \/ StopSeesDead(c)
             \/ StopTimesOut(c)
      PROVE  Kept
  <2>1. (\A b \in Cleaners : ~Meddled(b)') => \A b \in Cleaners : ~Meddled(b)
    BY <1>7 DEF Stop, Teardown, StopLoads, StopSeesDead, StopTimesOut, CleanerPc
  <2>2. UNCHANGED <<daemon, state, network>>
    BY <1>7 DEF Stop, Teardown, StopLoads, StopSeesDead, StopTimesOut
  <2> QED
    BY <2>1, <2>2
<1>8. ASSUME NEW c \in Cleaners, CleanNetwork(c) \/ CleanState(c) PROVE Kept
  <2>1. Meddled(c)'
    BY <1>8 DEF CleanNetwork, CleanState, CleanerPc
  <2> QED
    BY <2>1
<1>9. CASE UNCHANGED vars
  BY <1>9 DEF vars
<1> QED
  BY <1>1, <1>2, <1>3, <1>4, <1>5, <1>6, <1>7, <1>8, <1>9
     DEF Next, DaemonStep, CleanerStep

\* Every reachable state satisfies the inductive invariant.
THEOREM Invariance == Spec => []IInv
<1>1. Init => IInv
  BY ProcessAssumption
     DEF Init, IInv, TypeOK, DaemonPc, CleanerPc, StateWritten, LockedOwner, Owns,
         Alive, InstalledOwns, RunningOwnsRuntime, ProcessAssumption
<1>2. IInv /\ [Next]_vars => IInv'
  BY TypeNext, OwnerNext, RuntimeNext DEF IInv
<1> QED
  BY <1>1, <1>2, PTL DEF Spec

\* The lock, the saved pid and the network name known processes only, and stop
\* signals and awaits only a pid it has read.
THEOREM TypeCorrect == Spec => []TypeOK
<1>1. IInv => TypeOK
  BY DEF IInv
<1> QED
  BY <1>1, Invariance, PTL

\* At most one `conet-l0d start` is past acquire_instance_lock, and a live pid
\* in the state file is the holder's.
THEOREM OneOwner == Spec => []LockedOwner
<1>1. IInv => LockedOwner
  BY DEF IInv
<1> QED
  BY <1>1, Invariance, PTL

\* Without a stop or teardown a running daemon keeps its network and state.
THEOREM RunningUndisturbed == Spec => []RunningOwnsRuntime
<1>1. IInv => RunningOwnsRuntime
  BY DEF IInv
<1> QED
  BY <1>1, Invariance, PTL

-----------------------------------------------------------------------------
(* The loopback listeners (LocalBinds), for any targets, any number of     *)
(* ports and any stride of the walk.                                       *)

\* The targets as they are read, and how far the configuration has come.
Read ==
  /\ phase = "override" => bindPorts = <<>> /\ plans = <<>> /\ turn = 1
  /\ phase # "override" =>
       Len(targets) = Len(given) /\ (source = "file" => targets = given)
  /\ phase = "validate" => turn = Len(bindPorts) + 1 /\ plans = <<>>
  /\ phase \in {"plan", "bind", "up"} => Len(bindPorts) = Len(targets)
  /\ phase = "plan" =>
       Len(plans) < turn /\ (\A k \in DOMAIN plans : plans[k] < turn)
  /\ phase \in {"bind", "up"} => Len(plans) <= Len(targets)
  /\ phase \notin {"bind", "up"} =>
       /\ candidate = 0 /\ claimed = {}
       /\ \A i \in 1 .. Len(given) : listeners[i] = 0

\* No two targets are assigned one port, and a pin is one's port.
Assigned ==
  /\ Len(bindPorts) <= Len(targets)
  /\ \A i, j \in 1 .. Len(bindPorts) : bindPorts[i] = bindPorts[j] => i = j
  /\ \A i \in 1 .. Len(bindPorts) :
       targets[i].local # 0 => bindPorts[i] = targets[i].local
  /\ \A k \in 1 .. Len(plans) : plans[k] \in 1 .. Len(targets)
  /\ \A k, l \in 1 .. Len(plans) : plans[k] = plans[l] => k = l

\* The port a plan is assigned, those it may take, and whether its turn is to
\* come.
PortOf(k) == bindPorts[plans[k]]
MayTake(k) == Binds!Candidates(PortOf(k), targets[plans[k]].local # 0)
Coming(k) == k > turn \/ (k = turn /\ candidate = 0)

\* The listeners' work: what is reserved, what is claimed, and what is tried.
Walking ==
  /\ phase \in {"bind", "up"} =>
       /\ turn <= Len(plans) + 1
       /\ \A p \in Binds!PortNumber :
            p \in reserved <=> \E k \in 1 .. Len(plans) : Coming(k) /\ p = PortOf(k)
       /\ \A p \in claimed : \E i \in 1 .. Len(given) : listeners[i] = p
       /\ \A i \in 1 .. Len(given) : listeners[i] # 0 => listeners[i] \in claimed
       /\ \A k \in 1 .. Len(plans) : k >= turn => listeners[plans[k]] = 0
  /\ candidate # 0 => turn <= Len(plans) /\ candidate \in MayTake(turn)
  /\ phase = "up" => turn = Len(plans) + 1 /\ candidate = 0

BindsInv == Binds!TypeOK /\ Read /\ Assigned /\ Walking /\ Binds!PinKept

\* What keeps a target from a port that it gave up.
Excuses(i) ==
  busy \cup {listeners[j] : j \in DOMAIN listeners \ {i}}
       \cup {bindPorts[j] : j \in Binds!ToSet(plans) \ {i}}

\* While no port is released: a plan that has left its own port found it
\* taken, and has an excuse for every port it left.
Left ==
  phase \in {"bind", "up"} =>
    \A k \in 1 .. Len(plans) :
      /\ k < turn \/ (k = turn /\ candidate \notin {0, PortOf(k)})
           => PortOf(k) \in busy \cup claimed
      /\ k < turn /\ listeners[plans[k]] = 0 => MayTake(k) \subseteq Excuses(plans[k])
      /\ k = turn /\ candidate # 0 =>
           \A p \in MayTake(k) : p < candidate => p \in Excuses(plans[k])

QuietInv == Left /\ Binds!NotAnothersBind

\* The inductive invariant of the listeners in the composition.
HostBinds ==
  /\ part \in {"binds", "churn"} => BindsInv
  /\ part = "binds" => QuietInv

-----------------------------------------------------------------------------
(* Constants, minima and the walk *)

LEMMA BindsFacts ==
  /\ MaxPort \in Nat /\ Stride \in Nat /\ Stride >= 1 /\ MaxTargets \in Nat
  /\ Binds!PortNumber = 1 .. MaxPort
  /\ LogicalPorts \subseteq 1 .. MaxPort
  /\ Locals \subseteq 0 .. MaxPort /\ 0 \in Locals
BY MCBinds DEF Binds!BindsAssumption, Binds!PortNumber

LEMMA Smallest ==
  ASSUME NEW S \in SUBSET Nat, S # {}
  PROVE  \E n \in S : \A m \in S : n <= m
<1> DEFINE R == {ss \in Nat \X Nat : ss[1] < ss[2]}
<1>1. IsWellFoundedOn(R, Nat)
  BY NatLessThanWellFounded DEF OpToRel
<1>2. \E n \in S : \A m \in S : ~ (<<m, n>> \in R)
  <2> HIDE DEF R
  <2> QED BY <1>1, WFMin
<1>3. \A m, n \in S : m < n => <<m, n>> \in R
  OBVIOUS
<1>4. \A m, n \in S : m < n \/ n <= m
  OBVIOUS
<1> HIDE DEF R
<1> QED BY <1>2, <1>3, <1>4

LEMMA SmallestOf ==
  ASSUME NEW S \in SUBSET Nat, S # {}
  PROVE  Binds!Min(S) \in S
BY Smallest DEF Binds!Min

\* A walk steps from one candidate to the next and passes over none.
LEMMA WalkGap ==
  ASSUME NEW start \in Binds!PortNumber, NEW c \in Binds!Candidates(start, FALSE),
         NEW p \in Binds!Candidates(start, FALSE), p < c + Stride
  PROVE  p <= c
<1> USE BindsFacts
<1>1. PICK n \in 0 .. MaxPort : c = start + n * Stride
  BY DEF Binds!Candidates
<1>2. PICK m \in 0 .. MaxPort : p = start + m * Stride
  BY DEF Binds!Candidates
<1>3. c + Stride = start + (n + 1) * Stride
  BY <1>1
<1>4. m * Stride < (n + 1) * Stride
  BY <1>2, <1>3
<1>5. m <= n
  <2>1. ASSUME m >= n + 1 PROVE FALSE
    <3>1. (m - (n + 1)) * Stride >= 0
      BY <2>1
    <3> QED BY <1>4, <3>1
  <2> QED BY <2>1
<1>6. (n - m) * Stride >= 0
  BY <1>5
<1> QED BY <1>1, <1>2, <1>6

LEMMA WalkStep ==
  ASSUME NEW start \in Binds!PortNumber, NEW c \in Binds!Candidates(start, FALSE),
         ~ Binds!LastCandidate(c)
  PROVE  c + Stride \in Binds!Candidates(start, FALSE)
<1> USE BindsFacts
<1>1. PICK n \in 0 .. MaxPort : c = start + n * Stride
  BY DEF Binds!Candidates
<1>2. c \in 1 .. MaxPort /\ c + Stride <= MaxPort
  BY DEF Binds!Candidates, Binds!LastCandidate
<1>3. c + Stride = start + (n + 1) * Stride
  BY <1>1
<1>4. n + 1 <= (n + 1) * Stride
  OBVIOUS
<1>5. PICK k \in 0 .. MaxPort : k = n + 1
  BY <1>2, <1>3, <1>4
<1>6. c + Stride = start + k * Stride /\ c + Stride \in Binds!PortNumber
  BY <1>2, <1>3, <1>5
<1> HIDE BindsFacts
<1> QED BY <1>6 DEF Binds!Candidates

\* Whichever way a target is bound, the first port tried is its own.
LEMMA OwnPortFirst ==
  ASSUME NEW start \in Binds!PortNumber, NEW explicit \in BOOLEAN
  PROVE  /\ start \in Binds!Candidates(start, explicit)
         /\ Binds!Candidates(start, explicit) \subseteq Binds!PortNumber
         /\ explicit => Binds!Candidates(start, explicit) = {start}
         /\ \A p \in Binds!Candidates(start, explicit) : p >= start
<1> USE BindsFacts
<1>1. start = start + 0 * Stride /\ 0 \in 0 .. MaxPort
  OBVIOUS
<1>2. \A n \in 0 .. MaxPort : start + n * Stride >= start
  OBVIOUS
<1> QED BY <1>1, <1>2 DEF Binds!Candidates

-----------------------------------------------------------------------------
(* The configuration *)

LEMMA BindsInit == Binds!Init => BindsInv /\ QuietInv
<1> SUFFICES ASSUME Binds!Init PROVE BindsInv /\ QuietInv
  OBVIOUS
<1> USE BindsFacts
<1>1. given \in Seq(Binds!Target) /\ Len(given) \in Nat /\ Len(given) <= MaxTargets
  <2>1. PICK m \in 0 .. MaxTargets : given \in [1 .. m -> Binds!Target]
    BY DEF Binds!Init, Binds!SeqOf
  <2>2. given \in Seq(Binds!Target)
    BY <2>1, SeqDef
  <2>3. Len(given) = m
    BY <2>1, <2>2, LenProperties
  <2> QED BY <2>2, <2>3
<1>2. /\ phase = "override" /\ targets = <<>> /\ bindPorts = <<>> /\ plans = <<>>
      /\ turn = 1 /\ candidate = 0 /\ reserved = {} /\ claimed = {}
      /\ listeners = [i \in 1 .. Len(given) |-> 0]
      /\ source \in Sources /\ busy \subseteq 1 .. MaxPort
  BY DEF Binds!Init
<1>3. Binds!TypeOK
  BY <1>1, <1>2 DEF Binds!TypeOK, Binds!Phase
<1>4. Read
  BY <1>1, <1>2 DEF Read
<1>5. Assigned /\ Walking
  BY <1>2 DEF Assigned, Walking
<1>6. Binds!PinKept
  BY <1>1, <1>2 DEF Binds!PinKept
<1>7. Left /\ Binds!NotAnothersBind
  BY <1>2 DEF Left, Binds!NotAnothersBind, Binds!ToSet
<1> QED BY <1>3, <1>4, <1>5, <1>6, <1>7 DEF BindsInv, QuietInv

LEMMA Overridden == ASSUME BindsInv, Binds!ApplyOverrides PROVE BindsInv' /\ Left'
<1> USE BindsFacts
<1>1. /\ phase = "override" /\ phase' = "validate"
      /\ UNCHANGED <<given, source, bindPorts, plans, turn, reserved, claimed,
                     candidate, listeners, busy>>
      /\ given \in Seq(Binds!Target)
  BY DEF BindsInv, Binds!ApplyOverrides, Binds!TypeOK
<1>2. /\ targets' \in Seq(Binds!Target) /\ Len(targets') = Len(given)
      /\ source = "file" => targets' = given
  <2>1. CASE source = "cli"
    <3>1. /\ given \in [1 .. Len(given) -> Binds!Target] /\ Len(given) \in Nat
      BY <1>1, LenProperties
    <3>2. targets' \in [1 .. Len(given) -> Binds!Target]
      BY <2>1, <3>1 DEF Binds!ApplyOverrides, Binds!Displayed, Binds!Target
    <3>3. targets' \in Seq(Binds!Target)
      BY <3>1, <3>2, SeqDef
    <3>4. Len(targets') = Len(given)
      BY <3>1, <3>2, <3>3, LenProperties
    <3> QED BY <2>1, <3>3, <3>4
  <2>2. CASE source # "cli"
    BY <1>1, <2>2 DEF Binds!ApplyOverrides
  <2> QED BY <2>1, <2>2
<1>3. bindPorts = <<>> /\ plans = <<>> /\ turn = 1 /\ candidate = 0 /\ claimed = {}
  BY <1>1 DEF BindsInv, Read
<1>4. Binds!TypeOK'
  BY <1>1, <1>2 DEF BindsInv, Binds!TypeOK, Binds!Phase
<1>5. Read'
  BY <1>1, <1>2, <1>3 DEF BindsInv, Read
<1>6. Assigned' /\ Walking'
  <2>1. Len(given) \in Nat
    BY <1>1, LenProperties
  <2> QED BY <1>1, <1>2, <1>3, <2>1 DEF Assigned, Walking
<1>7. Binds!PinKept'
  BY <1>1 DEF BindsInv, Binds!PinKept
<1> QED BY <1>1, <1>4, <1>5, <1>6, <1>7 DEF BindsInv, Left

LEMMA TargetValidated == ASSUME BindsInv, Binds!ValidateTarget PROVE BindsInv' /\ Left'
<1> USE BindsFacts
<1> DEFINE t == targets[turn]
<1>1. /\ phase = "validate" /\ turn <= Len(targets)
      /\ UNCHANGED <<given, source, targets, plans, reserved, claimed, candidate,
                     listeners, busy>>
      /\ \/ phase' = "refused" /\ UNCHANGED <<bindPorts, turn>>
         \/ /\ phase' = phase /\ ~ Binds!Refuses(t) /\ turn' = turn + 1
            /\ bindPorts' = Append(bindPorts, IF t.local # 0 THEN t.local
                                              ELSE Binds!Min(Binds!NextBind(t.port)))
  BY DEF Binds!ValidateTarget
<1>2. /\ turn = Len(bindPorts) + 1 /\ plans = <<>> /\ candidate = 0 /\ claimed = {}
      /\ Len(targets) = Len(given) /\ Len(targets) \in Nat /\ Len(targets) <= MaxTargets
      /\ \A i \in 1 .. Len(given) : listeners[i] = 0
      /\ bindPorts \in Seq(1 .. MaxPort) /\ Len(bindPorts) \in Nat
      /\ targets \in Seq(Binds!Target)
  BY <1>1, LenProperties DEF BindsInv, Read, Binds!TypeOK
<1>3. CASE phase' = "refused" /\ UNCHANGED <<bindPorts, turn>>
  <2>1. Binds!TypeOK'
    BY <1>1, <1>3 DEF BindsInv, Binds!TypeOK, Binds!Phase
  <2>2. Read'
    BY <1>1, <1>2, <1>3 DEF BindsInv, Read
  <2>3. Assigned' /\ Walking' /\ Binds!PinKept'
    BY <1>1, <1>2, <1>3 DEF BindsInv, Assigned, Walking, Binds!PinKept
  <2> QED BY <1>3, <2>1, <2>2, <2>3 DEF BindsInv, Left
<1>4. CASE /\ phase' = phase /\ ~ Binds!Refuses(t) /\ turn' = turn + 1
           /\ bindPorts' = Append(bindPorts, IF t.local # 0 THEN t.local
                                             ELSE Binds!Min(Binds!NextBind(t.port)))
  <2>1. t \in Binds!Target
    BY <1>1, <1>2, ElementOfSeq
  <2>2. PICK x : x = IF t.local # 0 THEN t.local ELSE Binds!Min(Binds!NextBind(t.port))
    OBVIOUS
  <2>3. /\ x \in 1 .. MaxPort /\ (t.local # 0 => x = t.local)
        /\ x \notin Binds!ToSet(bindPorts)
    <3>1. CASE t.local # 0
      <4>1. t.local \in Locals /\ x = t.local
        BY <2>1, <2>2, <3>1 DEF Binds!Target
      <4>2. x \in 0 .. MaxPort /\ x # 0
        BY <3>1, <4>1
      <4>3. x \notin Binds!ToSet(bindPorts)
        BY <1>4, <3>1, <4>1 DEF Binds!Refuses
      <4> QED BY <4>1, <4>2, <4>3
    <3>2. CASE t.local = 0
      <4>1. Binds!NextBind(t.port) # {}
        BY <1>4, <3>2 DEF Binds!Refuses
      <4>2. Binds!NextBind(t.port) \subseteq (1 .. MaxPort) \ Binds!ToSet(bindPorts)
        BY DEF Binds!NextBind, Binds!Candidates
      <4>3. x \in Binds!NextBind(t.port)
        BY <2>2, <3>2, <4>1, <4>2, SmallestOf
      <4> QED BY <3>2, <4>2, <4>3
    <3> QED BY <3>1, <3>2
  <2>4. /\ bindPorts' \in Seq(1 .. MaxPort) /\ Len(bindPorts') = Len(bindPorts) + 1
        /\ \A i \in 1 .. Len(bindPorts) : bindPorts'[i] = bindPorts[i]
        /\ bindPorts'[turn] = x
    BY <1>2, <1>4, <2>2, <2>3, AppendProperties
  <2>5. \A i \in 1 .. Len(bindPorts) : bindPorts[i] # x
    BY <1>2, <2>3, LenProperties DEF Binds!ToSet
  <2> HIDE DEF t
  <2>6. Binds!TypeOK'
    BY <1>1, <1>2, <1>4, <2>4 DEF BindsInv, Binds!TypeOK
  <2>7. Read'
    BY <1>1, <1>2, <1>4, <2>4 DEF BindsInv, Read
  <2>8. Assigned'
    <3>1. \A i \in 1 .. Len(bindPorts') : i = turn \/ i \in 1 .. Len(bindPorts)
      BY <1>2, <2>4
    <3>2. ASSUME NEW i \in 1 .. Len(bindPorts'), NEW j \in 1 .. Len(bindPorts'),
                 bindPorts'[i] = bindPorts'[j]
          PROVE  i = j
      <4>1. CASE i = turn \/ j = turn
        BY <4>1, <3>1, <3>2, <2>4, <2>5
      <4>2. CASE i \in 1 .. Len(bindPorts) /\ j \in 1 .. Len(bindPorts)
        BY <4>2, <3>2, <2>4 DEF BindsInv, Assigned
      <4> QED BY <3>1, <4>1, <4>2
    <3>3. \A i \in 1 .. Len(bindPorts') :
            targets[i].local # 0 => bindPorts'[i] = targets[i].local
      BY <3>1, <2>3, <2>4 DEF BindsInv, Assigned, t
    <3> QED BY <1>1, <1>2, <2>4, <3>2, <3>3, SMTT(30) DEF Assigned
  <2>9. Walking' /\ Binds!PinKept'
    BY <1>1, <1>2, <1>4 DEF BindsInv, Walking, Binds!PinKept
  <2> QED BY <1>1, <1>4, <2>6, <2>7, <2>8, <2>9 DEF BindsInv, Left
<1> QED BY <1>1, <1>3, <1>4

LEMMA AllValidated == ASSUME BindsInv, Binds!Validated PROVE BindsInv' /\ Left'
<1> USE BindsFacts
<1>1. /\ phase = "validate" /\ turn = Len(targets) + 1 /\ phase' = "plan" /\ turn' = 1
      /\ UNCHANGED <<given, source, targets, bindPorts, plans, reserved, claimed,
                     candidate, listeners, busy>>
  BY DEF Binds!Validated
<1>2. /\ Len(bindPorts) = Len(targets) /\ plans = <<>> /\ Len(targets) \in Nat
  <2>1. Len(bindPorts) \in Nat /\ Len(targets) \in Nat
    BY LenProperties DEF BindsInv, Binds!TypeOK
  <2> QED BY <1>1, <2>1 DEF BindsInv, Read
<1>3. Binds!TypeOK'
  BY <1>1 DEF BindsInv, Binds!TypeOK, Binds!Phase
<1>4. Read'
  BY <1>1, <1>2 DEF BindsInv, Read
<1>5. Assigned' /\ Walking' /\ Binds!PinKept'
  BY <1>1, <1>2 DEF BindsInv, Read, Assigned, Walking, Binds!PinKept
<1> QED BY <1>1, <1>3, <1>4, <1>5 DEF BindsInv, Left

LEMMA TargetPlanned == ASSUME BindsInv, Binds!PlanTarget PROVE BindsInv' /\ Left'
<1> USE BindsFacts
<1>1. /\ phase = "plan" /\ turn <= Len(targets) /\ turn' = turn + 1
      /\ plans' = plans \/ plans' = Append(plans, turn)
      /\ UNCHANGED <<given, source, phase, targets, bindPorts, reserved, claimed,
                     candidate, listeners, busy>>
  BY DEF Binds!PlanTarget
<1>2. /\ plans \in Seq(1 .. MaxTargets) /\ Len(plans) \in Nat /\ turn \in Nat /\ turn >= 1
      /\ Len(plans) < turn /\ DOMAIN plans = 1 .. Len(plans)
      /\ \A k \in 1 .. Len(plans) : plans[k] \in 1 .. MaxTargets /\ plans[k] < turn
      /\ Len(targets) \in Nat /\ Len(targets) = Len(given) /\ Len(targets) <= MaxTargets
      /\ candidate = 0
  BY <1>1, LenProperties, ElementOfSeq, SMTT(30) DEF BindsInv, Read, Binds!TypeOK
<1>3. PICK q : q = plans'
  OBVIOUS
<1>4. /\ q \in Seq(1 .. MaxTargets) /\ Len(q) <= Len(plans) + 1 /\ DOMAIN q = 1 .. Len(q)
      /\ Len(q) \in Nat
      /\ \A k \in 1 .. Len(q) :
           \/ k \in 1 .. Len(plans) /\ q[k] = plans[k]
           \/ k = Len(plans) + 1 /\ q[k] = turn
  <2>1. CASE q = plans
    BY <2>1, <1>2
  <2>2. CASE q = Append(plans, turn)
    <3>1. /\ q \in Seq(1 .. MaxTargets) /\ Len(q) = Len(plans) + 1
          /\ \A k \in 1 .. Len(plans) : q[k] = plans[k]
          /\ q[Len(plans) + 1] = turn
      BY <1>1, <1>2, <2>2, AppendProperties
    <3> QED BY <3>1, <1>2, LenProperties
  <2> QED BY <1>1, <1>3, <2>1, <2>2
<1>5. turn' = turn + 1 /\ turn \in 1 .. Len(targets)
  BY <1>1, <1>2
<1>6. ASSUME NEW k \in 1 .. Len(q) PROVE q[k] <= turn /\ q[k] \in Nat
  <2>1. CASE k \in 1 .. Len(plans) /\ q[k] = plans[k]
    <3>1. plans[k] \in 1 .. MaxTargets /\ plans[k] < turn
      BY <1>2, <2>1
    <3> QED BY <2>1, <3>1, <1>5
  <2>2. CASE q[k] = turn
    BY <2>2, <1>5
  <2> QED BY <1>4, <2>1, <2>2
<1>7. Binds!TypeOK'
  <2>1. turn' \in 1 .. MaxTargets + 1
    BY <1>2, <1>5
  <2> QED BY <1>1, <1>3, <1>4, <2>1 DEF BindsInv, Binds!TypeOK
<1>8. Read'
  <2>1. Len(q) < turn'
    BY <1>2, <1>4, <1>5
  <2>2. \A k \in DOMAIN q : q[k] < turn'
    BY <1>2, <1>4, <1>5, <1>6
  <2> QED BY <1>1, <1>3, <2>1, <2>2 DEF BindsInv, Read
<1>9. Assigned'
  <2>1. ASSUME NEW k \in 1 .. Len(q) PROVE q[k] \in 1 .. Len(targets)
    BY <1>4, <1>5 DEF BindsInv, Assigned
  <2>2. ASSUME NEW k \in 1 .. Len(q), NEW l \in 1 .. Len(q), q[k] = q[l] PROVE k = l
    <3>1. CASE k \in 1 .. Len(plans) /\ l \in 1 .. Len(plans)
      <4>1. k # Len(plans) + 1 /\ l # Len(plans) + 1
        BY <1>2, <3>1
      <4>2. q[k] = plans[k] /\ q[l] = plans[l]
        BY <1>4, <4>1
      <4> QED BY <2>2, <3>1, <4>2 DEF BindsInv, Assigned
    <3>2. CASE k = Len(plans) + 1 /\ q[k] = turn /\ l \in 1 .. Len(plans) /\ q[l] = plans[l]
      <4>1. plans[l] < turn /\ plans[l] \in 1 .. MaxTargets
        BY <1>2, <3>2
      <4> QED BY <2>2, <3>2, <4>1, <1>5
    <3>3. CASE l = Len(plans) + 1 /\ q[l] = turn /\ k \in 1 .. Len(plans) /\ q[k] = plans[k]
      <4>1. plans[k] < turn /\ plans[k] \in 1 .. MaxTargets
        BY <1>2, <3>3
      <4> QED BY <2>2, <3>3, <4>1, <1>5
    <3> QED BY <1>4, <3>1, <3>2, <3>3
  <2> QED BY <1>1, <1>3, <2>1, <2>2 DEF BindsInv, Assigned
<1>10. Walking' /\ Binds!PinKept'
  BY <1>1, <1>2 DEF BindsInv, Walking, Binds!PinKept
<1> QED BY <1>1, <1>7, <1>8, <1>9, <1>10 DEF BindsInv, Left

LEMMA AllPlanned == ASSUME BindsInv, Binds!Planned PROVE BindsInv' /\ Left'
<1> USE BindsFacts
<1>1. /\ phase = "plan" /\ phase' = "bind" /\ turn' = 1
      /\ reserved' = {bindPorts[i] : i \in Binds!ToSet(plans)}
      /\ UNCHANGED <<given, source, targets, bindPorts, plans, claimed, candidate,
                     listeners, busy>>
  BY DEF Binds!Planned
<1>2. /\ plans \in Seq(1 .. MaxTargets) /\ Len(plans) \in Nat
      /\ DOMAIN plans = 1 .. Len(plans)
      /\ Binds!ToSet(plans) = {plans[k] : k \in 1 .. Len(plans)}
  BY LenProperties DEF BindsInv, Binds!TypeOK, Binds!ToSet
<1>3. /\ candidate = 0 /\ claimed = {} /\ Len(targets) = Len(given)
      /\ Len(bindPorts) = Len(targets)
      /\ \A i \in 1 .. Len(given) : listeners[i] = 0
      /\ \A k \in 1 .. Len(plans) : plans[k] \in 1 .. Len(targets)
      /\ bindPorts \in Seq(1 .. MaxPort)
  BY <1>1 DEF BindsInv, Read, Assigned, Binds!TypeOK
<1>4. \A k \in 1 .. Len(plans) : bindPorts[plans[k]] \in 1 .. MaxPort
  BY <1>3, ElementOfSeq
<1>5. Binds!TypeOK'
  <2>1. reserved' \subseteq 1 .. MaxPort
    BY <1>1, <1>2, <1>4
  <2> QED BY <1>1, <2>1 DEF BindsInv, Binds!TypeOK, Binds!Phase
<1>6. Read'
  <2>1. Len(plans) <= Len(targets)
    <3>1. turn = Len(targets) + 1 /\ Len(plans) < turn /\ Len(targets) \in Nat
      BY <1>1, LenProperties DEF BindsInv, Read, Binds!TypeOK, Binds!Planned
    <3> QED BY <3>1, <1>2
  <2> QED BY <1>1, <1>3, <2>1 DEF BindsInv, Read
<1>7. Assigned' /\ Binds!PinKept'
  BY <1>1 DEF BindsInv, Assigned, Binds!PinKept
<1>8. Walking'
  <2>1. \A p : p \in reserved' <=> \E k \in 1 .. Len(plans) : p = bindPorts[plans[k]]
    BY <1>1, <1>2
  <2>2. \A k \in 1 .. Len(plans) : k > 1 \/ k = 1
    OBVIOUS
  <2> QED BY <1>1, <1>2, <1>3, <2>1, <2>2, SMTT(30) DEF Walking, Coming, PortOf
<1>9. Left'
  BY <1>1, <1>3 DEF Left
<1> QED BY <1>5, <1>6, <1>7, <1>8, <1>9 DEF BindsInv

-----------------------------------------------------------------------------
(* The listeners' work *)

\* What holds of the plans while the listeners are bound.
LEMMA PlanFacts ==
  ASSUME BindsInv, phase \in {"bind", "up"}
  PROVE  /\ plans \in Seq(1 .. MaxTargets) /\ Len(plans) \in Nat
         /\ Binds!ToSet(plans) = {plans[k] : k \in 1 .. Len(plans)}
         /\ Len(given) \in Nat /\ DOMAIN listeners = 1 .. Len(given)
         /\ listeners \in [1 .. Len(given) -> 0 .. MaxPort]
         /\ \A k \in 1 .. Len(plans) :
              /\ plans[k] \in 1 .. Len(given)
              /\ targets[plans[k]] \in Binds!Target
              /\ PortOf(k) \in 1 .. MaxPort
              /\ targets[plans[k]].local # 0 => PortOf(k) = targets[plans[k]].local
              /\ PortOf(k) \in MayTake(k) /\ MayTake(k) \subseteq 1 .. MaxPort
         /\ \A k, l \in 1 .. Len(plans) :
              /\ plans[k] = plans[l] => k = l
              /\ PortOf(k) = PortOf(l) => k = l
         /\ turn \in Nat /\ turn >= 1 /\ turn <= MaxTargets + 1
         /\ candidate \in 0 .. MaxPort
<1> USE BindsFacts
<1>1. /\ plans \in Seq(1 .. MaxTargets) /\ given \in Seq(Binds!Target)
      /\ targets \in Seq(Binds!Target) /\ bindPorts \in Seq(1 .. MaxPort)
      /\ listeners \in [1 .. Len(given) -> 0 .. MaxPort]
      /\ turn \in 1 .. MaxTargets + 1 /\ candidate \in 0 .. MaxPort
  BY DEF BindsInv, Binds!TypeOK
<1>2. /\ Len(plans) \in Nat /\ DOMAIN plans = 1 .. Len(plans)
      /\ Len(given) \in Nat /\ DOMAIN listeners = 1 .. Len(given)
  BY <1>1, LenProperties
<1>3. Binds!ToSet(plans) = {plans[k] : k \in 1 .. Len(plans)}
  BY <1>2 DEF Binds!ToSet
<1>4. Len(bindPorts) = Len(targets) /\ Len(targets) = Len(given)
  BY DEF BindsInv, Read
<1>5. ASSUME NEW k \in 1 .. Len(plans)
      PROVE  /\ plans[k] \in 1 .. Len(given)
             /\ targets[plans[k]] \in Binds!Target
             /\ PortOf(k) \in 1 .. MaxPort
             /\ targets[plans[k]].local # 0 => PortOf(k) = targets[plans[k]].local
             /\ PortOf(k) \in MayTake(k) /\ MayTake(k) \subseteq 1 .. MaxPort
  <2>1. plans[k] \in 1 .. Len(given)
    BY <1>4 DEF BindsInv, Assigned
  <2>2. targets[plans[k]] \in Binds!Target /\ PortOf(k) \in 1 .. MaxPort
    BY <1>1, <1>4, <2>1, ElementOfSeq DEF PortOf
  <2>3. targets[plans[k]].local # 0 => PortOf(k) = targets[plans[k]].local
    BY <1>4, <2>1 DEF BindsInv, Assigned, PortOf
  <2>4. PortOf(k) \in MayTake(k) /\ MayTake(k) \subseteq 1 .. MaxPort
    BY <2>2, OwnPortFirst DEF MayTake
  <2> QED BY <2>1, <2>2, <2>3, <2>4
<1>6. ASSUME NEW k \in 1 .. Len(plans), NEW l \in 1 .. Len(plans)
      PROVE  /\ plans[k] = plans[l] => k = l
             /\ PortOf(k) = PortOf(l) => k = l
  <2>1. plans[k] = plans[l] => k = l
    BY DEF BindsInv, Assigned
  <2>2. PortOf(k) = PortOf(l) => plans[k] = plans[l]
    BY <1>4, <1>5 DEF BindsInv, Assigned, PortOf
  <2> QED BY <2>1, <2>2
<1> QED BY <1>1, <1>2, <1>3, <1>5, <1>6

\* Every plan is of another target.
LEMMA PlansBounded ==
  ASSUME BindsInv, phase \in {"bind", "up"}
  PROVE  Len(plans) <= MaxTargets
<1>1. /\ Len(plans) <= Len(targets) /\ Len(targets) = Len(given)
      /\ Len(given) <= MaxTargets /\ Len(given) \in Nat /\ Len(plans) \in Nat
  BY PlanFacts DEF BindsInv, Read, Binds!TypeOK
<1> QED BY <1>1, BindsFacts

\* While the configuration stands: what is left to show of a listener's step.
LEMMA ConfigStands ==
  ASSUME BindsInv, phase \in {"bind", "up"}, phase' \in {"bind", "up"},
         UNCHANGED <<given, source, targets, bindPorts, plans>>
  PROVE  Read' /\ Assigned'
BY DEF BindsInv, Read, Assigned

LEMMA PlanTaken ==
  ASSUME BindsInv, Binds!TakePlan
  PROVE  BindsInv' /\ (Left => Left')
<1> USE BindsFacts
<1>1. /\ phase = "bind" /\ turn <= Len(plans) /\ candidate = 0
      /\ candidate' = PortOf(turn) /\ reserved' = reserved \ {PortOf(turn)}
      /\ UNCHANGED <<given, source, phase, targets, bindPorts, plans, turn, claimed,
                     listeners, busy>>
  BY DEF Binds!TakePlan, PortOf
<1>2. turn \in 1 .. Len(plans) /\ candidate' \in 1 .. MaxPort /\ candidate' # 0
  BY <1>1, PlanFacts
<1>3. \A k : PortOf(k)' = PortOf(k) /\ MayTake(k)' = MayTake(k)
  BY <1>1 DEF PortOf, MayTake, Binds!Candidates
<1>4. Binds!TypeOK'
  <2>1. reserved \subseteq Binds!PortNumber
    BY DEF BindsInv, Binds!TypeOK
  <2>2. reserved' \subseteq Binds!PortNumber
    BY <1>1, <2>1
  <2>3. candidate' \in 0 .. MaxPort
    BY <1>2
  <2> QED BY <1>1, <2>2, <2>3 DEF BindsInv, Binds!TypeOK
<1>5. Read' /\ Assigned' /\ Binds!PinKept'
  BY <1>1, ConfigStands DEF BindsInv, Binds!PinKept
<1>6. Walking'
  <2>1. \A k \in 1 .. Len(plans) : Coming(k)' <=> Coming(k) /\ k # turn
    BY <1>1, <1>2, PlanFacts DEF Coming
  <2>2. ASSUME NEW p \in Binds!PortNumber
        PROVE  p \in reserved' <=> \E k \in 1 .. Len(plans) : Coming(k)' /\ p = PortOf(k)
    <3>1. p \in reserved <=> \E k \in 1 .. Len(plans) : Coming(k) /\ p = PortOf(k)
      BY <1>1 DEF BindsInv, Walking
    <3>2. \A k \in 1 .. Len(plans) : PortOf(k) = PortOf(turn) => k = turn
      BY <1>1, <1>2, PlanFacts
    <3> QED BY <1>1, <2>1, <3>1, <3>2
  <2>3. candidate' \in MayTake(turn)
    BY <1>1, <1>2, PlanFacts
  <2> QED BY <1>1, <1>2, <1>3, <2>2, <2>3 DEF BindsInv, Walking
<1>7. ASSUME Left PROVE Left'
  <2>1. \A k : Excuses(plans[k])' = Excuses(plans[k])
    BY <1>1 DEF Excuses, Binds!ToSet
  <2>2. \A p \in MayTake(turn) : p >= PortOf(turn)
    BY <1>1, <1>2, PlanFacts, OwnPortFirst DEF MayTake
  <2>3. \A p \in MayTake(turn) : ~ (p < candidate')
    BY <1>1, <1>2, <2>2, PlanFacts
  <2> QED BY <1>1, <1>2, <1>3, <1>7, <2>1, <2>3 DEF Left
<1> QED BY <1>4, <1>5, <1>6, <1>7 DEF BindsInv

\* The plan whose turn it is, and the port that is tried for it.
LEMMA TurnFacts ==
  ASSUME BindsInv, phase = "bind", candidate # 0
  PROVE  /\ turn \in 1 .. Len(plans) /\ candidate \in MayTake(turn)
         /\ candidate \in 1 .. MaxPort
         /\ plans[turn] \in 1 .. Len(given) /\ listeners[plans[turn]] = 0
         /\ PortOf(turn) \in Binds!PortNumber
         /\ \/ /\ targets[plans[turn]].local # 0
               /\ MayTake(turn) = {PortOf(turn)}
            \/ /\ targets[plans[turn]].local = 0
               /\ MayTake(turn) = Binds!Candidates(PortOf(turn), FALSE)
<1> USE BindsFacts
<1>1. turn \in 1 .. Len(plans) /\ candidate \in MayTake(turn)
  BY PlanFacts DEF BindsInv, Walking
<1>2. /\ plans[turn] \in 1 .. Len(given) /\ PortOf(turn) \in Binds!PortNumber
      /\ candidate \in 1 .. MaxPort
  BY <1>1, PlanFacts
<1>3. listeners[plans[turn]] = 0
  BY <1>1, PlanFacts DEF BindsInv, Walking
<1>4. CASE targets[plans[turn]].local # 0
  BY <1>1, <1>2, <1>3, <1>4, OwnPortFirst DEF MayTake
<1>5. CASE targets[plans[turn]].local = 0
  BY <1>1, <1>2, <1>3, <1>5 DEF MayTake
<1> QED BY <1>4, <1>5

LEMMA CandidateLeft ==
  ASSUME BindsInv, Binds!NextCandidate
  PROVE  BindsInv'
<1> USE BindsFacts
<1>1. /\ phase = "bind" /\ candidate # 0
      /\ \/ /\ targets[plans[turn]].local = 0 /\ ~ Binds!LastCandidate(candidate)
            /\ candidate' = candidate + Stride /\ turn' = turn
         \/ candidate' = 0 /\ turn' = turn + 1
      /\ UNCHANGED <<given, source, phase, targets, bindPorts, plans, reserved, claimed,
                     listeners, busy>>
  BY DEF Binds!NextCandidate, Binds!Walks
<1>2. \A k : PortOf(k)' = PortOf(k) /\ MayTake(k)' = MayTake(k)
  BY <1>1 DEF PortOf, MayTake, Binds!Candidates
<1>3. \/ candidate' \in MayTake(turn) /\ candidate' \in 1 .. MaxPort /\ turn' = turn
      \/ candidate' = 0 /\ turn' = turn + 1
  <2>1. CASE /\ targets[plans[turn]].local = 0 /\ ~ Binds!LastCandidate(candidate)
             /\ candidate' = candidate + Stride /\ turn' = turn
    <3>1. candidate' \in MayTake(turn)
      BY <1>1, <2>1, TurnFacts, WalkStep
    <3>2. MayTake(turn) \subseteq 1 .. MaxPort
      BY <1>1, TurnFacts, PlanFacts
    <3> QED BY <2>1, <3>1, <3>2
  <2> QED BY <1>1, <2>1
<1>4. turn \in 1 .. Len(plans) /\ Len(plans) \in Nat /\ Len(plans) <= MaxTargets
  <2>1. turn \in 1 .. Len(plans) /\ Len(plans) \in Nat
    BY <1>1, TurnFacts, PlanFacts
  <2> QED BY <2>1, PlansBounded, <1>1
<1>5. Binds!TypeOK'
  <2>1. candidate' \in 0 .. MaxPort /\ turn' \in 1 .. MaxTargets + 1
    BY <1>3, <1>4
  <2> QED BY <1>1, <2>1 DEF BindsInv, Binds!TypeOK
<1>6. Read' /\ Assigned' /\ Binds!PinKept'
  BY <1>1, ConfigStands DEF BindsInv, Binds!PinKept
<1>7. Walking'
  <2>1. \A k \in 1 .. Len(plans) : Coming(k)' <=> Coming(k)
    BY <1>1, <1>3, <1>4 DEF Coming
  <2>2. \A k \in 1 .. Len(plans) : k >= turn' => k >= turn
    BY <1>3, <1>4
  <2>3. turn' <= Len(plans) + 1 /\ (candidate' # 0 => turn' = turn)
    BY <1>3, <1>4
  <2>4. /\ \A p \in Binds!PortNumber :
             p \in reserved' <=> \E k \in 1 .. Len(plans) : Coming(k)' /\ p = PortOf(k)'
        /\ \A p \in claimed' : \E i \in 1 .. Len(given) : listeners'[i] = p
        /\ \A i \in 1 .. Len(given) : listeners'[i] # 0 => listeners'[i] \in claimed'
        /\ \A k \in 1 .. Len(plans) : k >= turn' => listeners'[plans[k]] = 0
    BY <1>1, <1>2, <2>1, <2>2 DEF BindsInv, Walking
  <2>5. candidate' # 0 => turn' <= Len(plans) /\ candidate' \in MayTake(turn')
    BY <1>3, <1>4, <2>3
  <2> QED BY <1>1, <1>2, <2>3, <2>4, <2>5 DEF Walking
<1> QED BY <1>5, <1>6, <1>7 DEF BindsInv

LEMMA CandidateBound ==
  ASSUME BindsInv, Binds!BindCandidate
  PROVE  BindsInv'
<1> USE BindsFacts
<1> DEFINE i == plans[turn]
<1>1. /\ phase = "bind" /\ candidate # 0
      /\ listeners' = [listeners EXCEPT ![i] = candidate]
      /\ claimed' = claimed \cup {candidate} /\ candidate' = 0 /\ turn' = turn + 1
      /\ UNCHANGED <<given, source, phase, targets, bindPorts, plans, reserved, busy>>
  BY DEF Binds!BindCandidate
<1>2. \A k : PortOf(k)' = PortOf(k) /\ MayTake(k)' = MayTake(k)
  BY <1>1 DEF PortOf, MayTake, Binds!Candidates
<1>3. /\ turn \in 1 .. Len(plans) /\ Len(plans) \in Nat /\ Len(plans) <= MaxTargets
      /\ candidate \in 1 .. MaxPort /\ i \in 1 .. Len(given) /\ listeners[i] = 0
      /\ listeners \in [1 .. Len(given) -> 0 .. MaxPort]
  <2>1. Len(plans) \in Nat /\ listeners \in [1 .. Len(given) -> 0 .. MaxPort]
    BY <1>1, PlanFacts
  <2> QED BY <1>1, <2>1, TurnFacts, PlansBounded
<1>4. /\ listeners' \in [1 .. Len(given) -> 0 .. MaxPort]
      /\ listeners'[i] = candidate
      /\ \A j \in 1 .. Len(given) : j # i => listeners'[j] = listeners[j]
  BY <1>1, <1>3
<1>5. Binds!TypeOK'
  <2>1. claimed \subseteq Binds!PortNumber
    BY DEF BindsInv, Binds!TypeOK
  <2>2. claimed' \subseteq Binds!PortNumber
    BY <1>1, <1>3, <2>1
  <2>3. turn' \in 1 .. MaxTargets + 1
    BY <1>1, <1>3
  <2> QED BY <1>1, <1>4, <2>2, <2>3 DEF BindsInv, Binds!TypeOK
<1>6. Read' /\ Assigned'
  BY <1>1, ConfigStands
<1>7. Walking'
  <2>1. \A k \in 1 .. Len(plans) : Coming(k)' <=> Coming(k)
    BY <1>1, <1>3 DEF Coming
  <2>2. \A p \in Binds!PortNumber :
          p \in reserved' <=> \E k \in 1 .. Len(plans) : Coming(k)' /\ p = PortOf(k)'
    BY <1>1, <1>2, <2>1 DEF BindsInv, Walking
  <2>3. ASSUME NEW p \in claimed' PROVE \E j \in 1 .. Len(given) : listeners'[j] = p
    <3>1. CASE p = candidate
      BY <3>1, <1>3, <1>4
    <3>2. CASE p # candidate
      <4>1. PICK j \in 1 .. Len(given) : listeners[j] = p
        BY <1>1, <2>3, <3>2 DEF BindsInv, Walking
      <4>2. p # 0
        BY <1>1, <2>3, <3>2 DEF BindsInv, Binds!TypeOK
      <4> QED BY <4>1, <4>2, <1>3, <1>4
    <3> QED BY <3>1, <3>2
  <2>4. \A j \in 1 .. Len(given) : listeners'[j] # 0 => listeners'[j] \in claimed'
    BY <1>1, <1>4 DEF BindsInv, Walking
  <2>5. ASSUME NEW k \in 1 .. Len(plans), k >= turn' PROVE listeners'[plans[k]] = 0
    <3>1. k # turn /\ k >= turn
      BY <1>1, <1>3, <2>5
    <3>2. plans[k] # i /\ plans[k] \in 1 .. Len(given)
      BY <1>1, <1>3, <3>1, PlanFacts
    <3>3. listeners[plans[k]] = 0
      BY <1>1, <3>1 DEF BindsInv, Walking
    <3> QED BY <3>2, <3>3, <1>4
  <2>6. turn' <= Len(plans) + 1
    BY <1>1, <1>3
  <2> QED BY <1>1, <2>2, <2>3, <2>4, <2>5, <2>6 DEF Walking
<1>8. Binds!PinKept'
  <2>1. DOMAIN listeners = 1 .. Len(given) /\ DOMAIN listeners' = 1 .. Len(given)
    BY <1>3, <1>4
  <2>2. ASSUME source = "file", NEW j \in 1 .. Len(given), given[j].local # 0
        PROVE  listeners'[j] \in {0, given[j].local}
    <3>1. targets = given
      BY <1>1, <2>2 DEF BindsInv, Read
    <3>2. CASE j = i
      <4>1. candidate = PortOf(turn) /\ PortOf(turn) = targets[i].local
        BY <1>1, <1>3, <2>2, <3>1, <3>2, TurnFacts, PlanFacts
      <4> QED BY <3>1, <3>2, <4>1, <1>4
    <3>3. CASE j # i
      BY <2>1, <2>2, <3>3, <1>4 DEF BindsInv, Binds!PinKept
    <3> QED BY <3>2, <3>3
  <2> QED BY <1>1, <2>1, <2>2 DEF Binds!PinKept
<1> QED BY <1>5, <1>6, <1>7, <1>8 DEF BindsInv

\* The last listener is up, or another process binds or releases a port.
LEMMA OthersMove ==
  ASSUME BindsInv,
         Binds!Bound \/ \E p \in Binds!PortNumber : Binds!OtherBinds(p) \/ Binds!OtherReleases(p)
  PROVE  BindsInv'
<1> USE BindsFacts
<1>1. /\ UNCHANGED <<given, source, targets, bindPorts, plans, turn, reserved, claimed,
                     candidate, listeners>>
      /\ phase = "bind"
      /\ \/ phase' = phase
         \/ phase' = "up" /\ turn = Len(plans) + 1 /\ candidate = 0
  BY DEF Binds!Bound, Binds!OtherBinds, Binds!OtherReleases
<1>2. busy' \subseteq Binds!PortNumber
  BY DEF BindsInv, Binds!TypeOK, Binds!Bound, Binds!OtherBinds, Binds!OtherReleases
<1>3. Binds!TypeOK'
  BY <1>1, <1>2 DEF BindsInv, Binds!TypeOK, Binds!Phase
<1>4. Read' /\ Assigned' /\ Binds!PinKept'
  BY <1>1, ConfigStands DEF BindsInv, Binds!PinKept
<1>5. Walking'
  BY <1>1 DEF BindsInv, Walking, Coming, PortOf, MayTake, Binds!Candidates
<1> QED BY <1>3, <1>4, <1>5 DEF BindsInv

\* Whatever the others do with their ports.
LEMMA BindsNext == BindsInv /\ [Binds!Next]_(Binds!vars) => BindsInv'
<1> SUFFICES ASSUME BindsInv, [Binds!Next]_(Binds!vars) PROVE BindsInv'
  OBVIOUS
<1>1. CASE UNCHANGED Binds!vars
  <2>1. UNCHANGED <<given, source, phase, targets, bindPorts, plans, turn, reserved,
                    claimed, candidate, listeners, busy>>
    BY <1>1 DEF Binds!vars
  <2>2. Binds!TypeOK' /\ Binds!PinKept'
    BY <2>1 DEF BindsInv, Binds!TypeOK, Binds!PinKept
  <2>3. Read' /\ Assigned' /\ Walking'
    BY <2>1 DEF BindsInv, Read, Assigned, Walking, Coming, PortOf, MayTake, Binds!Candidates
  <2> QED BY <2>2, <2>3 DEF BindsInv
<1>2. CASE Binds!Next
  BY <1>2, Overridden, TargetValidated, AllValidated, TargetPlanned, AllPlanned, PlanTaken,
     CandidateLeft, CandidateBound, OthersMove
     DEF Binds!Next, Binds!Quiet
<1> QED BY <1>1, <1>2

-----------------------------------------------------------------------------
(* While no other process releases a port *)

\* The port that is passed over has an excuse; the plan's own is taken.
LEMMA PassedOver ==
  ASSUME BindsInv, phase = "bind", candidate # 0,
         candidate \in Binds!Skip \/ ~ Binds!Free(candidate)
  PROVE  /\ candidate \in Excuses(plans[turn])
         /\ candidate = PortOf(turn) => PortOf(turn) \in busy \cup claimed
<1> USE BindsFacts
<1>1. /\ turn \in 1 .. Len(plans) /\ candidate \in 1 .. MaxPort
      /\ listeners[plans[turn]] = 0
  BY TurnFacts
<1>2. CASE candidate \in reserved
  <2>1. PICK l \in 1 .. Len(plans) : Coming(l) /\ candidate = PortOf(l)
    BY <1>1, <1>2 DEF BindsInv, Walking, Binds!PortNumber
  <2>2. l # turn
    BY <1>1, <2>1, PlanFacts DEF Coming
  <2>3. plans[l] \in Binds!ToSet(plans) \ {plans[turn]} /\ candidate # PortOf(turn)
    BY <1>1, <2>1, <2>2, PlanFacts
  <2> QED BY <2>1, <2>3 DEF Excuses, PortOf
<1>3. CASE candidate \in claimed
  <2>1. PICK j \in 1 .. Len(given) : listeners[j] = candidate
    BY <1>3 DEF BindsInv, Walking
  <2>2. j # plans[turn] /\ j \in DOMAIN listeners
    BY <1>1, <2>1, PlanFacts
  <2> QED BY <1>3, <2>1, <2>2 DEF Excuses
<1>4. CASE candidate \in busy
  BY <1>4 DEF Excuses
<1> QED BY <1>2, <1>3, <1>4 DEF Binds!Skip, Binds!Free

LEMMA CandidateLeftQuiet ==
  ASSUME BindsInv, Left, Binds!NextCandidate
  PROVE  Left'
<1> USE BindsFacts
<1>1. /\ phase = "bind" /\ candidate # 0
      /\ candidate \in Binds!Skip \/ ~ Binds!Free(candidate)
      /\ IF targets[plans[turn]].local = 0 /\ ~ Binds!LastCandidate(candidate)
           THEN candidate' = candidate + Stride /\ turn' = turn
           ELSE candidate' = 0 /\ turn' = turn + 1
      /\ UNCHANGED <<given, source, phase, targets, bindPorts, plans, reserved, claimed,
                     listeners, busy>>
  BY DEF Binds!NextCandidate, Binds!Walks
<1>2. \A k : /\ PortOf(k)' = PortOf(k) /\ MayTake(k)' = MayTake(k)
             /\ Excuses(plans[k])' = Excuses(plans[k])
  BY <1>1 DEF PortOf, MayTake, Binds!Candidates, Excuses, Binds!ToSet
<1>3. /\ turn \in 1 .. Len(plans) /\ Len(plans) \in Nat
      /\ candidate \in 1 .. MaxPort /\ candidate \in MayTake(turn)
  BY <1>1, TurnFacts, PlanFacts
<1>4. /\ candidate \in Excuses(plans[turn])
      /\ PortOf(turn) \in busy \cup claimed
  BY <1>1, <1>3, PassedOver DEF Left
<1>5. \A p \in MayTake(turn) : p <= candidate => p \in Excuses(plans[turn])
  <2>1. \A p \in MayTake(turn) : p < candidate => p \in Excuses(plans[turn])
    BY <1>1, <1>3 DEF Left
  <2>2. \A p \in MayTake(turn) : p \in 1 .. MaxPort
    BY <1>1, <1>3, PlanFacts
  <2> QED BY <1>3, <1>4, <2>1, <2>2
<1>6. CASE targets[plans[turn]].local = 0 /\ ~ Binds!LastCandidate(candidate)
  <2>1. candidate' = candidate + Stride /\ turn' = turn
    BY <1>1, <1>6
  <2>2. \A p \in MayTake(turn) : p < candidate' => p \in Excuses(plans[turn])
    BY <1>1, <1>5, <1>6, <2>1, TurnFacts, WalkGap
  <2>3. ASSUME NEW k \in 1 .. Len(plans),
               k < turn' \/ (k = turn' /\ candidate' \notin {0, PortOf(k)})
        PROVE  PortOf(k) \in busy \cup claimed
    BY <1>1, <1>4, <2>1, <2>3 DEF Left
  <2>4. \A k \in 1 .. Len(plans) :
          k < turn /\ listeners[plans[k]] = 0 => MayTake(k) \subseteq Excuses(plans[k])
    BY <1>1 DEF Left
  <2> QED BY <1>1, <1>2, <2>1, <2>2, <2>3, <2>4 DEF Left
<1>7. CASE ~ (targets[plans[turn]].local = 0 /\ ~ Binds!LastCandidate(candidate))
  <2>1. candidate' = 0 /\ turn' = turn + 1
    BY <1>1, <1>7
  <2>2. MayTake(turn) \subseteq Excuses(plans[turn])
    <3>1. CASE targets[plans[turn]].local # 0
      <4>1. MayTake(turn) = {PortOf(turn)}
        BY <1>1, <3>1, TurnFacts
      <4> QED BY <4>1, <1>3, <1>4
    <3>2. CASE targets[plans[turn]].local = 0
      <4>1. candidate + Stride > MaxPort
        BY <1>7, <3>2 DEF Binds!LastCandidate
      <4>2. MayTake(turn) = Binds!Candidates(PortOf(turn), FALSE)
        BY <1>1, <3>2, TurnFacts
      <4>3. \A p \in MayTake(turn) : p < candidate + Stride
        BY <1>1, <1>3, <4>1, PlanFacts
      <4>4. \A p \in MayTake(turn) : p <= candidate
        BY <1>1, <1>3, <4>2, <4>3, TurnFacts, WalkGap
      <4> QED BY <1>5, <4>4
    <3> QED BY <3>1, <3>2
  <2>3. ASSUME NEW k \in 1 .. Len(plans), k < turn'
        PROVE  /\ PortOf(k) \in busy \cup claimed
               /\ listeners[plans[k]] = 0 => MayTake(k) \subseteq Excuses(plans[k])
    <3>1. k < turn \/ k = turn
      BY <1>3, <2>1, <2>3
    <3> QED BY <1>1, <1>4, <2>2, <3>1 DEF Left
  <2> QED BY <1>1, <1>2, <2>1, <2>3 DEF Left
<1> QED BY <1>6, <1>7

LEMMA CandidateBoundQuiet ==
  ASSUME BindsInv, QuietInv, Binds!BindCandidate
  PROVE  QuietInv'
<1> USE BindsFacts
<1> DEFINE i == plans[turn]
<1>1. /\ phase = "bind" /\ candidate # 0
      /\ candidate \notin Binds!Skip /\ Binds!Free(candidate)
      /\ listeners' = [listeners EXCEPT ![i] = candidate]
      /\ claimed' = claimed \cup {candidate} /\ candidate' = 0 /\ turn' = turn + 1
      /\ UNCHANGED <<given, source, phase, targets, bindPorts, plans, reserved, busy>>
  BY DEF Binds!BindCandidate
<1>2. \A k : PortOf(k)' = PortOf(k) /\ MayTake(k)' = MayTake(k)
  BY <1>1 DEF PortOf, MayTake, Binds!Candidates
<1>3. /\ turn \in 1 .. Len(plans) /\ Len(plans) \in Nat
      /\ candidate \in 1 .. MaxPort /\ i \in 1 .. Len(given) /\ listeners[i] = 0
      /\ listeners \in [1 .. Len(given) -> 0 .. MaxPort]
      /\ DOMAIN listeners = 1 .. Len(given)
  BY <1>1, TurnFacts, PlanFacts
<1>4. /\ listeners'[i] = candidate /\ DOMAIN listeners' = DOMAIN listeners
      /\ \A j \in 1 .. Len(given) : j # i => listeners'[j] = listeners[j]
  BY <1>1, <1>3
<1>5. \A k, p : p # 0 /\ p \in Excuses(plans[k]) => p \in Excuses(plans[k])'
  <2>1. \A j \in DOMAIN listeners : listeners[j] # 0 => listeners'[j] = listeners[j]
    BY <1>3, <1>4
  <2> QED BY <1>1, <1>4, <2>1 DEF Excuses, Binds!ToSet
<1>6. Left'
  <2>1. ASSUME NEW k \in 1 .. Len(plans), k < turn'
        PROVE  PortOf(k) \in busy \cup claimed'
    <3>1. k < turn \/ k = turn
      BY <1>1, <1>3, <2>1
    <3>2. CASE k = turn /\ candidate = PortOf(turn)
      BY <1>1, <3>2
    <3>3. CASE k < turn \/ (k = turn /\ candidate # PortOf(turn))
      BY <1>1, <3>3 DEF QuietInv, Left
    <3> QED BY <3>1, <3>2, <3>3
  <2>2. ASSUME NEW k \in 1 .. Len(plans), k < turn', listeners'[plans[k]] = 0
        PROVE  MayTake(k) \subseteq Excuses(plans[k])'
    <3>1. plans[k] # i /\ plans[k] \in 1 .. Len(given)
      BY <1>1, <1>3, <1>4, <2>2, PlanFacts
    <3>2. listeners[plans[k]] = 0
      BY <2>2, <3>1, <1>4
    <3>3. k < turn
      BY <1>1, <1>3, <2>2, <3>1
    <3>4. MayTake(k) \subseteq Excuses(plans[k]) /\ MayTake(k) \subseteq 1 .. MaxPort
      BY <1>1, <3>2, <3>3, PlanFacts DEF QuietInv, Left
    <3>5. \A p \in MayTake(k) : p # 0 /\ p \in Excuses(plans[k])
      BY <3>4
    <3>6. \A p \in MayTake(k) : p \in Excuses(plans[k])'
      BY <1>5, <3>5
    <3> QED BY <3>6
  <2> QED BY <1>1, <1>2, <2>1, <2>2 DEF Left
<1>7. Binds!NotAnothersBind'
  <2>1. ASSUME NEW k \in 1 .. Len(plans), NEW l \in 1 .. Len(plans),
               listeners'[plans[k]] = PortOf(l)
        PROVE  plans[k] = plans[l]
    <3>1. CASE plans[k] # i
      <4>1. /\ plans[k] \in 1 .. Len(given)
            /\ plans[k] \in Binds!ToSet(plans) /\ plans[l] \in Binds!ToSet(plans)
        BY <1>1, PlanFacts
      <4>2. listeners[plans[k]] = bindPorts[plans[l]]
        BY <1>4, <2>1, <3>1, <4>1 DEF PortOf
      <4> QED BY <4>1, <4>2 DEF QuietInv, Binds!NotAnothersBind
    <3>2. CASE plans[k] = i
      <4>1. candidate = PortOf(l)
        BY <1>4, <2>1, <3>2
      <4>2. CASE l > turn
        <5>1. candidate \in reserved
          BY <1>1, <1>3, <4>1, <4>2 DEF BindsInv, Walking, Coming, Binds!PortNumber
        <5> QED BY <1>1, <5>1 DEF Binds!Skip
      <4>3. CASE l = turn
        BY <3>2, <4>3
      <4>4. CASE l < turn
        <5>1. candidate \in busy \cup claimed
          BY <1>1, <4>1, <4>4 DEF QuietInv, Left
        <5> QED BY <1>1, <5>1 DEF Binds!Free
      <4> QED BY <1>3, <4>2, <4>3, <4>4
    <3> QED BY <3>1, <3>2
  <2>2. Binds!ToSet(plans)' = {plans[k] : k \in 1 .. Len(plans)}
    BY <1>1, PlanFacts, SMTT(30) DEF Binds!ToSet
  <2> QED BY <1>1, <2>1, <2>2 DEF Binds!NotAnothersBind, PortOf
<1> QED BY <1>6, <1>7 DEF QuietInv

LEMMA OthersMoveQuiet ==
  ASSUME BindsInv, Left, Binds!Bound \/ \E p \in Binds!PortNumber : Binds!OtherBinds(p)
  PROVE  Left'
<1>1. /\ UNCHANGED <<given, source, targets, bindPorts, plans, turn, reserved, claimed,
                     candidate, listeners>>
      /\ phase = "bind" /\ busy \subseteq busy'
  BY DEF Binds!Bound, Binds!OtherBinds
<1>2. \A k : PortOf(k)' = PortOf(k) /\ MayTake(k)' = MayTake(k)
  BY <1>1 DEF PortOf, MayTake, Binds!Candidates
<1>3. \A k : Excuses(plans[k]) \subseteq Excuses(plans[k])'
  BY <1>1 DEF Excuses, Binds!ToSet
<1>4. \A k \in 1 .. Len(plans) :
        /\ k < turn \/ (k = turn /\ candidate \notin {0, PortOf(k)})
             => PortOf(k) \in busy \cup claimed
        /\ k < turn /\ listeners[plans[k]] = 0 => MayTake(k) \subseteq Excuses(plans[k])
        /\ k = turn /\ candidate # 0 =>
             \A p \in MayTake(k) : p < candidate => p \in Excuses(plans[k])
  BY <1>1 DEF Left
<1>5. ASSUME NEW k \in 1 .. Len(plans)
      PROVE  /\ k < turn \/ (k = turn /\ candidate \notin {0, PortOf(k)})
                  => PortOf(k) \in busy' \cup claimed
             /\ k < turn /\ listeners[plans[k]] = 0 => MayTake(k) \subseteq Excuses(plans[k])'
             /\ k = turn /\ candidate # 0 =>
                  \A p \in MayTake(k) : p < candidate => p \in Excuses(plans[k])'
  BY <1>1, <1>3, <1>4
<1> QED BY <1>1, <1>2, <1>5 DEF Left

\* Before the first listener no port is another's.
LEMMA NoListenerYet ==
  ASSUME BindsInv, BindsInv', phase \notin {"bind", "up"},
         UNCHANGED <<given, listeners>>,
         UNCHANGED <<plans, bindPorts>> \/ plans' = <<>> \/ phase' = "plan"
  PROVE  Binds!NotAnothersBind => Binds!NotAnothersBind'
<1>1. \A i \in 1 .. Len(given) : listeners'[i] = 0
  BY DEF BindsInv, Read
<1>2. CASE UNCHANGED <<plans, bindPorts>>
  BY <1>2 DEF Binds!NotAnothersBind, Binds!ToSet
<1>3. CASE plans' = <<>>
  BY <1>3 DEF Binds!NotAnothersBind, Binds!ToSet
<1>4. CASE phase' = "plan"
  <2>1. /\ Len(bindPorts') = Len(targets') /\ Len(targets') = Len(given)
        /\ bindPorts' \in Seq(1 .. MaxPort) /\ plans' \in Seq(1 .. MaxTargets)
        /\ \A k \in 1 .. Len(plans') : plans'[k] \in 1 .. Len(targets')
    BY <1>4, BindsFacts DEF BindsInv, Read, Assigned, Binds!TypeOK
  <2>2. DOMAIN plans' = 1 .. Len(plans')
    BY <2>1, LenProperties
  <2>3. \A i \in Binds!ToSet(plans)' : i \in 1 .. Len(given) /\ i \in 1 .. Len(bindPorts')
    BY <2>1, <2>2 DEF Binds!ToSet
  <2>4. \A i \in Binds!ToSet(plans)' : bindPorts'[i] \in 1 .. MaxPort /\ listeners'[i] = 0
    BY <1>1, <2>1, <2>3, ElementOfSeq
  <2>5. \A i \in Binds!ToSet(plans)' : bindPorts'[i] # 0
    BY <2>4, BindsFacts
  <2> QED BY <2>4, <2>5 DEF Binds!NotAnothersBind
<1> QED BY <1>2, <1>3, <1>4

LEMMA QuietNext == BindsInv /\ QuietInv /\ [Binds!Quiet]_(Binds!vars) => QuietInv'
<1> SUFFICES ASSUME BindsInv, QuietInv, [Binds!Quiet]_(Binds!vars) PROVE QuietInv'
  OBVIOUS
<1>1. BindsInv'
  BY BindsNext DEF Binds!Next
<1>2. CASE UNCHANGED Binds!vars
  <2>1. UNCHANGED <<given, source, phase, targets, bindPorts, plans, turn, reserved,
                    claimed, candidate, listeners, busy>>
    BY <1>2 DEF Binds!vars
  <2> QED BY <2>1 DEF QuietInv, Left, PortOf, MayTake, Binds!Candidates, Excuses,
                      Binds!ToSet, Binds!NotAnothersBind
<1>3. CASE Binds!ApplyOverrides \/ Binds!ValidateTarget \/ Binds!Validated \/ Binds!PlanTarget
  <2>1. Left'
    BY <1>3, Overridden, TargetValidated, AllValidated, TargetPlanned
  <2>2. /\ phase \notin {"bind", "up"} /\ UNCHANGED <<given, listeners>>
        /\ UNCHANGED <<plans, bindPorts>> \/ plans' = <<>> \/ phase' = "plan"
    BY <1>3 DEF Binds!ApplyOverrides, Binds!ValidateTarget, Binds!Validated,
                Binds!PlanTarget, BindsInv, Read
  <2> QED BY <1>1, <2>1, <2>2, NoListenerYet DEF QuietInv
<1>4. CASE Binds!Planned
  <2>1. Left'
    BY <1>4, AllPlanned
  <2>2. UNCHANGED <<plans, bindPorts, listeners>>
    BY <1>4 DEF Binds!Planned
  <2> QED BY <2>1, <2>2 DEF QuietInv, Binds!NotAnothersBind, Binds!ToSet
<1>5. CASE \/ Binds!TakePlan \/ Binds!NextCandidate \/ Binds!Bound
           \/ \E p \in Binds!PortNumber : Binds!OtherBinds(p)
  <2>1. Left'
    BY <1>5, PlanTaken, CandidateLeftQuiet, OthersMoveQuiet DEF QuietInv
  <2>2. UNCHANGED <<plans, bindPorts, listeners>>
    BY <1>5 DEF Binds!TakePlan, Binds!NextCandidate, Binds!Bound, Binds!OtherBinds
  <2> QED BY <2>1, <2>2 DEF QuietInv, Binds!NotAnothersBind, Binds!ToSet
<1>6. CASE Binds!BindCandidate
  BY <1>6, CandidateBoundQuiet
<1> QED BY <1>2, <1>3, <1>4, <1>5, <1>6 DEF Binds!Quiet

\* When every plan has had its turn, the excuses are for good.
LEMMA QuietlyUp == BindsInv /\ QuietInv => Binds!GivenUpForCause
<1> SUFFICES ASSUME BindsInv, QuietInv, phase = "up",
                    NEW i \in Binds!ToSet(plans), listeners[i] = 0
             PROVE  Binds!Candidates(bindPorts[i], targets[i].local # 0) \subseteq Excuses(i)
  BY DEF Binds!GivenUpForCause, Excuses
<1>1. PICK k \in 1 .. Len(plans) : i = plans[k]
  BY PlanFacts
<1>2. k < turn
  BY <1>1, PlanFacts DEF BindsInv, Walking
<1> QED BY <1>1, <1>2 DEF QuietInv, Left, MayTake, PortOf

\* The composition: only the listeners' part takes their steps.
THEOREM ListenersInvariance == MCSpec => []HostBinds
<1>1. MCInit => HostBinds
  BY BindsInit DEF MCInit, HostBinds
<1>2. HostBinds /\ [MCNext]_<<part, vars, netVars, bindVars, tableVars>> => HostBinds'
  <2> SUFFICES ASSUME HostBinds, [MCNext]_<<part, vars, netVars, bindVars, tableVars>>,
                      part \in {"binds", "churn"}
               PROVE  HostBinds'
    BY DEF HostBinds, MCNext
  <2>1. /\ part' = part
        /\ [Binds!Next]_(Binds!vars)
        /\ part = "binds" => [Binds!Quiet]_(Binds!vars)
    BY DEF MCNext, bindVars, Binds!vars, Binds!Next
  <2> QED BY <2>1, BindsNext, QuietNext DEF HostBinds
<1> QED BY <1>1, <1>2, PTL DEF MCSpec

\* spawn_local_tcp_listeners: a target that has to walk never ends on the bind
\* of another, and none is given up while it has a port to take (while no other
\* process releases one); a pin of the file is kept whatever others do.
THEOREM EveryBindKept == MCSpec => []BindsKept
<1>1. HostBinds => BindsKept
  BY QuietlyUp DEF HostBinds, BindsInv, QuietInv, BindsKept
<1> QED BY <1>1, ListenersInvariance, PTL

-----------------------------------------------------------------------------
(* The packet tables (OverlayTable), for any addresses, ports and files.   *)

\* A daemon that runs has the tables of its file, and one that does not has
\* seen no packet.
TabInv ==
  /\ Tables!TypeOK
  /\ step = "running" =>
       Tables!Accepted(conf) /\ vip \in Tables!LocalVips(conf) /\ keys = Tables!KeysOf
  /\ step # "running" => keys = <<>> /\ last = Tables!NoPacket
  /\ Tables!SealedToItsRow

HostTables == part = "tables" => TabInv

\* There is an address.
LEMMA SomeAddress == 2 ^ Width \in Nat /\ 2 ^ Width >= 1
<1>1. Width \in Nat
  BY MCTables DEF Tables!TableAssumption
<1>2. IsFiniteSet(1 .. Width) /\ Cardinality(1 .. Width) = Width
  BY <1>1, FS_Interval
<1>3. IsFiniteSet(SUBSET (1 .. Width)) /\ Cardinality(SUBSET (1 .. Width)) = 2 ^ Width
  BY <1>2, FS_SUBSET
<1>4. 2 ^ Width \in Nat
  BY <1>3, FS_CardinalityType
<1>5. 2 ^ Width # 0
  BY <1>3, FS_EmptySet
<1> QED BY <1>4, <1>5

LEMMA FileFacts ==
  ASSUME conf \in ConfigFiles
  PROVE  /\ conf.local \in Tables!Addresses \cup {AutoVip}
         /\ Tables!Rows = 1 .. Len(conf.rows) /\ Tables!Rows \subseteq Nat \ {0}
         /\ \A i \in Tables!Rows :
              /\ Tables!Row(i).vip \in Tables!Addresses
              /\ Tables!Row(i).ports \in Seq(Ports)
              /\ Tables!RowPorts(Tables!Row(i)) \subseteq Ports
<1>1. Tables!IsConfig(conf)
  BY MCTables DEF Tables!TableAssumption
<1>2. Tables!Rows = 1 .. Len(conf.rows) /\ Len(conf.rows) \in Nat
  BY <1>1 DEF Tables!IsConfig, Tables!Rows
<1>3. ASSUME NEW i \in Tables!Rows
      PROVE  /\ Tables!Row(i).vip \in Tables!Addresses
             /\ Tables!Row(i).ports \in Seq(Ports)
             /\ Tables!RowPorts(Tables!Row(i)) \subseteq Ports
  <2>1. Tables!IsRow(Tables!Row(i))
    BY <1>1 DEF Tables!IsConfig, Tables!Rows, Tables!Row
  <2>2. Tables!Row(i).vip \in Tables!Addresses /\ Tables!Row(i).ports \in Seq(Ports)
    BY <2>1 DEF Tables!IsRow
  <2>3. \A k \in DOMAIN Tables!Row(i).ports : Tables!Row(i).ports[k] \in Ports
    BY <2>2, ElementOfSeq, LenProperties
  <2> QED BY <2>2, <2>3 DEF Tables!RowPorts
<1>4. conf.local \in Tables!Addresses \cup {AutoVip}
  BY <1>1 DEF Tables!IsConfig
<1>5. Tables!Rows \subseteq Nat \ {0}
  BY <1>2
<1> QED BY <1>2, <1>3, <1>4, <1>5

\* No two rows of an accepted file have one port at one address, so the keys
\* of an address and port are those of the row that lists it.
LEMMA KeysExact ==
  ASSUME conf \in ConfigFiles, Tables!Accepted(conf)
  PROVE  /\ DOMAIN Tables!KeysOf = UNION {Tables!Keeps(i) : i \in Tables!Rows}
         /\ \A i \in Tables!Rows : \A k \in Tables!Keeps(i) : Tables!KeysOf[k] = i
<1>1. ASSUME NEW i \in Tables!Rows, NEW j \in Tables!Rows, NEW k,
             k \in Tables!Keeps(i), k \in Tables!Keeps(j)
      PROVE  i = j
  <2>1. /\ k \in {Tables!Row(i).vip} \X Tables!RowPorts(Tables!Row(i))
        /\ k \in {Tables!Row(j).vip} \X Tables!RowPorts(Tables!Row(j))
    BY <1>1 DEF Tables!Keeps, Tables!KeyPorts
  <2>2. PICK m \in DOMAIN Tables!Row(i).ports : k[2] = Tables!Row(i).ports[m]
    BY <2>1 DEF Tables!RowPorts
  <2>3. PICK n \in DOMAIN Tables!Row(j).ports : k[2] = Tables!Row(j).ports[n]
    BY <2>1 DEF Tables!RowPorts
  <2>4. Tables!Row(i).vip = Tables!Row(j).vip
    BY <2>1
  <2>5. Tables!PortsOnce(conf)
    BY DEF Tables!Accepted, Tables!RowsAccepted
  <2>6. /\ i \in DOMAIN conf.rows /\ j \in DOMAIN conf.rows
        /\ m \in DOMAIN conf.rows[i].ports /\ n \in DOMAIN conf.rows[j].ports
        /\ conf.rows[i].vip = conf.rows[j].vip
        /\ conf.rows[i].ports[m] = conf.rows[j].ports[n]
    BY <2>2, <2>3, <2>4 DEF Tables!Row, Tables!Rows
  <2>7. <<i, m>> = <<j, n>>
    BY <2>5, <2>6 DEF Tables!PortsOnce
  <2> QED BY <2>7
<1>2. ASSUME NEW i \in Tables!Rows, NEW k \in Tables!Keeps(i)
      PROVE  Tables!KeysOf[k] = i
  <2>1. Tables!KeysOf[k] = CHOOSE j \in Tables!Rows :
          k \in Tables!Keeps(j) /\ \A l \in Tables!Rows : k \in Tables!Keeps(l) => l <= j
    BY DEF Tables!KeysOf
  <2>2. \A l \in Tables!Rows : k \in Tables!Keeps(l) => l <= i
    BY <1>1, FileFacts
  <2>3. \A j \in Tables!Rows : k \in Tables!Keeps(j) => j = i
    BY <1>1
  <2> QED BY <2>1, <2>2, <2>3
<1>3. DOMAIN Tables!KeysOf = UNION {Tables!Keeps(i) : i \in Tables!Rows}
  BY DEF Tables!KeysOf
<1> QED BY <1>2, <1>3

\* The first of some rows is one of them.
LEMMA FirstOf ==
  ASSUME NEW S \in SUBSET (Nat \ {0})
  PROVE  /\ S = {} => Tables!First(S) = Tables!Nil
         /\ S # {} => Tables!First(S) \in S /\ Tables!First(S) # Tables!Nil
<1>1. CASE S = {}
  BY <1>1 DEF Tables!First
<1>2. CASE S # {}
  <2>1. \E n \in S : \A m \in S : n <= m
    BY <1>2, Smallest
  <2>2. Tables!First(S) \in S
    BY <1>2, <2>1 DEF Tables!First
  <2> QED BY <1>2, <2>2 DEF Tables!Nil
<1> QED BY <1>1, <1>2

\* An address that is chosen is a free one of the overlay.
LEMMA VipFacts ==
  ASSUME conf \in ConfigFiles, NEW a \in Tables!LocalVips(conf)
  PROVE  /\ a \in Tables!Addresses
         /\ conf.local = AutoVip => Tables!Contains(conf, a) /\ a \notin Tables!Taken(conf)
<1>1. CASE conf.local # AutoVip
  BY <1>1, FileFacts DEF Tables!LocalVips
<1>2. CASE conf.local = AutoVip
  <2>1. PICK o \in Tables!Free(conf) : a = Tables!Plus(conf.net, o)
    BY <1>2 DEF Tables!LocalVips
  <2>2. Tables!Contains(conf, a) /\ a \notin Tables!Taken(conf) /\ o \in 5 .. Tables!HostCount(conf)
    BY <2>1 DEF Tables!Free
  <2>3. conf.net \in Tables!Addresses
    BY MCTables DEF Tables!TableAssumption, Tables!IsConfig
  <2>4. conf.net \in Nat /\ o \in Nat
    <3>1. \A x \in Tables!Addresses : x \in Nat
      BY SomeAddress DEF Tables!Addresses
    <3> QED BY <2>2, <2>3, <3>1
  <2>5. Tables!Plus(conf.net, o) \in 0 .. 2 ^ Width - 1
    BY <2>4, SomeAddress DEF Tables!Plus
  <2> QED BY <2>1, <2>2, <2>5 DEF Tables!Addresses
<1> QED BY <1>1, <1>2

LEMMA TablesInit == Tables!Init => TabInv
<1> SUFFICES ASSUME Tables!Init PROVE TabInv
  OBVIOUS
<1>1. /\ conf \in ConfigFiles /\ step = "read" /\ vip = 0 /\ keys = <<>>
      /\ last = Tables!NoPacket
  BY DEF Tables!Init
<1>2. last.outcome = "none"
  BY <1>1 DEF Tables!NoPacket
<1>3. vip \in Tables!Addresses /\ DOMAIN keys = {}
  BY <1>1, SomeAddress DEF Tables!Addresses
<1>4. Tables!TypeOK
  BY <1>1, <1>2, <1>3 DEF Tables!TypeOK, Tables!Outcomes
<1> QED BY <1>1, <1>2, <1>4 DEF TabInv, Tables!SealedToItsRow

LEMMA TablesStart == ASSUME TabInv, Tables!Start PROVE TabInv'
<1>1. /\ step = "read" /\ step' = "running" /\ Tables!Accepted(conf)
      /\ vip' \in Tables!LocalVips(conf) /\ keys' = Tables!KeysOf
      /\ UNCHANGED <<conf, last>> /\ conf \in ConfigFiles
      /\ last = Tables!NoPacket
  BY DEF Tables!Start, TabInv, Tables!TypeOK
<1>2. last'.outcome = "none"
  BY <1>1 DEF Tables!NoPacket
<1>3. /\ Tables!Rows' = Tables!Rows /\ Tables!LocalVips(conf)' = Tables!LocalVips(conf)
      /\ Tables!Accepted(conf)' = Tables!Accepted(conf) /\ Tables!KeysOf' = Tables!KeysOf
  BY <1>1, SMTT(30) DEF Tables!Rows, Tables!LocalVips, Tables!Accepted, Tables!KeysOf, Tables!Keeps,
              Tables!Row, Tables!KeyPorts, Tables!RowPorts, Tables!Free, Tables!Plus,
              Tables!HostCount, Tables!Contains, Tables!Taken, Tables!RowsAccepted,
              Tables!ClientsAccepted, Tables!PortsOnce, Tables!Block
<1>4. DOMAIN keys' \subseteq Tables!Addresses \X Ports
  <2>1. \A i \in Tables!Rows : Tables!Keeps(i) \subseteq Tables!Addresses \X Ports
    BY <1>1, FileFacts DEF Tables!Keeps, Tables!KeyPorts
  <2> QED BY <1>1, <2>1, KeysExact
<1>5. \A k \in DOMAIN keys' : keys'[k] \in Tables!Rows
  <2> SUFFICES ASSUME NEW k \in DOMAIN keys' PROVE keys'[k] \in Tables!Rows
    OBVIOUS
  <2>1. PICK i \in Tables!Rows : k \in Tables!Keeps(i)
    BY <1>1, KeysExact
  <2> QED BY <1>1, <2>1, KeysExact
<1>6. Tables!TypeOK'
  BY <1>1, <1>2, <1>3, <1>4, <1>5, VipFacts DEF Tables!TypeOK, Tables!Outcomes
<1> QED BY <1>1, <1>2, <1>3, <1>6 DEF TabInv, Tables!SealedToItsRow

\* Where a packet goes.
LEMMA TablesPacket ==
  ASSUME TabInv, NEW dest, NEW sport \in Ports, NEW dport \in Ports,
         Tables!Packet(dest, sport, dport)
  PROVE  TabInv'
<1> DEFINE port == Tables!ChannelPort(sport, dport)
           locator == IF port = Tables!Nil THEN Tables!Nil
                      ELSE IF dest = vip THEN Tables!LookupClientTarget(port)
                      ELSE Tables!LookupPeer(dest, port)
           outcome == Tables!Outcome(dest, port, locator)
<1>1. /\ step = "running" /\ UNCHANGED <<conf, step, vip, keys>> /\ conf \in ConfigFiles
      /\ Tables!Accepted(conf) /\ keys = Tables!KeysOf
      /\ last' = [dest |-> dest, sport |-> sport, dport |-> dport,
                  locator |-> locator, outcome |-> outcome,
                  by |-> IF outcome = "sealed" THEN keys[<<dest, port>>] ELSE Tables!Nil]
  BY DEF TabInv, Tables!TypeOK, Tables!Packet
<1>2. /\ Tables!Rows' = Tables!Rows /\ Tables!LocalVips(conf)' = Tables!LocalVips(conf)
      /\ Tables!Accepted(conf)' = Tables!Accepted(conf) /\ Tables!KeysOf' = Tables!KeysOf
  <2> HIDE DEF port, locator, outcome
  <2>1. conf' = conf
    BY <1>1
  <2> QED
    BY <2>1
       DEF Tables!Rows, Tables!LocalVips, Tables!Accepted, Tables!KeysOf, Tables!Keeps,
           Tables!Row, Tables!KeyPorts, Tables!RowPorts, Tables!Free, Tables!Plus,
           Tables!HostCount, Tables!Contains, Tables!Taken, Tables!RowsAccepted,
           Tables!ClientsAccepted, Tables!PortsOnce, Tables!Block
<1>3. outcome \in {"ignored", "refused", "sealed"}
  BY DEF Tables!Outcome
<1>4. ASSUME outcome = "sealed"
      PROVE  \E i \in Tables!Rows :
               /\ keys[<<dest, port>>] = i /\ Tables!Row(i).vip = dest
               /\ port \in Tables!RowPorts(Tables!Row(i)) /\ port \in {sport, dport}
  <2>1. <<dest, port>> \in DOMAIN keys /\ port # Tables!Nil
    BY <1>4 DEF Tables!Outcome
  <2>2. PICK i \in Tables!Rows : <<dest, port>> \in Tables!Keeps(i)
    BY <1>1, <2>1, KeysExact
  <2>3. keys[<<dest, port>>] = i
    BY <1>1, <2>2, KeysExact
  <2>4. <<dest, port>> \in {Tables!Row(i).vip} \X Tables!RowPorts(Tables!Row(i))
    BY <2>2 DEF Tables!Keeps, Tables!KeyPorts
  <2>5. port \in {sport, dport}
    BY <2>1 DEF Tables!ChannelPort
  <2> QED BY <2>3, <2>4, <2>5
<1>5. ASSUME outcome = "sealed", dest # vip
      PROVE  locator \in Tables!Rows /\ Tables!Row(locator).vip = dest
  <2>1. locator # Tables!Nil /\ locator = Tables!LookupPeer(dest, port)
    BY <1>5 DEF Tables!Outcome
  <2> DEFINE S == {i \in Tables!Rows : Tables!Row(i).vip = dest
                     /\ (port \in Tables!RowPorts(Tables!Row(i)) \/ Tables!ClientOf(i, port))}
  <2>2. locator = Tables!First(S)
    BY <1>5, <2>1 DEF Tables!LookupPeer
  <2>3. S \in SUBSET (Nat \ {0})
    BY <1>1, FileFacts
  <2>4. Tables!First(S) \in S
    BY <2>1, <2>2, <2>3, FirstOf
  <2> QED BY <2>2, <2>4
<1> HIDE DEF port, locator, outcome
<1>6. Tables!TypeOK'
  <2>1. last'.outcome \in Tables!Outcomes
    BY <1>1, <1>3 DEF Tables!Outcomes
  <2> QED BY <1>1, <1>2, <2>1 DEF TabInv, Tables!TypeOK
<1>7. Tables!SealedToItsRow'
  <2> SUFFICES ASSUME outcome = "sealed"
               PROVE  /\ Tables!Row(last'.by).vip = dest
                      /\ Tables!RowPorts(Tables!Row(last'.by)) \cap {sport, dport} # {}
                      /\ (dest # vip /\ \A i, j \in Tables!Rows :
                            (Tables!Row(i).vip = dest /\ Tables!Row(j).vip = dest)
                              => Tables!Row(i).eoa = Tables!Row(j).eoa)
                           => Tables!Row(locator).eoa = Tables!Row(last'.by).eoa
    BY <1>1, <1>2 DEF Tables!SealedToItsRow, Tables!Row, Tables!RowPorts, Tables!Rows
  <2>1. PICK i \in Tables!Rows :
          /\ last'.by = i /\ Tables!Row(i).vip = dest
          /\ port \in Tables!RowPorts(Tables!Row(i)) /\ port \in {sport, dport}
    BY <1>1, <1>4
  <2> QED BY <1>5, <2>1
<1> QED BY <1>1, <1>2, <1>6, <1>7 DEF TabInv

LEMMA TablesStep == TabInv /\ [Tables!Next]_tableVars => TabInv'
<1> SUFFICES ASSUME TabInv, [Tables!Next]_tableVars PROVE TabInv'
  OBVIOUS
<1>1. CASE Tables!Refuse \/ UNCHANGED tableVars
  <2>1. /\ UNCHANGED <<conf, vip, keys, last>> /\ step' \in {"read", "refused", "running"}
        /\ step' = "running" => step = "running"
        /\ step' # "running" => keys = <<>> /\ last = Tables!NoPacket
    BY <1>1 DEF Tables!Refuse, tableVars, TabInv, Tables!TypeOK
  <2>2. /\ Tables!Rows' = Tables!Rows /\ Tables!LocalVips(conf)' = Tables!LocalVips(conf)
        /\ Tables!Accepted(conf)' = Tables!Accepted(conf) /\ Tables!KeysOf' = Tables!KeysOf
    BY <2>1 DEF Tables!Rows, Tables!LocalVips, Tables!Accepted, Tables!KeysOf, Tables!Keeps,
                Tables!Row, Tables!KeyPorts, Tables!RowPorts, Tables!Free, Tables!Plus,
                Tables!HostCount, Tables!Contains, Tables!Taken, Tables!RowsAccepted,
                Tables!ClientsAccepted, Tables!PortsOnce, Tables!Block
  <2>3. Tables!TypeOK'
    BY <2>1, <2>2 DEF TabInv, Tables!TypeOK
  <2>4. Tables!SealedToItsRow'
    BY <2>1 DEF TabInv, Tables!SealedToItsRow, Tables!Row, Tables!RowPorts, Tables!Rows
  <2> QED BY <2>1, <2>2, <2>3, <2>4 DEF TabInv
<1>2. CASE Tables!Start
  BY <1>2, TablesStart
<1>3. ASSUME NEW dest, NEW sport \in Ports, NEW dport \in Ports,
             Tables!Packet(dest, sport, dport)
      PROVE  TabInv'
  BY <1>3, TablesPacket
<1> QED BY <1>1, <1>2, <1>3 DEF Tables!Next

\* What the tables promise follows.
LEMMA TablesServe ==
  ASSUME TabInv
  PROVE  Tables!VipIsOwn /\ Tables!RowsServe /\ Tables!FlowKeepsPort
<1>1. conf \in ConfigFiles
  BY DEF TabInv, Tables!TypeOK
<1>2. Tables!VipIsOwn
  BY <1>1, VipFacts DEF TabInv, Tables!VipIsOwn, Tables!Taken, Tables!Row, Tables!Rows
<1>3. Tables!RowsServe
  <2> SUFFICES ASSUME step = "running", NEW i \in Tables!Rows, Tables!Row(i).loads,
                      Tables!Row(i).vip # vip, NEW p \in Tables!RowPorts(Tables!Row(i))
               PROVE  /\ <<Tables!Row(i).vip, p>> \in DOMAIN keys
                      /\ keys[<<Tables!Row(i).vip, p>>] = i
                      /\ Tables!LookupPeer(Tables!Row(i).vip, p) # Tables!Nil
    BY DEF Tables!RowsServe
  <2>1. Tables!Accepted(conf) /\ keys = Tables!KeysOf
    BY DEF TabInv
  <2>2. <<Tables!Row(i).vip, p>> \in Tables!Keeps(i)
    BY DEF Tables!Keeps, Tables!KeyPorts
  <2>3. /\ <<Tables!Row(i).vip, p>> \in DOMAIN keys
        /\ keys[<<Tables!Row(i).vip, p>>] = i
    BY <1>1, <2>1, <2>2, KeysExact
  <2> DEFINE S == {j \in Tables!Rows : Tables!Row(j).vip = Tables!Row(i).vip
                     /\ (p \in Tables!RowPorts(Tables!Row(j)) \/ Tables!ClientOf(j, p))}
  <2>4. S \in SUBSET (Nat \ {0}) /\ S # {}
    BY <1>1, FileFacts
  <2>5. Tables!LookupPeer(Tables!Row(i).vip, p) = Tables!First(S)
    BY DEF Tables!LookupPeer
  <2> QED BY <2>3, <2>4, <2>5, FirstOf
<1>4. Tables!FlowKeepsPort
  <2> SUFFICES ASSUME NEW a \in Ports, NEW b \in Ports
               PROVE  Tables!ChannelPort(a, b) = Tables!ChannelPort(b, a)
    BY DEF Tables!FlowKeepsPort
  <2>1. CASE a = b
    BY <2>1
  <2>2. CASE a \in Tables!Known /\ b \in Tables!Known /\ a # b
    <3>1. Tables!ChannelPort(a, b) = Tables!Nil
      BY <2>2 DEF Tables!ChannelPort
    <3>2. b # a
      BY <2>2
    <3>3. Tables!ChannelPort(b, a) = Tables!Nil
      BY <2>2, <3>2 DEF Tables!ChannelPort
    <3> QED BY <3>1, <3>3
  <2>3. CASE a \in Tables!Known /\ b \notin Tables!Known
    BY <2>3 DEF Tables!ChannelPort
  <2>4. CASE a \notin Tables!Known /\ b \in Tables!Known
    BY <2>4 DEF Tables!ChannelPort
  <2>5. CASE a \notin Tables!Known /\ b \notin Tables!Known
    BY <2>5 DEF Tables!ChannelPort
  <2> QED BY <2>1, <2>2, <2>3, <2>4, <2>5
<1> QED BY <1>2, <1>3, <1>4

\* The composition: only the tables' part takes their steps.
THEOREM TablesInvariance == MCSpec => []HostTables
<1>1. MCInit => HostTables
  BY TablesInit DEF MCInit, HostTables
<1>2. HostTables /\ [MCNext]_<<part, vars, netVars, bindVars, tableVars>> => HostTables'
  <2> SUFFICES ASSUME HostTables, [MCNext]_<<part, vars, netVars, bindVars, tableVars>>,
                      part = "tables" \/ part' = "tables"
               PROVE  TabInv'
    BY DEF HostTables
  <2>1. part' = part /\ [Tables!Next]_tableVars
    BY DEF MCNext
  <2> QED BY <2>1, TablesStep DEF HostTables
<1> QED BY <1>1, <1>2, PTL DEF MCSpec

\* The address a daemon takes is its own, a batch is sealed with the keys of
\* the row it goes to, and every row whose keys were read is served.
THEOREM TablesAgreeAlways == MCSpec => []TablesAgree
<1>1. HostTables => TablesAgree
  BY TablesServe DEF HostTables, TabInv, TablesAgree
<1> QED BY <1>1, TablesInvariance, PTL

-----------------------------------------------------------------------------
(* The network entries (NetEntries), for any files and mishaps.            *)

Matches == {"dst", "src", "uid"}

EntriesOf(n) ==
  {Net!Link(n), Net!Addr(n), Net!Route(n)}
    \cup {Net!Chain(t, n) : t \in Net!Tables}
    \cup {Net!Rule(t, n, m) : t \in Net!Tables, m \in Matches}
    \cup {Net!Hooks(n)[k] : k \in 1 .. 3}

CommandsOf(n) ==
  [op : {"add", "up", "ensure", "flush", "del"}, entry : EntriesOf(n), must : BOOLEAN]

LEMMA SetupList ==
  ASSUME NEW n, NEW t \in Net!Tables, n.uid \in BOOLEAN
  PROVE  LET s == Net!TableSetup(t, n)
             m == IF n.uid THEN 5 ELSE 4
         IN /\ s \in Seq(CommandsOf(n)) /\ Len(s) = m
            /\ s[1] = Net!Hard("ensure", Net!Chain(t, n))
            /\ s[2] = Net!Soft("flush", Net!Chain(t, n))
            /\ s[3] = Net!Hard("add", Net!Rule(t, n, "dst"))
            /\ s[4] = Net!Hard("add", Net!Rule(t, n, "src"))
            /\ n.uid => s[5] = Net!Hard("add", Net!Rule(t, n, "uid"))
<1> DEFINE a == <<Net!Hard("ensure", Net!Chain(t, n)), Net!Soft("flush", Net!Chain(t, n)),
                  Net!Hard("add", Net!Rule(t, n, "dst")), Net!Hard("add", Net!Rule(t, n, "src"))>>
           b == <<Net!Hard("add", Net!Rule(t, n, "uid"))>>
<1>1. /\ Net!Chain(t, n) \in EntriesOf(n)
      /\ \A m \in Matches : Net!Rule(t, n, m) \in EntriesOf(n)
  BY DEF EntriesOf
<1>2. /\ Net!Hard("ensure", Net!Chain(t, n)) \in CommandsOf(n)
      /\ Net!Soft("flush", Net!Chain(t, n)) \in CommandsOf(n)
      /\ \A m \in Matches : Net!Hard("add", Net!Rule(t, n, m)) \in CommandsOf(n)
  BY <1>1 DEF CommandsOf, Net!Hard, Net!Soft
<1>3. a \in Seq(CommandsOf(n)) /\ Len(a) = 4
  BY <1>2 DEF Matches
<1>4. b \in Seq(CommandsOf(n)) /\ Len(b) = 1 /\ b[1] = Net!Hard("add", Net!Rule(t, n, "uid"))
  BY <1>2 DEF Matches
<1>5. /\ a[1] = Net!Hard("ensure", Net!Chain(t, n))
      /\ a[2] = Net!Soft("flush", Net!Chain(t, n))
      /\ a[3] = Net!Hard("add", Net!Rule(t, n, "dst"))
      /\ a[4] = Net!Hard("add", Net!Rule(t, n, "src"))
  OBVIOUS
<1>6. CASE n.uid
  <2>1. Net!TableSetup(t, n) = a \o b
    BY <1>6 DEF Net!TableSetup
  <2> HIDE DEF a, b
  <2> DEFINE s == a \o b
  <2>2. /\ s \in Seq(CommandsOf(n)) /\ Len(s) = Len(a) + Len(b)
        /\ \A i \in 1 .. Len(a) + Len(b) :
             s[i] = IF i <= Len(a) THEN a[i] ELSE b[i - Len(a)]
    BY <1>3, <1>4, ConcatProperties
  <2> HIDE DEF s
  <2>3. /\ s \in Seq(CommandsOf(n)) /\ Len(s) = 4 + 1
        /\ \A i \in 1 .. 4 : s[i] = a[i]
        /\ \A i \in 1 .. 1 : s[4 + i] = b[i]
    BY <1>3, <1>4, <2>2
  <2>4. s[5] = b[1]
    BY <2>3
  <2> QED BY <1>4, <1>5, <1>6, <2>1, <2>3, <2>4 DEF s
<1>7. CASE ~n.uid
  <2>1. Net!TableSetup(t, n) = a \o <<>>
    BY <1>7 DEF Net!TableSetup
  <2> HIDE DEF a, b
  <2>2. a \o <<>> = a
    BY <1>3, ConcatEmptySeq
  <2> QED BY <1>3, <1>5, <1>7, <2>1, <2>2
<1> QED BY <1>6, <1>7

\* How many commands a table takes.
SetupLength(n) == IF n.uid THEN 5 ELSE 4

\* install, command by command.
LEMMA InstallList ==
  ASSUME NEW n, n.uid \in BOOLEAN
  PROVE  LET s == Net!InstallCommands(n)
             m == SetupLength(n)
         IN /\ s \in Seq(CommandsOf(n)) /\ Len(s) = 7 + m + m
            /\ s[1] = Net!Soft("add", Net!Link(n)) /\ s[2] = Net!Hard("up", Net!Link(n))
            /\ s[3] = Net!Soft("add", Net!Addr(n)) /\ s[4] = Net!Soft("add", Net!Route(n))
            /\ \A i \in 1 .. m : s[4 + i] = Net!TableSetup("filter", n)[i]
            /\ \A i \in 1 .. m : s[4 + m + i] = Net!TableSetup("mangle", n)[i]
            /\ \A i \in 1 .. 3 : s[4 + m + m + i] = Net!Hard("ensure", Net!Hooks(n)[i])
<1> DEFINE a == <<Net!Soft("add", Net!Link(n)), Net!Hard("up", Net!Link(n)),
                  Net!Soft("add", Net!Addr(n)), Net!Soft("add", Net!Route(n))>>
           f == Net!TableSetup("filter", n)
           g == Net!TableSetup("mangle", n)
           h == [k \in 1 .. 3 |-> Net!Hard("ensure", Net!Hooks(n)[k])]
           m == SetupLength(n)
<1>1. Net!InstallCommands(n) = ((a \o f) \o g) \o h
  BY DEF Net!InstallCommands
<1>2. /\ Net!Link(n) \in EntriesOf(n) /\ Net!Addr(n) \in EntriesOf(n)
      /\ Net!Route(n) \in EntriesOf(n) /\ \A k \in 1 .. 3 : Net!Hooks(n)[k] \in EntriesOf(n)
  BY DEF EntriesOf
<1>3. a \in Seq(CommandsOf(n)) /\ Len(a) = 4
  <2>1. /\ Net!Soft("add", Net!Link(n)) \in CommandsOf(n)
        /\ Net!Hard("up", Net!Link(n)) \in CommandsOf(n)
        /\ Net!Soft("add", Net!Addr(n)) \in CommandsOf(n)
        /\ Net!Soft("add", Net!Route(n)) \in CommandsOf(n)
    BY <1>2 DEF CommandsOf, Net!Hard, Net!Soft
  <2> QED BY <2>1
<1>4. a[1] = Net!Soft("add", Net!Link(n)) /\ a[2] = Net!Hard("up", Net!Link(n))
      /\ a[3] = Net!Soft("add", Net!Addr(n)) /\ a[4] = Net!Soft("add", Net!Route(n))
  OBVIOUS
<1>5. h \in Seq(CommandsOf(n)) /\ Len(h) = 3
      /\ \A i \in 1 .. 3 : h[i] = Net!Hard("ensure", Net!Hooks(n)[i])
  <2>1. \A k \in 1 .. 3 : Net!Hard("ensure", Net!Hooks(n)[k]) \in CommandsOf(n)
    BY <1>2 DEF CommandsOf, Net!Hard
  <2> QED BY <2>1
<1>6. f \in Seq(CommandsOf(n)) /\ Len(f) = m /\ g \in Seq(CommandsOf(n)) /\ Len(g) = m
  BY SetupList DEF Net!Tables, SetupLength
<1>7. m \in Nat
  BY DEF SetupLength
<1> HIDE DEF a, f, g, h, m
<1> DEFINE b == a \o f
<1>8. /\ b \in Seq(CommandsOf(n)) /\ Len(b) = Len(a) + Len(f)
      /\ \A i \in 1 .. Len(a) + Len(f) :
           b[i] = IF i <= Len(a) THEN a[i] ELSE f[i - Len(a)]
  BY <1>3, <1>6, ConcatProperties
<1> HIDE DEF b
<1>9. /\ b \in Seq(CommandsOf(n)) /\ Len(b) = 4 + m
      /\ \A i \in 1 .. 4 : b[i] = a[i]
      /\ \A i \in 1 .. m : b[4 + i] = f[i]
  BY <1>8, <1>3, <1>6
<1> DEFINE c == b \o g
<1>10. /\ c \in Seq(CommandsOf(n)) /\ Len(c) = Len(b) + Len(g)
      /\ \A i \in 1 .. Len(b) + Len(g) :
           c[i] = IF i <= Len(b) THEN b[i] ELSE g[i - Len(b)]
  BY <1>6, <1>9, ConcatProperties
<1> HIDE DEF c
<1>11. /\ c \in Seq(CommandsOf(n)) /\ Len(c) = (4 + m) + m
       /\ \A i \in 1 .. 4 + m : c[i] = b[i]
       /\ \A i \in 1 .. m : c[(4 + m) + i] = g[i]
  BY <1>6, <1>7, <1>9, <1>10
<1> DEFINE d == c \o h
<1>12. /\ d \in Seq(CommandsOf(n)) /\ Len(d) = Len(c) + Len(h)
      /\ \A i \in 1 .. Len(c) + Len(h) :
           d[i] = IF i <= Len(c) THEN c[i] ELSE h[i - Len(c)]
  BY <1>5, <1>11, ConcatProperties
<1>13. d = Net!InstallCommands(n)
  BY <1>1 DEF b, c
<1> HIDE DEF d
<1>14. /\ d \in Seq(CommandsOf(n)) /\ Len(d) = ((4 + m) + m) + 3
       /\ \A i \in 1 .. (4 + m) + m : d[i] = c[i]
       /\ \A i \in 1 .. 3 : d[((4 + m) + m) + i] = h[i]
  BY <1>5, <1>7, <1>11, <1>12
<1>15. /\ \A i \in 1 .. 4 : d[i] = a[i]
       /\ \A i \in 1 .. m : d[4 + i] = f[i]
       /\ \A i \in 1 .. m : d[4 + m + i] = g[i]
       /\ \A i \in 1 .. 3 : d[4 + m + m + i] = h[i]
       /\ Len(d) = 7 + m + m
  <2>1. \A i \in 1 .. 4 + m : d[i] = b[i]
    BY <1>7, <1>11, <1>14
  <2>2. /\ \A i \in 1 .. 4 : d[i] = a[i]
        /\ \A i \in 1 .. m : d[4 + i] = f[i]
    BY <1>7, <1>9, <2>1
  <2>3. \A i \in 1 .. m : d[4 + m + i] = g[i]
    BY <1>7, <1>11, <1>14
  <2>4. \A i \in 1 .. 3 : d[4 + m + m + i] = h[i]
    BY <1>14
  <2>5. Len(d) = 7 + m + m
    BY <1>7, <1>14
  <2> QED BY <2>2, <2>3, <2>4, <2>5
<1>16. /\ d[1] = Net!Soft("add", Net!Link(n)) /\ d[2] = Net!Hard("up", Net!Link(n))
       /\ d[3] = Net!Soft("add", Net!Addr(n)) /\ d[4] = Net!Soft("add", Net!Route(n))
       /\ \A i \in 1 .. 3 : d[4 + m + m + i] = Net!Hard("ensure", Net!Hooks(n)[i])
  BY <1>4, <1>5, <1>15
<1> QED BY <1>13, <1>14, <1>15, <1>16 DEF m, f, g

\* uninstall, command by command.
LEMMA UninstallList ==
  ASSUME NEW n
  PROVE  LET s == Net!UninstallCommands(n)
         IN /\ s \in Seq(CommandsOf(n)) /\ Len(s) = 10
            /\ \A i \in 1 .. 3 : s[i] = Net!Soft("del", Net!Hooks(n)[i])
            /\ s[4] = Net!Soft("flush", Net!Chain("filter", n))
            /\ s[5] = Net!Soft("del", Net!Chain("filter", n))
            /\ s[6] = Net!Soft("flush", Net!Chain("mangle", n))
            /\ s[7] = Net!Soft("del", Net!Chain("mangle", n))
            /\ s[8] = Net!Soft("del", Net!Route(n)) /\ s[9] = Net!Soft("del", Net!Addr(n))
            /\ s[10] = Net!Soft("del", Net!Link(n))
<1> DEFINE h == [k \in 1 .. 3 |-> Net!Soft("del", Net!Hooks(n)[k])]
           f == Net!ChainRemoval("filter", n)
           g == Net!ChainRemoval("mangle", n)
           e == <<Net!Soft("del", Net!Route(n)), Net!Soft("del", Net!Addr(n)),
                  Net!Soft("del", Net!Link(n))>>
<1>1. Net!UninstallCommands(n) = ((h \o f) \o g) \o e
  BY DEF Net!UninstallCommands
<1>2. /\ Net!Link(n) \in EntriesOf(n) /\ Net!Addr(n) \in EntriesOf(n)
      /\ Net!Route(n) \in EntriesOf(n) /\ \A k \in 1 .. 3 : Net!Hooks(n)[k] \in EntriesOf(n)
      /\ \A t \in Net!Tables : Net!Chain(t, n) \in EntriesOf(n)
  BY DEF EntriesOf
<1>3. /\ \A op \in {"del", "flush"}, x \in EntriesOf(n) : Net!Soft(op, x) \in CommandsOf(n)
  BY DEF CommandsOf, Net!Soft
<1>4. h \in Seq(CommandsOf(n)) /\ Len(h) = 3
      /\ \A i \in 1 .. 3 : h[i] = Net!Soft("del", Net!Hooks(n)[i])
  <2>1. \A k \in 1 .. 3 : Net!Soft("del", Net!Hooks(n)[k]) \in CommandsOf(n)
    BY <1>2, <1>3
  <2> QED BY <2>1
<1>5. ASSUME NEW t \in Net!Tables
      PROVE  /\ Net!ChainRemoval(t, n) \in Seq(CommandsOf(n)) /\ Len(Net!ChainRemoval(t, n)) = 2
             /\ Net!ChainRemoval(t, n)[1] = Net!Soft("flush", Net!Chain(t, n))
             /\ Net!ChainRemoval(t, n)[2] = Net!Soft("del", Net!Chain(t, n))
  <2>1. /\ Net!Soft("flush", Net!Chain(t, n)) \in CommandsOf(n)
        /\ Net!Soft("del", Net!Chain(t, n)) \in CommandsOf(n)
    BY <1>2, <1>3
  <2> QED BY <2>1 DEF Net!ChainRemoval
<1>6. /\ f \in Seq(CommandsOf(n)) /\ Len(f) = 2
      /\ f[1] = Net!Soft("flush", Net!Chain("filter", n))
      /\ f[2] = Net!Soft("del", Net!Chain("filter", n))
      /\ g \in Seq(CommandsOf(n)) /\ Len(g) = 2
      /\ g[1] = Net!Soft("flush", Net!Chain("mangle", n))
      /\ g[2] = Net!Soft("del", Net!Chain("mangle", n))
  BY <1>5 DEF Net!Tables
<1>7. /\ e \in Seq(CommandsOf(n)) /\ Len(e) = 3
      /\ e[1] = Net!Soft("del", Net!Route(n)) /\ e[2] = Net!Soft("del", Net!Addr(n))
      /\ e[3] = Net!Soft("del", Net!Link(n))
  <2>1. /\ Net!Soft("del", Net!Route(n)) \in CommandsOf(n)
        /\ Net!Soft("del", Net!Addr(n)) \in CommandsOf(n)
        /\ Net!Soft("del", Net!Link(n)) \in CommandsOf(n)
    BY <1>2, <1>3
  <2> QED BY <2>1
<1> HIDE DEF h, f, g, e
<1> DEFINE b == h \o f
<1>8. /\ b \in Seq(CommandsOf(n)) /\ Len(b) = Len(h) + Len(f)
      /\ \A i \in 1 .. Len(h) + Len(f) :
           b[i] = IF i <= Len(h) THEN h[i] ELSE f[i - Len(h)]
  BY <1>4, <1>6, ConcatProperties
<1> HIDE DEF b
<1>9. /\ b \in Seq(CommandsOf(n)) /\ Len(b) = 3 + 2
      /\ \A i \in 1 .. 3 : b[i] = h[i]
      /\ \A i \in 1 .. 2 : b[3 + i] = f[i]
  BY <1>8, <1>4, <1>6
<1> DEFINE c == b \o g
<1>10. /\ c \in Seq(CommandsOf(n)) /\ Len(c) = Len(b) + Len(g)
      /\ \A i \in 1 .. Len(b) + Len(g) :
           c[i] = IF i <= Len(b) THEN b[i] ELSE g[i - Len(b)]
  BY <1>6, <1>9, ConcatProperties
<1> HIDE DEF c
<1>11. /\ c \in Seq(CommandsOf(n)) /\ Len(c) = (3 + 2) + 2
       /\ \A i \in 1 .. 3 + 2 : c[i] = b[i]
       /\ \A i \in 1 .. 2 : c[(3 + 2) + i] = g[i]
  BY <1>6, <1>9, <1>10
<1> DEFINE d == c \o e
<1>12. /\ d \in Seq(CommandsOf(n)) /\ Len(d) = Len(c) + Len(e)
      /\ \A i \in 1 .. Len(c) + Len(e) :
           d[i] = IF i <= Len(c) THEN c[i] ELSE e[i - Len(c)]
  BY <1>7, <1>11, ConcatProperties
<1>13. d = Net!UninstallCommands(n)
  BY <1>1 DEF b, c
<1> HIDE DEF d
<1>14. /\ d \in Seq(CommandsOf(n)) /\ Len(d) = ((3 + 2) + 2) + 3
       /\ \A i \in 1 .. (3 + 2) + 2 : d[i] = c[i]
       /\ \A i \in 1 .. 3 : d[((3 + 2) + 2) + i] = e[i]
  BY <1>7, <1>11, <1>12
<1>15. /\ Len(d) = 10 /\ \A i \in 1 .. 3 : d[i] = h[i]
       /\ d[4] = f[1] /\ d[5] = f[2] /\ d[6] = g[1] /\ d[7] = g[2]
       /\ d[8] = e[1] /\ d[9] = e[2] /\ d[10] = e[3]
  BY <1>9, <1>11, <1>14
<1> QED BY <1>4, <1>6, <1>7, <1>13, <1>14, <1>15

\* The entries of install's commands before the k-th.
Before(n, k) == {Net!InstallCommands(n)[j].entry : j \in 1 .. k - 1}

\* Each command comes when what it needs is there, and a flush before there is
\* anything to flush.
InTurn(n, k) ==
  LET c == Net!InstallCommands(n)[k]
      before == Before(n, k)
  IN \/ c = Net!Soft("add", Net!Link(n)) /\ k = 1
     \/ c = Net!Hard("up", Net!Link(n)) /\ Net!Link(n) \in before
     \/ /\ c = Net!Soft("add", Net!Addr(n)) /\ Net!Link(n) \in before
        /\ \A e \in before : e[1] # "addr"
     \/ /\ c = Net!Soft("add", Net!Route(n)) /\ Net!Link(n) \in before
        /\ \A e \in before : e[1] # "route"
     \/ \E t \in Net!Tables :
          \/ c = Net!Hard("ensure", Net!Chain(t, n))
          \/ /\ c = Net!Soft("flush", Net!Chain(t, n)) /\ Net!Chain(t, n) \in before
             /\ \A e \in before : e[1] = "rule" => e[2] # t
          \/ /\ \E m \in Matches : c = Net!Hard("add", Net!Rule(t, n, m))
             /\ Net!Chain(t, n) \in before
     \/ \E i \in 1 .. 3 : c = Net!Hard("ensure", Net!Hooks(n)[i])

LEMMA InstallOrder ==
  ASSUME NEW n, n.uid \in BOOLEAN, NEW k \in 1 .. Len(Net!InstallCommands(n))
  PROVE  InTurn(n, k)
<1> DEFINE s == Net!InstallCommands(n)
           m == SetupLength(n)
           before == Before(n, k)
<1>1. /\ Len(s) = 7 + m + m
      /\ s[1] = Net!Soft("add", Net!Link(n)) /\ s[2] = Net!Hard("up", Net!Link(n))
      /\ s[3] = Net!Soft("add", Net!Addr(n)) /\ s[4] = Net!Soft("add", Net!Route(n))
      /\ \A i \in 1 .. m : s[4 + i] = Net!TableSetup("filter", n)[i]
      /\ \A i \in 1 .. m : s[4 + m + i] = Net!TableSetup("mangle", n)[i]
      /\ \A i \in 1 .. 3 : s[4 + m + m + i] = Net!Hard("ensure", Net!Hooks(n)[i])
  BY InstallList
<1>2. m \in {4, 5}
  BY DEF SetupLength
<1>3. ASSUME NEW t \in Net!Tables
      PROVE  /\ Net!TableSetup(t, n)[1] = Net!Hard("ensure", Net!Chain(t, n))
             /\ Net!TableSetup(t, n)[2] = Net!Soft("flush", Net!Chain(t, n))
             /\ \A i \in 3 .. m : \E x \in Matches :
                  Net!TableSetup(t, n)[i] = Net!Hard("add", Net!Rule(t, n, x))
  <2>1. /\ Net!TableSetup(t, n)[1] = Net!Hard("ensure", Net!Chain(t, n))
        /\ Net!TableSetup(t, n)[2] = Net!Soft("flush", Net!Chain(t, n))
        /\ Net!TableSetup(t, n)[3] = Net!Hard("add", Net!Rule(t, n, "dst"))
        /\ Net!TableSetup(t, n)[4] = Net!Hard("add", Net!Rule(t, n, "src"))
        /\ n.uid => Net!TableSetup(t, n)[5] = Net!Hard("add", Net!Rule(t, n, "uid"))
    BY SetupList
  <2>2. /\ \E x \in Matches : Net!TableSetup(t, n)[3] = Net!Hard("add", Net!Rule(t, n, x))
        /\ \E x \in Matches : Net!TableSetup(t, n)[4] = Net!Hard("add", Net!Rule(t, n, x))
        /\ n.uid => \E x \in Matches :
                      Net!TableSetup(t, n)[5] = Net!Hard("add", Net!Rule(t, n, x))
    BY <2>1, Zenon DEF Matches
  <2> HIDE DEF m
  <2>3. \A i \in 3 .. m : i = 3 \/ i = 4 \/ (n.uid /\ i = 5)
    BY DEF m, SetupLength
  <2> QED BY <2>1, <2>2, <2>3
<1> HIDE DEF s, m
<1>4. \A j \in 1 .. k - 1 : s[j].entry \in before
  BY DEF before, Before, s
<1>5. \A e \in before : \E j \in 1 .. k - 1 : e = s[j].entry
  BY DEF before, Before, s
<1>0. before = Before(n, k)
  OBVIOUS
<1> HIDE DEF before
<1>21. ASSUME NEW t \in Net!Tables
       PROVE  /\ Net!TableSetup(t, n)[1].entry = Net!Chain(t, n)
              /\ Net!TableSetup(t, n)[2].entry = Net!Chain(t, n)
  <2>1. \A x : Net!Hard("ensure", x).entry = x /\ Net!Soft("flush", x).entry = x
    BY DEF Net!Hard, Net!Soft
  <2> QED BY <1>3, <2>1
\* What is an entry of what.
<1>20. ASSUME NEW t \in Net!Tables
       PROVE  /\ Net!Chain(t, n)[1] = "chain" /\ Net!Chain(t, n)[2] = t
              /\ \A x : Net!Rule(t, n, x)[1] = "rule" /\ Net!Rule(t, n, x)[2] = t
  BY DEF Net!Chain, Net!Rule
<1>6. ASSUME NEW t \in Net!Tables, NEW i \in 1 .. m
      PROVE  /\ Net!TableSetup(t, n)[i].entry[1] \in {"chain", "rule"}
             /\ Net!TableSetup(t, n)[i].entry[2] = t
             /\ Net!TableSetup(t, n)[i].entry[1] = "rule" => i > 2
  <2>1. CASE i = 1
    <3>1. Net!TableSetup(t, n)[i].entry = Net!Chain(t, n)
      BY <1>21, <2>1
    <3> QED BY <1>20, <3>1
  <2>2. CASE i = 2
    <3>1. Net!TableSetup(t, n)[i].entry = Net!Chain(t, n)
      BY <1>21, <2>2
    <3> QED BY <1>20, <3>1
  <2>3. CASE i > 2
    <3>1. i \in 3 .. m
      BY <1>2, <2>3
    <3>2. PICK x \in Matches : Net!TableSetup(t, n)[i] = Net!Hard("add", Net!Rule(t, n, x))
      BY <1>3, <3>1
    <3> QED BY <2>3, <3>2 DEF Net!Hard, Net!Rule
  <2> QED BY <1>2, <2>1, <2>2, <2>3
<1>7. /\ s[1].entry = Net!Link(n) /\ s[2].entry = Net!Link(n)
      /\ s[3].entry = Net!Addr(n) /\ s[4].entry = Net!Route(n)
  BY <1>1 DEF Net!Soft, Net!Hard
<1>8. /\ Net!Link(n)[1] = "link" /\ Net!Addr(n)[1] = "addr" /\ Net!Route(n)[1] = "route"
  BY DEF Net!Link, Net!Addr, Net!Route
<1>9. CASE k = 1
  BY <1>1, <1>9 DEF InTurn, s
<1>10. CASE k = 2
  <2>1. 1 \in 1 .. k - 1
    BY <1>10
  <2>2. Net!Link(n) \in before
    BY <1>4, <1>7, <2>1
  <2> QED BY <1>0, <1>1, <1>10, <2>2 DEF InTurn, s
<1>11. CASE k = 3
  <2>1. Net!Link(n) \in before
    BY <1>4, <1>7, <1>11
  <2>2. \A e \in before : e[1] # "addr"
    BY <1>5, <1>7, <1>8, <1>11
  <2> QED BY <1>0, <1>1, <1>11, <2>1, <2>2 DEF InTurn, s
<1>12. CASE k = 4
  <2>1. Net!Link(n) \in before
    BY <1>4, <1>7, <1>12
  <2>2. \A e \in before : e[1] # "route"
    BY <1>5, <1>7, <1>8, <1>12
  <2> QED BY <1>0, <1>1, <1>12, <2>1, <2>2 DEF InTurn, s
\* A table's commands begin after the p-th.
<1>13. ASSUME NEW t \in Net!Tables, NEW p \in {4, 4 + m}, NEW i \in 1 .. m, k = p + i,
              \A j \in 1 .. m : s[p + j] = Net!TableSetup(t, n)[j],
              \A j \in 1 .. p : s[j].entry[1] = "rule" => s[j].entry[2] # t
       PROVE  InTurn(n, k)
  <2>1. s[k] = Net!TableSetup(t, n)[i]
    BY <1>13
  <2>2. CASE i = 1
    BY <1>3, <2>1, <2>2 DEF InTurn, s
  <2>3. i > 1 => Net!Chain(t, n) \in before
    <3> SUFFICES ASSUME i > 1 PROVE Net!Chain(t, n) \in before
      OBVIOUS
    <3>1. s[p + 1] = Net!Hard("ensure", Net!Chain(t, n))
      BY <1>2, <1>3, <1>13
    <3>2. s[p + 1].entry = Net!Chain(t, n)
      BY <3>1 DEF Net!Hard
    <3>3. p + 1 \in 1 .. k - 1
      BY <1>2, <1>13
    <3> QED BY <1>4, <3>2, <3>3
  <2>4. CASE i = 2
    <3>1. ASSUME NEW e \in before, e[1] = "rule" PROVE e[2] # t
      <4>1. PICK j \in 1 .. k - 1 : e = s[j].entry
        BY <1>5
      <4>2. j \in 1 .. p \/ j = p + 1
        BY <1>2, <1>13, <2>4
      <4>3. CASE j \in 1 .. p
        BY <1>13, <3>1, <4>1, <4>3
      <4>4. CASE j = p + 1
        <5>1. s[p + 1] = Net!Hard("ensure", Net!Chain(t, n))
          BY <1>2, <1>3, <1>13
        <5> QED BY <3>1, <4>1, <4>4, <5>1 DEF Net!Hard, Net!Chain
      <4> QED BY <4>2, <4>3, <4>4
    <3> QED BY <1>0, <1>3, <2>1, <2>3, <2>4, <3>1 DEF InTurn, s
  <2>5. CASE i > 2
    <3>1. i \in 3 .. m
      BY <1>2, <2>5
    <3>2. \E x \in Matches : s[k] = Net!Hard("add", Net!Rule(t, n, x))
      BY <1>3, <2>1, <3>1
    <3> QED BY <1>0, <2>3, <2>5, <3>2 DEF InTurn, s
  <2> QED BY <1>2, <2>2, <2>4, <2>5
<1>14. \A j \in 1 .. 4 : s[j].entry[1] # "rule"
  BY <1>7, <1>8
<1>15. ASSUME NEW i \in 1 .. m, k = 4 + i PROVE InTurn(n, k)
  <2>1. "filter" \in Net!Tables
    BY DEF Net!Tables
  <2> QED BY <1>1, <1>13, <1>14, <1>15, <2>1
<1>16. ASSUME NEW i \in 1 .. m, k = 4 + m + i PROVE InTurn(n, k)
  <2>1. "filter" \in Net!Tables /\ "mangle" \in Net!Tables /\ "filter" # "mangle"
    BY DEF Net!Tables
  <2>2. ASSUME NEW j \in 1 .. 4 + m, s[j].entry[1] = "rule" PROVE s[j].entry[2] # "mangle"
    <3>1. j \notin 1 .. 4
      BY <1>14, <2>2
    <3>2. j - 4 \in 1 .. m /\ 4 + (j - 4) = j
      BY <1>2, <3>1
    <3>3. s[j] = Net!TableSetup("filter", n)[j - 4]
      BY <1>1, <3>2
    <3> QED BY <1>6, <2>1, <3>2, <3>3
  <2>3. \A j \in 1 .. m : s[(4 + m) + j] = Net!TableSetup("mangle", n)[j]
    BY <1>1
  <2> QED BY <1>13, <1>16, <2>1, <2>2, <2>3
<1>17. ASSUME NEW i \in 1 .. 3, k = 4 + m + m + i PROVE InTurn(n, k)
  BY <1>1, <1>17 DEF InTurn, s
<1>18. k \in 1 .. 7 + m + m
  BY <1>1 DEF s
<1>19. \/ k \in 1 .. 4 \/ \E i \in 1 .. m : k = 4 + i \/ k = 4 + m + i
       \/ \E i \in 1 .. 3 : k = 4 + m + m + i
  <2>1. \/ k \in 1 .. 4 \/ k - 4 \in 1 .. m \/ k - (4 + m) \in 1 .. m
        \/ k - (4 + m + m) \in 1 .. 3
    BY <1>2, <1>18
  <2>2. /\ k = 4 + (k - 4) /\ k = 4 + m + (k - (4 + m))
        /\ k = 4 + m + m + (k - (4 + m + m))
    BY <1>2, <1>18
  <2> QED BY <2>1, <2>2
<1> QED BY <1>9, <1>10, <1>11, <1>12, <1>15, <1>16, <1>17, <1>19

\* What a command can make: three jumps for a chain, and no other kind.
Shaped(e) ==
  \/ e[1] = "link" /\ e = <<"link", e[2]>>
  \/ e[1] = "addr" /\ e = <<"addr", e[2], e[3]>>
  \/ e[1] = "route" /\ e = <<"route", e[2], e[3]>>
  \/ e[1] = "chain" /\ e[2] \in Net!Tables /\ e = <<"chain", e[2], e[3]>>
  \/ e[1] = "rule" /\ e[2] \in Net!Tables /\ e = <<"rule", e[2], e[3], e[4]>>
  \/ e[1] = "jump" /\ e \in {<<"jump", "filter", "OUTPUT", e[4]>>,
                             <<"jump", "mangle", "OUTPUT", e[4]>>,
                             <<"jump", "mangle", "PREROUTING", e[4]>>}

\* Addresses and routes are on a device, rules in a chain.
NetShape ==
  /\ \A e \in host : Shaped(e)
  /\ \A e \in host : e[1] \in {"addr", "route"} => <<"link", e[2]>> \in host
  /\ \A e \in host : e[1] = "rule" => <<"chain", e[2], e[3]>> \in host

\* A command of a daemon over the files C: it works with one of them, and an
\* install with the one it starts with.
ProcOf(C) ==
  [job : Net!Job, then : {"none", "install", "exit", "unwind"}, cfg : C \cup {Net!NoState},
   names : C \cup {Net!NoState}, step : 1 .. 18, failed : BOOLEAN]

ProcTyped(C, p) ==
  /\ p \in ProcOf(C)
  /\ p.job # "none" => p.cfg \in C /\ p.names \in C
  /\ p.job \in {"install", "write", "run"} => p.names = p.cfg
  /\ p.job = "install" => p.cfg.mode = "packet"
  /\ p.job = "install" => p.step <= Len(Net!InstallCommands(p.names)) + 1
  /\ p.job = "uninstall" => p.step <= 11
  /\ p.job \notin {"install", "uninstall"} => p.step = 1

NetTypes ==
  /\ setting \in NetSettings
  /\ config \in Net!Configs
  /\ saved \in Net!Configs \cup {Net!NoState}
  /\ ProcTyped(Net!Configs, proc)

\* What install insists on is there up to its k-th command.
Insisted(n, k) ==
  \A j \in 1 .. k - 1 :
    Net!InstallCommands(n)[j].must => Net!InstallCommands(n)[j].entry \in host

\* What uninstall has taken away, up to its k-th command.
Cleared(n, k) ==
  /\ \A i \in 1 .. 3 : k > i => Net!Hooks(n)[i] \notin host
  /\ k > 4 => Net!RulesOf(Net!Chain("filter", n)) = {}
  /\ k > 5 => Net!Chain("filter", n) \notin host
  /\ k > 6 => Net!RulesOf(Net!Chain("mangle", n)) = {}
  /\ k > 7 => Net!Chain("mangle", n) \notin host
  /\ k > 10 => Net!Link(n) \notin host

NetProgress ==
  /\ proc.job = "install" => Insisted(proc.cfg, proc.step)
  /\ proc.job \in {"write", "run"} /\ proc.cfg.mode = "packet" =>
       Insisted(proc.cfg, Len(Net!InstallCommands(proc.cfg)) + 1)
  /\ proc.job = "uninstall" /\ ~proc.failed => Cleared(proc.names, proc.step)

\* While no command fails for a reason of its own and no daemon dies early,
\* the entries are those of the commands that ran, and of the state file.
NetRecorded ==
  Net!Recorded =>
    /\ ~proc.failed /\ proc.then # "unwind"
    /\ saved = Net!NoState /\ proc.job \in {"none", "uninstall"} => host = {}
    /\ proc.job = "remove" => host = {}
    /\ proc.job = "install" => saved = Net!NoState /\ host = Before(proc.cfg, proc.step)
    /\ proc.job \in {"write", "run"} =>
         host = Before(proc.cfg, Len(Net!InstallCommands(proc.cfg)) + 1)
    /\ proc.job = "write" => saved = Net!NoState
    /\ proc.job = "run" => saved = proc.cfg
    /\ saved # Net!NoState =>
         /\ host = Net!Mentions(saved)
         /\ proc.job = "uninstall" => proc.names = saved


LEMMA EntryShapes ==
  ASSUME NEW n
  PROVE  /\ \A x \in EntriesOf(n) : Shaped(x)
         /\ \A x \in EntriesOf(n) \cap host : x \in Net!Mentions(n)
<1>1. ASSUME NEW x \in EntriesOf(n)
      PROVE  \/ x = <<"link", n.tun>> \/ x = <<"addr", n.tun, n.net>>
             \/ x = <<"route", n.tun, n.net>>
             \/ \E t \in Net!Tables : x = <<"chain", t, n.chain>>
             \/ \E t \in Net!Tables, m \in Matches : x = <<"rule", t, n.chain, m>>
             \/ x \in {<<"jump", "filter", "OUTPUT", n.chain>>,
                       <<"jump", "mangle", "OUTPUT", n.chain>>,
                       <<"jump", "mangle", "PREROUTING", n.chain>>}
  BY DEF EntriesOf, Net!Link, Net!Addr, Net!Route, Net!Chain, Net!Rule, Net!Hooks, Net!Jump
<1>2. ASSUME NEW x \in EntriesOf(n)
      PROVE  /\ Shaped(x)
             /\ \/ x[1] \in {"link", "addr", "route"} /\ x[2] = n.tun
                \/ x[1] \in {"chain", "rule"} /\ x[3] = n.chain
                \/ x[1] = "jump" /\ x[4] = n.chain
  BY <1>1 DEF Shaped
<1> QED BY <1>2 DEF Net!Mentions

\* ip and iptables, operation by operation.
LEMMA EffectOf ==
  ASSUME NEW x
  PROVE  /\ Net!Effect("add", x) = host \cup {x} /\ Net!Effect("ensure", x) = host \cup {x}
         /\ Net!Effect("up", x) = host
         /\ Net!Effect("flush", x) = host \ Net!RulesOf(x)
         /\ x[1] = "link" => Net!Effect("del", x) = (host \ {x}) \ Net!OnLink(x)
         /\ x[1] # "link" => Net!Effect("del", x) = host \ {x}
BY DEF Net!Effect

LEMMA AllowsOf ==
  ASSUME NEW x
  PROVE  /\ Net!Allows("ensure", x)
         /\ Net!Allows("up", x) <=> x \in host
         /\ x[1] = "link" => (Net!Allows("add", x) <=> x \notin host)
         /\ x[1] = "addr" =>
              (Net!Allows("add", x) <=> <<"link", x[2]>> \in host /\ x \notin host)
         /\ x[1] = "route" =>
              (Net!Allows("add", x) <=>
                 <<"link", x[2]>> \in host /\ ~\E r \in host : r[1] = "route" /\ r[3] = x[3])
         /\ x[1] = "rule" => (Net!Allows("add", x) <=> <<"chain", x[2], x[3]>> \in host)
         /\ Net!Allows("flush", x) <=> x \in host
         /\ x[1] = "chain" =>
              (Net!Allows("del", x) <=>
                 x \in host /\ Net!RulesOf(x) = {} /\ Net!JumpsTo(x) = {})
         /\ x[1] # "chain" => (Net!Allows("del", x) <=> x \in host)
BY DEF Net!Allows

LEMMA GrowShape ==
  ASSUME NetShape, NEW x, Shaped(x), host' = host \cup {x},
         x[1] \in {"addr", "route"} => <<"link", x[2]>> \in host,
         x[1] = "rule" => <<"chain", x[2], x[3]>> \in host
  PROVE  NetShape'
BY DEF NetShape, Shaped

\* What a command does when it works.
Works(c) == Net!Allows(c.op, c.entry) /\ host' = Net!Effect(c.op, c.entry)

LEMMA Forms ==
  ASSUME NEW op, NEW x
  PROVE  /\ Net!Soft(op, x).op = op /\ Net!Soft(op, x).entry = x /\ ~Net!Soft(op, x).must
         /\ Net!Hard(op, x).op = op /\ Net!Hard(op, x).entry = x /\ Net!Hard(op, x).must
BY DEF Net!Soft, Net!Hard

\* The first fields of an entry of n.
LEMMA EntryFields ==
  ASSUME NEW n
  PROVE  /\ Net!Link(n)[1] = "link" /\ Net!Link(n)[2] = n.tun
         /\ Net!Addr(n)[1] = "addr" /\ Net!Addr(n)[2] = n.tun
         /\ Net!Route(n)[1] = "route" /\ Net!Route(n)[2] = n.tun
         /\ Net!Link(n) = <<"link", n.tun>>
         /\ \A t \in Net!Tables :
              /\ Net!Chain(t, n) = <<"chain", t, n.chain>>
              /\ Net!Chain(t, n)[1] = "chain" /\ Net!Chain(t, n)[2] = t
              /\ Net!Chain(t, n)[3] = n.chain
BY DEF Net!Link, Net!Addr, Net!Route, Net!Chain

LEMMA HookFields ==
  ASSUME NEW n
  PROVE  /\ Net!Hooks(n)[1] = <<"jump", "filter", "OUTPUT", n.chain>>
         /\ Net!Hooks(n)[2] = <<"jump", "mangle", "OUTPUT", n.chain>>
         /\ Net!Hooks(n)[3] = <<"jump", "mangle", "PREROUTING", n.chain>>
         /\ \A i \in 1 .. 3 : Net!Hooks(n)[i][1] = "jump"
BY DEF Net!Hooks, Net!Jump

LEMMA EntryMembers ==
  ASSUME NEW n
  PROVE  /\ Net!Link(n) \in EntriesOf(n) /\ Net!Addr(n) \in EntriesOf(n)
         /\ Net!Route(n) \in EntriesOf(n)
         /\ \A t \in Net!Tables : Net!Chain(t, n) \in EntriesOf(n)
         /\ \A t \in Net!Tables, m \in Matches : Net!Rule(t, n, m) \in EntriesOf(n)
         /\ \A i \in 1 .. 3 : Net!Hooks(n)[i] \in EntriesOf(n)
BY DEF EntriesOf

\* A command of install that works.
LEMMA InstallWorks ==
  ASSUME NetShape, NEW n, n.uid \in BOOLEAN, NEW k \in 1 .. Len(Net!InstallCommands(n)),
         Works(Net!InstallCommands(n)[k])
  PROVE  /\ NetShape'
         /\ \/ host' = host \cup {Net!InstallCommands(n)[k].entry}
            \/ /\ ~Net!InstallCommands(n)[k].must
               /\ \E t \in Net!Tables : 
                     /\ host' = host \ Net!RulesOf(Net!Chain(t, n))
                     /\ \A e \in Before(n, k) : e[1] = "rule" => e[2] # t
<1> DEFINE c == Net!InstallCommands(n)[k]
<1>1. \/ c = Net!Soft("add", Net!Link(n)) \/ c = Net!Hard("up", Net!Link(n))
      \/ c = Net!Soft("add", Net!Addr(n)) \/ c = Net!Soft("add", Net!Route(n))
      \/ \E t \in Net!Tables :
           \/ c = Net!Hard("ensure", Net!Chain(t, n))
           \/ /\ c = Net!Soft("flush", Net!Chain(t, n))
              /\ \A e \in Before(n, k) : e[1] = "rule" => e[2] # t
           \/ \E m \in Matches : c = Net!Hard("add", Net!Rule(t, n, m))
      \/ \E i \in 1 .. 3 : c = Net!Hard("ensure", Net!Hooks(n)[i])
  BY InstallOrder DEF InTurn
<1>2. Net!Allows(c.op, c.entry) /\ host' = Net!Effect(c.op, c.entry)
  BY DEF Works
<1> HIDE DEF c
<1>3. \A x \in EntriesOf(n) : Shaped(x)
  BY EntryShapes
<1>4. ASSUME c.op = "add", c.entry \in EntriesOf(n) PROVE NetShape' /\ host' = host \cup {c.entry}
  <2>1. host' = host \cup {c.entry} /\ Net!Allows("add", c.entry)
    BY <1>2, <1>4, EffectOf
  <2>2. /\ c.entry[1] \in {"addr", "route"} => <<"link", c.entry[2]>> \in host
        /\ c.entry[1] = "rule" => <<"chain", c.entry[2], c.entry[3]>> \in host
    BY <2>1, AllowsOf
  <2> QED BY <1>3, <1>4, <2>1, <2>2, GrowShape
<1>5. ASSUME c.op = "ensure", c.entry \in EntriesOf(n), c.entry[1] \in {"chain", "jump"}
      PROVE  NetShape' /\ host' = host \cup {c.entry}
  <2>1. host' = host \cup {c.entry}
    BY <1>2, <1>5, EffectOf
  <2> QED BY <1>3, <1>5, <2>1, GrowShape
<1>6. ASSUME c = Net!Soft("add", Net!Link(n)) PROVE NetShape' /\ host' = host \cup {c.entry}
  <2>1. c.op = "add" /\ c.entry = Net!Link(n)
    BY <1>6, Forms
  <2> QED BY <1>4, <2>1, EntryMembers
<1>7. ASSUME c = Net!Hard("up", Net!Link(n)) PROVE NetShape' /\ host' = host \cup {c.entry}
  <2>1. c.op = "up" /\ c.entry = Net!Link(n)
    BY <1>7, Forms
  <2>2. host' = host /\ c.entry \in host
    BY <1>2, <2>1, EffectOf, AllowsOf
  <2>3. host' = host \cup {c.entry}
    BY <2>2
  <2> QED BY <2>2, <2>3 DEF NetShape, Shaped
<1>8. ASSUME c = Net!Soft("add", Net!Addr(n)) PROVE NetShape' /\ host' = host \cup {c.entry}
  <2>1. c.op = "add" /\ c.entry = Net!Addr(n)
    BY <1>8, Forms
  <2> QED BY <1>4, <2>1, EntryMembers
<1>9. ASSUME c = Net!Soft("add", Net!Route(n)) PROVE NetShape' /\ host' = host \cup {c.entry}
  <2>1. c.op = "add" /\ c.entry = Net!Route(n)
    BY <1>9, Forms
  <2> QED BY <1>4, <2>1, EntryMembers
<1>10. ASSUME NEW t \in Net!Tables, c = Net!Hard("ensure", Net!Chain(t, n))
       PROVE  NetShape' /\ host' = host \cup {c.entry}
  <2>1. c.op = "ensure" /\ c.entry = Net!Chain(t, n)
    BY <1>10, Forms
  <2>2. Net!Chain(t, n)[1] = "chain"
    BY EntryFields
  <2> QED BY <1>5, <2>1, <2>2, EntryMembers
<1>11. ASSUME NEW t \in Net!Tables, c = Net!Soft("flush", Net!Chain(t, n)),
              \A e \in Before(n, k) : e[1] = "rule" => e[2] # t
       PROVE  /\ NetShape' /\ ~c.must
              /\ host' = host \ Net!RulesOf(Net!Chain(t, n))
              /\ \A e \in Before(n, k) : e[1] = "rule" => e[2] # t
  <2>1. c.op = "flush" /\ c.entry = Net!Chain(t, n) /\ ~c.must
    BY <1>11, Forms
  <2>2. host' = host \ Net!RulesOf(Net!Chain(t, n))
    BY <1>2, <2>1, EffectOf
  <2>3. \A e \in host : e[1] # "rule" => e \in host'
    BY <2>2 DEF Net!RulesOf
  <2>4. NetShape'
    BY <2>2, <2>3 DEF NetShape, Shaped
  <2> QED BY <1>11, <2>1, <2>2, <2>4
<1>12. ASSUME NEW t \in Net!Tables, NEW m \in Matches, c = Net!Hard("add", Net!Rule(t, n, m))
       PROVE  NetShape' /\ host' = host \cup {c.entry}
  <2>1. c.op = "add" /\ c.entry = Net!Rule(t, n, m)
    BY <1>12, Forms
  <2> QED BY <1>4, <2>1, EntryMembers
<1>13. ASSUME NEW i \in 1 .. 3, c = Net!Hard("ensure", Net!Hooks(n)[i])
       PROVE  NetShape' /\ host' = host \cup {c.entry}
  <2>2. c.op = "ensure" /\ c.entry = Net!Hooks(n)[i]
    BY <1>13, Forms
  <2>3. Net!Hooks(n)[i][1] = "jump"
    BY HookFields
  <2>4. Net!Hooks(n)[i] \in EntriesOf(n)
    BY EntryMembers
  <2>5. c.entry \in EntriesOf(n) /\ c.entry[1] = "jump"
    BY <2>2, <2>3, <2>4
  <2> QED BY <1>5, <2>2, <2>5
<1>14. \/ NetShape' /\ host' = host \cup {c.entry}
       \/ /\ NetShape' /\ ~c.must
          /\ \E t \in Net!Tables :
               /\ host' = host \ Net!RulesOf(Net!Chain(t, n))
               /\ \A e \in Before(n, k) : e[1] = "rule" => e[2] # t
  BY <1>1, <1>6, <1>7, <1>8, <1>9, <1>10, <1>11, <1>12, <1>13
<1> QED BY <1>14 DEF c

\* A command of uninstall, whether it works or the host refuses it.
LEMMA UninstallStep ==
  ASSUME NetShape, NEW n, NEW k \in 1 .. 10, NEW c, c = Net!UninstallCommands(n)[k],
         Works(c) \/ (~Net!Allows(c.op, c.entry) /\ host' = host)
  PROVE  /\ host' \subseteq host
         /\ Cleared(n, k) => Cleared(n, k + 1)'
         /\ NetShape'
<1>1. /\ \A i \in 1 .. 3 : k = i => c = Net!Soft("del", Net!Hooks(n)[i])
      /\ k = 4 => c = Net!Soft("flush", Net!Chain("filter", n))
      /\ k = 5 => c = Net!Soft("del", Net!Chain("filter", n))
      /\ k = 6 => c = Net!Soft("flush", Net!Chain("mangle", n))
      /\ k = 7 => c = Net!Soft("del", Net!Chain("mangle", n))
      /\ k = 8 => c = Net!Soft("del", Net!Route(n))
      /\ k = 9 => c = Net!Soft("del", Net!Addr(n))
      /\ k = 10 => c = Net!Soft("del", Net!Link(n))
  BY UninstallList
<1>2. \/ Net!Allows(c.op, c.entry) /\ host' = Net!Effect(c.op, c.entry)
      \/ ~Net!Allows(c.op, c.entry) /\ host' = host
  BY DEF Works
<1>t. "filter" \in Net!Tables /\ "mangle" \in Net!Tables
  BY DEF Net!Tables
<1>3. ASSUME NEW x, c = Net!Soft("del", x), x[1] \in {"jump", "route", "addr"}
      PROVE  x \notin host' /\ host' \subseteq host /\ NetShape'
  <2>1. c.op = "del" /\ c.entry = x
    BY <1>3, Forms
  <2>2. \/ host' = host \ {x}
        \/ x \notin host /\ host' = host
    <3>1. \/ Net!Allows("del", x) /\ host' = Net!Effect("del", x)
          \/ ~Net!Allows("del", x) /\ host' = host
      BY <1>2, <2>1
    <3>2. Net!Effect("del", x) = host \ {x}
      BY <1>3, EffectOf
    <3>3. Net!Allows("del", x) <=> x \in host
      BY <1>3, AllowsOf
    <3> QED BY <3>1, <3>2, <3>3
  <2>3. \A e \in host : e[1] \in {"link", "chain"} => e \in host'
    BY <1>3, <2>2
  <2>4. host' \subseteq host /\ x \notin host'
    BY <2>2
  <2>5. \A y : <<"link", y>>[1] = "link"
    OBVIOUS
  <2>6. \A y, z : <<"chain", y, z>>[1] = "chain"
    OBVIOUS
  <2> QED BY <2>3, <2>4, <2>5, <2>6 DEF NetShape, Shaped
<1>4. ASSUME NEW t \in Net!Tables, c = Net!Soft("flush", Net!Chain(t, n))
      PROVE  Net!RulesOf(Net!Chain(t, n))' = {} /\ host' \subseteq host /\ NetShape'
  <2> DEFINE x == Net!Chain(t, n)
  <2>1. c.op = "flush" /\ c.entry = x
    BY <1>4, Forms
  <2>2. \/ host' = host \ Net!RulesOf(x)
        \/ x \notin host /\ host' = host
    <3> HIDE DEF x
    <3>1. \/ Net!Allows("flush", x) /\ host' = Net!Effect("flush", x)
          \/ ~Net!Allows("flush", x) /\ host' = host
      BY <1>2, <2>1
    <3>2. Net!Effect("flush", x) = host \ Net!RulesOf(x)
      BY EffectOf
    <3>3. Net!Allows("flush", x) <=> x \in host
      BY AllowsOf
    <3> QED BY <3>1, <3>2, <3>3
  <2>3. x = <<"chain", x[2], x[3]>>
    <3>1. x = <<"chain", t, n.chain>> /\ x[2] = t /\ x[3] = n.chain
      BY EntryFields
    <3> HIDE DEF x
    <3> QED BY <3>1
  <2> HIDE DEF x
  <2>4. x \notin host => Net!RulesOf(x) = {}
    BY <2>3 DEF Net!RulesOf, NetShape
  <2>5. /\ host' \subseteq host /\ \A e \in host : e[1] # "rule" => e \in host'
        /\ \A e \in host' : e \notin Net!RulesOf(x)
    BY <2>2, <2>4 DEF Net!RulesOf
  <2>6. Net!RulesOf(x)' = {}
    <3>1. \A e \in host' : e \in host /\ e \notin Net!RulesOf(x)
      BY <2>5
    <3>2. Net!RulesOf(Net!Chain(t, n))' = {e \in host' : e[1] = "rule" /\ e[2] = x[2] /\ e[3] = x[3]}
      BY DEF Net!RulesOf, x
    <3> QED BY <3>1, <3>2 DEF Net!RulesOf, x
  <2>7. NetShape'
    BY <2>5 DEF NetShape, Shaped
  <2> QED BY <2>5, <2>6, <2>7 DEF x
<1>5. ASSUME NEW t \in Net!Tables, c = Net!Soft("del", Net!Chain(t, n))
      PROVE  /\ host' \subseteq host /\ NetShape'
             /\ (\A i \in 1 .. 3 : Net!Hooks(n)[i] \notin host)
                  /\ Net!RulesOf(Net!Chain(t, n)) = {} => Net!Chain(t, n) \notin host'
  <2> DEFINE x == Net!Chain(t, n)
  <2>1. c.op = "del" /\ c.entry = x
    BY <1>5, Forms
  <2>2. /\ x[1] = "chain" /\ x[2] = t /\ x[3] = n.chain
        /\ x = <<"chain", t, n.chain>>
    BY EntryFields
  <2> HIDE DEF x
  <2>3. \/ host' = host \ {x} /\ Net!RulesOf(x) = {}
        \/ ~(x \in host /\ Net!RulesOf(x) = {} /\ Net!JumpsTo(x) = {}) /\ host' = host
    <3>1. x[1] # "link"
      BY <2>2
    <3>2. \/ Net!Allows("del", x) /\ host' = Net!Effect("del", x)
          \/ ~Net!Allows("del", x) /\ host' = host
      BY <1>2, <2>1
    <3>3. Net!Effect("del", x) = host \ {x}
      BY <2>2, <3>1, EffectOf
    <3>4. Net!Allows("del", x) <=> x \in host /\ Net!RulesOf(x) = {} /\ Net!JumpsTo(x) = {}
      BY <2>2, <3>1, AllowsOf
    <3> QED BY <3>2, <3>3, <3>4
  <2>4. NetShape'
    <3>1. CASE host' = host
      BY <3>1 DEF NetShape, Shaped
    <3>2. CASE host' = host \ {x} /\ Net!RulesOf(x) = {}
      <4>1. \A e \in host : e[1] = "rule" => <<"chain", e[2], e[3]>> # x
        BY <3>2, <2>2 DEF Net!RulesOf
      <4>2. \A y : <<"link", y>> # x
        BY <2>2
      <4> QED BY <3>2, <4>1, <4>2 DEF NetShape, Shaped
    <3> QED BY <2>3, <3>1, <3>2
  <2>5. (\A i \in 1 .. 3 : Net!Hooks(n)[i] \notin host) => Net!JumpsTo(x) = {}
    <3> SUFFICES ASSUME \A i \in 1 .. 3 : Net!Hooks(n)[i] \notin host,
                        NEW e \in host, e[1] = "jump", e[4] = n.chain
                 PROVE  FALSE
      BY <2>2 DEF Net!JumpsTo
    <3>1. e \in {<<"jump", "filter", "OUTPUT", e[4]>>, <<"jump", "mangle", "OUTPUT", e[4]>>,
                 <<"jump", "mangle", "PREROUTING", e[4]>>}
      BY DEF NetShape, Shaped
    <3>2. e \in {Net!Hooks(n)[1], Net!Hooks(n)[2], Net!Hooks(n)[3]}
      BY <3>1, HookFields
    <3> QED BY <3>2
  <2> QED BY <2>3, <2>4, <2>5 DEF x
<1>6. ASSUME c = Net!Soft("del", Net!Link(n))
      PROVE  Net!Link(n) \notin host' /\ host' \subseteq host /\ NetShape'
  <2> DEFINE x == Net!Link(n)
  <2>1. c.op = "del" /\ c.entry = x
    BY <1>6, Forms
  <2>2. x[1] = "link" /\ x[2] = n.tun /\ x = <<"link", n.tun>>
    BY EntryFields
  <2> HIDE DEF x
  <2>3. \/ host' = (host \ {x}) \ Net!OnLink(x)
        \/ x \notin host /\ host' = host
    <3>1. x[1] # "chain"
      BY <2>2
    <3>2. \/ Net!Allows("del", x) /\ host' = Net!Effect("del", x)
          \/ ~Net!Allows("del", x) /\ host' = host
      BY <1>2, <2>1
    <3>3. Net!Effect("del", x) = (host \ {x}) \ Net!OnLink(x)
      BY <2>2, <3>1, EffectOf
    <3>4. Net!Allows("del", x) <=> x \in host
      BY <2>2, <3>1, AllowsOf
    <3> QED BY <3>2, <3>3, <3>4
  <2>4. NetShape'
    <3>1. CASE host' = host
      BY <3>1 DEF NetShape, Shaped
    <3>2. CASE host' = (host \ {x}) \ Net!OnLink(x)
      <4>1. /\ host' \subseteq host
            /\ \A e \in host' : e[1] \in {"addr", "route"} => <<"link", e[2]>> # x
        BY <3>2, <2>2 DEF Net!OnLink
      <4>2. \A y, z : <<"chain", y, z>> # x /\ <<"chain", y, z>>[1] = "chain"
        BY <2>2
      <4>3. \A y : <<"link", y>>[1] = "link"
        OBVIOUS
      <4>4. \A e \in host : e # x /\ e[1] \notin {"addr", "route"} => e \in host'
        BY <3>2 DEF Net!OnLink
      <4> QED BY <4>1, <4>2, <4>3, <4>4 DEF NetShape, Shaped
    <3> QED BY <2>3, <3>1, <3>2
  <2> QED BY <2>3, <2>4 DEF x
<1>7. \A i \in 1 .. 3 : Net!Hooks(n)[i][1] = "jump"
  BY HookFields
<1>8. Net!Route(n)[1] = "route" /\ Net!Addr(n)[1] = "addr"
  BY EntryFields
<1>9. host' \subseteq host /\ NetShape'
  <2>1. CASE k \in 1 .. 3
    BY <1>1, <1>3, <1>7, <2>1
  <2>2. CASE k \in {4, 5, 6, 7}
    BY <1>1, <1>t, <1>4, <1>5, <2>2
  <2>3. CASE k \in {8, 9, 10}
    BY <1>1, <1>3, <1>6, <1>8, <2>3
  <2> QED BY <2>1, <2>2, <2>3
<1>10. ASSUME Cleared(n, k) PROVE Cleared(n, k + 1)'
  <2> DEFINE F == Net!Chain("filter", n)
             G == Net!Chain("mangle", n)
  <2>1. \A i \in 1 .. 3 : k + 1 > i => Net!Hooks(n)[i] \notin host'
    <3> SUFFICES ASSUME NEW i \in 1 .. 3, k + 1 > i PROVE Net!Hooks(n)[i] \notin host'
      OBVIOUS
    <3>1. CASE k > i
      BY <1>9, <1>10, <3>1 DEF Cleared
    <3>2. CASE k = i
      BY <1>1, <1>3, <1>7, <3>2
    <3> QED BY <3>1, <3>2
  <2>2. ASSUME NEW x, Net!RulesOf(x) = {} PROVE Net!RulesOf(x)' = {}
    BY <1>9, <2>2 DEF Net!RulesOf
  <2>3. k + 1 > 4 => Net!RulesOf(F)' = {}
    <3>1. CASE k > 4
      BY <1>10, <2>2, <3>1 DEF Cleared
    <3>2. CASE k = 4
      BY <1>1, <1>4, <1>t, <3>2
    <3> QED BY <3>1, <3>2
  <2>4. k > 3 => \A i \in 1 .. 3 : Net!Hooks(n)[i] \notin host
    BY <1>10 DEF Cleared
  <2>5. k + 1 > 5 => F \notin host'
    <3>1. CASE k > 5
      BY <1>9, <1>10, <3>1 DEF Cleared
    <3>2. CASE k = 5
      <4>1. Net!RulesOf(F) = {}
        BY <1>10, <3>2 DEF Cleared
      <4> QED BY <1>1, <1>5, <1>t, <2>4, <3>2, <4>1
    <3> QED BY <3>1, <3>2
  <2>6. k + 1 > 6 => Net!RulesOf(G)' = {}
    <3>1. CASE k > 6
      BY <1>10, <2>2, <3>1 DEF Cleared
    <3>2. CASE k = 6
      BY <1>1, <1>4, <1>t, <3>2
    <3> QED BY <3>1, <3>2
  <2>7. k + 1 > 7 => G \notin host'
    <3>1. CASE k > 7
      BY <1>9, <1>10, <3>1 DEF Cleared
    <3>2. CASE k = 7
      <4>1. Net!RulesOf(G) = {}
        BY <1>10, <3>2 DEF Cleared
      <4> QED BY <1>1, <1>5, <1>t, <2>4, <3>2, <4>1
    <3> QED BY <3>1, <3>2
  <2>8. k + 1 > 10 => Net!Link(n) \notin host'
    <3>1. CASE k = 10
      BY <1>1, <1>6, <3>1
    <3> QED BY <3>1
  <2> QED BY <2>1, <2>3, <2>5, <2>6, <2>7, <2>8 DEF Cleared
<1> QED BY <1>9, <1>10

\* What is gone at the end of an uninstall.
LEMMA AllCleared ==
  ASSUME NetShape, NEW n, Cleared(n, 11)
  PROVE  Net!Mentions(n) = {}
<1>1. /\ \A i \in 1 .. 3 : Net!Hooks(n)[i] \notin host
      /\ \A t \in Net!Tables : Net!Chain(t, n) \notin host
      /\ Net!Link(n) \notin host
  BY DEF Cleared, Net!Tables
<1>2. ASSUME NEW e \in host PROVE e \notin Net!Mentions(n)
  <2>1. Shaped(e)
    BY DEF NetShape
  <2>2. CASE e[1] \in {"link", "addr", "route"}
    <3>1. <<"link", e[2]>> \in host
      BY <2>1, <2>2 DEF NetShape, Shaped
    <3>2. e[2] # n.tun
      BY <1>1, <3>1, EntryFields
    <3> QED BY <2>2, <3>2 DEF Net!Mentions
  <2>3. CASE e[1] \in {"chain", "rule"}
    <3>1. e[2] \in Net!Tables /\ <<"chain", e[2], e[3]>> \in host
      BY <2>1, <2>3 DEF NetShape, Shaped
    <3>2. e[3] # n.chain
      <4>1. Net!Chain(e[2], n) = <<"chain", e[2], n.chain>>
        BY <3>1, EntryFields
      <4> QED BY <1>1, <3>1, <4>1
    <3> QED BY <2>3, <3>2 DEF Net!Mentions
  <2>4. CASE e[1] = "jump"
    <3>1. e \in {<<"jump", "filter", "OUTPUT", e[4]>>, <<"jump", "mangle", "OUTPUT", e[4]>>,
                 <<"jump", "mangle", "PREROUTING", e[4]>>}
      BY <2>1, <2>4 DEF Shaped
    <3>2. e[4] # n.chain
      <4> SUFFICES ASSUME e[4] = n.chain PROVE FALSE
        OBVIOUS
      <4>1. e \in {Net!Hooks(n)[1], Net!Hooks(n)[2], Net!Hooks(n)[3]}
        BY <3>1, HookFields
      <4> QED BY <1>1, <4>1
    <3> QED BY <2>4, <3>2 DEF Net!Mentions
  <2> QED BY <2>1, <2>2, <2>3, <2>4 DEF Shaped
<1>3. Net!Mentions(n) \subseteq host
  BY DEF Net!Mentions
<1> QED BY <1>2, <1>3

LEMMA BeforeNext ==
  ASSUME NEW n, NEW k \in Nat \ {0}
  PROVE  /\ Before(n, 1) = {}
         /\ Before(n, k + 1) = Before(n, k) \cup {Net!InstallCommands(n)[k].entry}
<1>1. 1 .. (k + 1) - 1 = (1 .. k - 1) \cup {k} /\ 1 .. 1 - 1 = {}
  OBVIOUS
<1> QED BY <1>1 DEF Before

\* What install insists on is not lost on the way.
LEMMA InsistedStep ==
  ASSUME NetShape, NEW n, n.uid \in BOOLEAN, NEW k \in 1 .. Len(Net!InstallCommands(n)),
         NEW c, c = Net!InstallCommands(n)[k], Insisted(n, k),
         Works(c) \/ (~c.must /\ host' = host)
  PROVE  Insisted(n, k + 1)'
<1>0. Len(Net!InstallCommands(n)) \in Nat
  BY InstallList DEF SetupLength
<1>1. \/ host' = host \cup {c.entry}
      \/ ~c.must /\ host' = host
      \/ /\ ~c.must
         /\ \E t \in Net!Tables :
              /\ host' = host \ Net!RulesOf(Net!Chain(t, n))
              /\ \A e \in Before(n, k) : e[1] = "rule" => e[2] # t
  BY InstallWorks
<1>2. ASSUME NEW j \in 1 .. k - 1, Net!InstallCommands(n)[j].entry \in host
      PROVE  Net!InstallCommands(n)[j].entry \in host'
  <2> DEFINE x == Net!InstallCommands(n)[j].entry
  <2>1. x \in Before(n, k)
    BY DEF Before
  <2> HIDE DEF x
  <2>2. x \in host
    BY <1>2 DEF x
  <2>3. CASE host' = host \cup {c.entry} \/ host' = host
    BY <2>2, <2>3 DEF x
  <2>4. ASSUME NEW t \in Net!Tables, host' = host \ Net!RulesOf(Net!Chain(t, n)),
               \A e \in Before(n, k) : e[1] = "rule" => e[2] # t
        PROVE  x \in host'
    <3>1. Net!Chain(t, n)[2] = t
      BY EntryFields
    <3>2. x \notin Net!RulesOf(Net!Chain(t, n))
      BY <2>1, <2>4, <3>1 DEF Net!RulesOf
    <3> QED BY <2>2, <2>4, <3>2
  <2> QED BY <1>1, <2>3, <2>4 DEF x
<1>3. c.must => c.entry \in host'
  BY <1>1
<1> SUFFICES ASSUME NEW j \in 1 .. (k + 1) - 1, Net!InstallCommands(n)[j].must
             PROVE  Net!InstallCommands(n)[j].entry \in host'
  BY DEF Insisted
<1>4. CASE j = k
  BY <1>3, <1>4
<1>5. CASE j \in 1 .. k - 1
  <2>1. Net!InstallCommands(n)[j].entry \in host
    BY <1>5 DEF Insisted
  <2> QED BY <1>2, <1>5, <2>1
<1> QED BY <1>0, <1>4, <1>5

\* On a host that has only what the commands before made, none is refused.
LEMMA RecordedStep ==
  ASSUME NEW n, n.uid \in BOOLEAN, NEW k \in 1 .. Len(Net!InstallCommands(n)),
         NEW c, c = Net!InstallCommands(n)[k], host = Before(n, k)
  PROVE  /\ Net!Allows(c.op, c.entry)
         /\ Net!Effect(c.op, c.entry) = Before(n, k + 1)
<1>0. k \in Nat \ {0}
  BY InstallList DEF SetupLength
<1>1. \/ c = Net!Soft("add", Net!Link(n)) /\ k = 1
      \/ c = Net!Hard("up", Net!Link(n)) /\ Net!Link(n) \in host
      \/ /\ c = Net!Soft("add", Net!Addr(n)) /\ Net!Link(n) \in host
         /\ \A e \in host : e[1] # "addr"
      \/ /\ c = Net!Soft("add", Net!Route(n)) /\ Net!Link(n) \in host
         /\ \A e \in host : e[1] # "route"
      \/ \E t \in Net!Tables :
           \/ c = Net!Hard("ensure", Net!Chain(t, n))
           \/ /\ c = Net!Soft("flush", Net!Chain(t, n)) /\ Net!Chain(t, n) \in host
              /\ \A e \in host : e[1] = "rule" => e[2] # t
           \/ /\ \E m \in Matches : c = Net!Hard("add", Net!Rule(t, n, m))
              /\ Net!Chain(t, n) \in host
      \/ \E i \in 1 .. 3 : c = Net!Hard("ensure", Net!Hooks(n)[i])
  BY InstallOrder DEF InTurn
<1>2. Before(n, k + 1) = host \cup {c.entry} /\ (k = 1 => host = {})
  BY <1>0, BeforeNext
<1> SUFFICES Net!Allows(c.op, c.entry) /\ Net!Effect(c.op, c.entry) = host \cup {c.entry}
  BY <1>2
<1>3. ASSUME c.op = "add", Net!Allows("add", c.entry)
      PROVE  Net!Allows(c.op, c.entry) /\ Net!Effect(c.op, c.entry) = host \cup {c.entry}
  <2>1. Net!Effect("add", c.entry) = host \cup {c.entry}
    BY EffectOf
  <2> QED BY <1>3, <2>1
<1>4. ASSUME c.op = "ensure"
      PROVE  Net!Allows(c.op, c.entry) /\ Net!Effect(c.op, c.entry) = host \cup {c.entry}
  <2>1. Net!Effect("ensure", c.entry) = host \cup {c.entry} /\ Net!Allows("ensure", c.entry)
    BY EffectOf, AllowsOf
  <2> QED BY <1>4, <2>1
<1>5. ASSUME c = Net!Soft("add", Net!Link(n)), k = 1
      PROVE  Net!Allows(c.op, c.entry) /\ Net!Effect(c.op, c.entry) = host \cup {c.entry}
  <2>1. c.op = "add" /\ c.entry = Net!Link(n)
    BY <1>5, Forms
  <2>2. Net!Link(n)[1] = "link" /\ Net!Link(n) \notin host
    BY <1>2, <1>5, EntryFields
  <2>3. Net!Allows("add", Net!Link(n))
    BY <2>2, AllowsOf
  <2> QED BY <1>3, <2>1, <2>3
<1>6. ASSUME c = Net!Hard("up", Net!Link(n)), Net!Link(n) \in host
      PROVE  Net!Allows(c.op, c.entry) /\ Net!Effect(c.op, c.entry) = host \cup {c.entry}
  <2>1. c.op = "up" /\ c.entry = Net!Link(n)
    BY <1>6, Forms
  <2>2. Net!Allows("up", Net!Link(n)) /\ Net!Effect("up", Net!Link(n)) = host
    BY <1>6, EffectOf, AllowsOf
  <2> QED BY <1>6, <2>1, <2>2
<1>7. ASSUME c = Net!Soft("add", Net!Addr(n)), Net!Link(n) \in host,
             \A e \in host : e[1] # "addr"
      PROVE  Net!Allows(c.op, c.entry) /\ Net!Effect(c.op, c.entry) = host \cup {c.entry}
  <2>1. c.op = "add" /\ c.entry = Net!Addr(n)
    BY <1>7, Forms
  <2>2. /\ Net!Addr(n)[1] = "addr" /\ <<"link", Net!Addr(n)[2]>> \in host
        /\ Net!Addr(n) \notin host
    BY <1>7 DEF Net!Link, Net!Addr
  <2>3. Net!Allows("add", Net!Addr(n))
    BY <2>2, AllowsOf
  <2> QED BY <1>3, <2>1, <2>3
<1>8. ASSUME c = Net!Soft("add", Net!Route(n)), Net!Link(n) \in host,
             \A e \in host : e[1] # "route"
      PROVE  Net!Allows(c.op, c.entry) /\ Net!Effect(c.op, c.entry) = host \cup {c.entry}
  <2>1. c.op = "add" /\ c.entry = Net!Route(n)
    BY <1>8, Forms
  <2>2. Net!Route(n)[1] = "route" /\ <<"link", Net!Route(n)[2]>> \in host
    BY <1>8 DEF Net!Link, Net!Route
  <2>3. Net!Allows("add", Net!Route(n))
    BY <1>8, <2>2, AllowsOf
  <2> QED BY <1>3, <2>1, <2>3
<1>9. ASSUME NEW t \in Net!Tables, c = Net!Hard("ensure", Net!Chain(t, n))
      PROVE  Net!Allows(c.op, c.entry) /\ Net!Effect(c.op, c.entry) = host \cup {c.entry}
  BY <1>4, <1>9, Forms
<1>10. ASSUME NEW t \in Net!Tables, c = Net!Soft("flush", Net!Chain(t, n)),
              Net!Chain(t, n) \in host, \A e \in host : e[1] = "rule" => e[2] # t
       PROVE  Net!Allows(c.op, c.entry) /\ Net!Effect(c.op, c.entry) = host \cup {c.entry}
  <2>1. c.op = "flush" /\ c.entry = Net!Chain(t, n)
    BY <1>10, Forms
  <2>2. Net!Allows("flush", Net!Chain(t, n))
    BY <1>10, AllowsOf
  <2>3. Net!Effect("flush", Net!Chain(t, n)) = host \ Net!RulesOf(Net!Chain(t, n))
    BY EffectOf
  <2>4. Net!Chain(t, n)[2] = t
    BY EntryFields
  <2>5. Net!RulesOf(Net!Chain(t, n)) = {}
    BY <1>10, <2>4 DEF Net!RulesOf
  <2> QED BY <1>10, <2>1, <2>2, <2>3, <2>5
<1>11. ASSUME NEW t \in Net!Tables, NEW m \in Matches, c = Net!Hard("add", Net!Rule(t, n, m)),
              Net!Chain(t, n) \in host
       PROVE  Net!Allows(c.op, c.entry) /\ Net!Effect(c.op, c.entry) = host \cup {c.entry}
  <2>1. c.op = "add" /\ c.entry = Net!Rule(t, n, m)
    BY <1>11, Forms
  <2>2. Net!Rule(t, n, m)[1] = "rule" /\ <<"chain", Net!Rule(t, n, m)[2], Net!Rule(t, n, m)[3]>> \in host
    BY <1>11 DEF Net!Rule, Net!Chain
  <2>3. Net!Allows("add", Net!Rule(t, n, m))
    BY <2>2, AllowsOf
  <2> QED BY <1>3, <2>1, <2>3
<1>12. ASSUME NEW i \in 1 .. 3, c = Net!Hard("ensure", Net!Hooks(n)[i])
       PROVE  Net!Allows(c.op, c.entry) /\ Net!Effect(c.op, c.entry) = host \cup {c.entry}
  BY <1>4, <1>12, Forms
<1> QED BY <1>1, <1>5, <1>6, <1>7, <1>8, <1>9, <1>10, <1>11, <1>12

LEMMA CommandCount ==
  ASSUME NEW n, n.uid \in BOOLEAN
  PROVE  /\ Len(Net!InstallCommands(n)) \in 1 .. 17 /\ Len(Net!UninstallCommands(n)) = 10
         /\ Net!InstallCommands(n) # <<>> /\ Net!UninstallCommands(n) # <<>>
<1>1. Len(Net!InstallCommands(n)) \in 1 .. 17 /\ Len(Net!UninstallCommands(n)) = 10
  BY InstallList, UninstallList DEF SetupLength
<1>2. Net!InstallCommands(n) # <<>>
  <2> SUFFICES ASSUME Net!InstallCommands(n) = <<>> PROVE FALSE
    OBVIOUS
  <2>1. Len(Net!InstallCommands(n)) = 0
    OBVIOUS
  <2> QED BY <1>1, <2>1
<1>3. Net!UninstallCommands(n) # <<>>
  <2> SUFFICES ASSUME Net!UninstallCommands(n) = <<>> PROVE FALSE
    OBVIOUS
  <2>1. Len(Net!UninstallCommands(n)) = 0
    OBVIOUS
  <2> QED BY <1>1, <2>1
<1> QED BY <1>1, <1>2, <1>3

LEMMA CommandsNow ==
  /\ proc.job = "install" => Net!Commands = Net!InstallCommands(proc.names)
  /\ proc.job = "uninstall" => Net!Commands = Net!UninstallCommands(proc.names)
  /\ proc.job \notin {"install", "uninstall"} => Net!Commands = <<>> /\ Len(Net!Commands) = 0
BY DEF Net!Commands

LEMMA SettingFacts ==
  ASSUME NetTypes
  PROVE  /\ \A c \in Net!Configs : c.mode \in Net!Mode /\ c.uid \in BOOLEAN
         /\ Net!NoState \notin Net!Configs
<1>1. \A c \in Net!Configs : c.mode \in Net!Mode /\ c.uid \in BOOLEAN
  BY MCEntries DEF NetTypes, Net!EntriesAssumption, Net!Configs, Net!IsConfig
<1>2. Net!NoState.mode \notin Net!Mode
  BY DEF Net!NoState, Net!Mode
<1> QED BY <1>1, <1>2

\* While a command of ip or iptables is the next one.
LEMMA AtCommand ==
  ASSUME NetTypes, proc.step <= Len(Net!Commands)
  PROVE  /\ proc.job \in {"install", "uninstall"} /\ proc.names \in Net!Configs
         /\ proc.names.uid \in BOOLEAN /\ proc.step \in Nat \ {0}
         /\ proc.job = "install" =>
              /\ proc.names = proc.cfg
              /\ proc.step \in 1 .. Len(Net!InstallCommands(proc.names))
              /\ Net!Command = Net!InstallCommands(proc.names)[proc.step]
         /\ proc.job = "uninstall" =>
              /\ proc.step \in 1 .. 10
              /\ Net!Command = Net!UninstallCommands(proc.names)[proc.step]
<1>1. proc.step \in 1 .. 18 /\ proc.job \in Net!Job
  BY DEF NetTypes, ProcTyped, ProcOf
<1>2. proc.job \in {"install", "uninstall"}
  BY <1>1, CommandsNow
<1>3. proc.names \in Net!Configs /\ (proc.job = "install" => proc.names = proc.cfg)
  BY <1>2 DEF NetTypes, ProcTyped
<1>4. proc.names.uid \in BOOLEAN
  BY <1>3, SettingFacts
<1>5. Len(Net!InstallCommands(proc.names)) \in 1 .. 17 /\ Len(Net!UninstallCommands(proc.names)) = 10
  BY <1>4, CommandCount
<1>6. ASSUME proc.job = "install"
      PROVE  /\ proc.step \in 1 .. Len(Net!InstallCommands(proc.names))
             /\ Net!Command = Net!InstallCommands(proc.names)[proc.step]
  BY <1>1, <1>5, <1>6, CommandsNow DEF Net!Command
<1>7. ASSUME proc.job = "uninstall"
      PROVE  /\ proc.step \in 1 .. 10
             /\ Net!Command = Net!UninstallCommands(proc.names)[proc.step]
  <2>1. Net!Commands = Net!UninstallCommands(proc.names)
    BY <1>7, CommandsNow
  <2>2. Net!Command = Net!UninstallCommands(proc.names)[proc.step]
    BY <2>1 DEF Net!Command
  <2>3. proc.step <= 10
    BY <1>5, <2>1
  <2> QED BY <1>1, <2>2, <2>3
<1> QED BY <1>1, <1>2, <1>3, <1>4, <1>6, <1>7

\* What the three ways to begin a command make of it.
LEMMA BeginsTyped ==
  ASSUME NetTypes, NEW c \in Net!Configs
  PROVE  /\ ProcTyped(Net!Configs, Net!StartsWith(c))
         /\ ProcTyped(Net!Configs, Net!Idle)
         /\ \A next \in {"install", "exit"} : Net!TearDown(c, next) => ProcTyped(Net!Configs, proc')
<1>0. c.uid \in BOOLEAN /\ c.mode \in Net!Mode
  BY SettingFacts
<1>1. Len(Net!InstallCommands(c)) \in 1 .. 17
  BY <1>0, CommandCount
<1>2. ProcTyped(Net!Configs, Net!StartsWith(c))
  <2> DEFINE p == Net!StartsWith(c)
  <2>1. /\ p.job = IF c.mode = "packet" THEN "install" ELSE "write"
        /\ p.cfg = c /\ p.names = c /\ p.step = 1
    BY DEF Net!StartsWith
  <2>2. p \in ProcOf(Net!Configs)
    BY DEF Net!StartsWith, ProcOf, Net!Job
  <2> HIDE DEF p
  <2>3. p.job \in {"install", "write"} /\ (p.job = "install" => c.mode = "packet")
    BY <2>1
  <2>4. p.step <= Len(Net!InstallCommands(p.names)) + 1
    BY <1>1, <2>1
  <2> QED BY <2>1, <2>2, <2>3, <2>4 DEF ProcTyped, p
<1>3. ProcTyped(Net!Configs, Net!Idle)
  BY DEF ProcTyped, ProcOf, Net!Idle, Net!Job
<1>4. ASSUME NEW next \in {"install", "exit"}, Net!TearDown(c, next)
      PROVE  ProcTyped(Net!Configs, proc')
  <2> DEFINE names == Net!TornDownNames(c)
  <2>1. names \in Net!Configs
    BY DEF NetTypes, Net!TornDownNames
  <2> HIDE DEF names
  <2>2. /\ proc'.job \in {"uninstall", "remove"} /\ proc'.cfg = c /\ proc'.names = names
        /\ proc'.step = 1
    BY <1>4 DEF Net!TearDown, names
  <2>3. proc' \in ProcOf(Net!Configs)
    BY <1>4, <2>1 DEF Net!TearDown, names, ProcOf, Net!Job
  <2> QED BY <2>1, <2>2, <2>3 DEF ProcTyped
<1> QED BY <1>2, <1>3, <1>4

LEMMA NextTypes ==
  ASSUME NetTypes, Net!Next
  PROVE  NetTypes'
<1> DEFINE C == Net!Configs
<1>t. /\ setting \in NetSettings /\ config \in C /\ saved \in C \cup {Net!NoState}
      /\ ProcTyped(C, proc)
  BY DEF NetTypes
<1>i. ProcTyped(C, Net!Idle) /\ \A c \in C : ProcTyped(C, Net!StartsWith(c))
  BY <1>t, BeginsTyped
<1>c. setting' = setting => C' = C
  BY DEF Net!Configs
<1> HIDE DEF C
<1> SUFFICES /\ setting' = setting /\ config' \in C /\ saved' \in C \cup {Net!NoState}
             /\ ProcTyped(C, proc')
  BY <1>t, <1>c DEF NetTypes, C
<1>a. proc.job # "none" => proc.cfg \in C /\ proc.names \in C
  BY <1>t DEF ProcTyped
<1>1. CASE Net!Start
  <2>1. CASE saved = Net!NoState
    BY <1>t, <1>i, <1>1, <2>1 DEF Net!Start
  <2>2. CASE saved # Net!NoState
    BY <1>t, <1>1, <2>2, BeginsTyped DEF Net!Start, C
  <2> QED BY <2>1, <2>2
<1>2. CASE Net!Teardown
  BY <1>t, <1>2, BeginsTyped DEF Net!Teardown, C
<1>3. CASE Net!Leave
  BY <1>t, <1>a, <1>3, BeginsTyped DEF Net!Leave, C
<1>4. ASSUME proc.step <= Len(Net!Commands), NEW f \in BOOLEAN,
             proc' = [proc EXCEPT !.step = @ + 1, !.failed = f]
      PROVE  ProcTyped(C, proc')
  <2>1. proc' = [job |-> proc.job, then |-> proc.then, cfg |-> proc.cfg, names |-> proc.names,
                 step |-> proc.step + 1, failed |-> f]
    BY <1>t, <1>4 DEF ProcTyped, ProcOf
  <2>2. /\ proc'.job = proc.job /\ proc'.then = proc.then /\ proc'.cfg = proc.cfg
        /\ proc'.names = proc.names /\ proc'.step = proc.step + 1 /\ proc'.failed = f
    BY <2>1
  <2>3. /\ proc.job \in {"install", "uninstall"} /\ proc.names.uid \in BOOLEAN
        /\ proc.step \in Nat \ {0}
        /\ proc.job = "install" => proc.step \in 1 .. Len(Net!InstallCommands(proc.names))
        /\ proc.job = "uninstall" => proc.step \in 1 .. 10
    BY <1>4, AtCommand
  <2>n. PICK L : L = Len(Net!InstallCommands(proc.names))
    OBVIOUS
  <2>r. /\ proc.step \in Nat \ {0} /\ (proc.job = "install" => proc.step \in 1 .. L)
        /\ proc.job = "uninstall" => proc.step \in 1 .. 10
    BY <2>3, <2>n
  <2>4. Len(Net!InstallCommands(proc.names)) \in 1 .. 17
    BY <2>3, CommandCount
  <2>5. /\ proc.step + 1 \in 1 .. 18
        /\ proc.job = "install" => proc.step + 1 <= Len(Net!InstallCommands(proc.names)) + 1
        /\ proc.job = "uninstall" => proc.step + 1 <= 11
    <3>1. L \in 1 .. 17 /\ (proc.job = "install" \/ proc.job = "uninstall")
      BY <2>3, <2>4, <2>n
    <3>2. proc.job = "install" => proc.step + 1 \in 1 .. 18 /\ proc.step + 1 <= L + 1
      BY <2>r, <3>1
    <3>3. proc.job = "uninstall" => proc.step + 1 \in 1 .. 18 /\ proc.step + 1 <= 11
      BY <2>r
    <3> QED BY <2>n, <3>1, <3>2, <3>3
  <2>6. proc' \in ProcOf(C)
    BY <1>t, <1>4, <2>1, <2>5 DEF ProcTyped, ProcOf
  <2> HIDE <1>4
  <2>7. /\ proc'.job = "install" => proc'.step <= Len(Net!InstallCommands(proc'.names)) + 1
        /\ proc'.job = "uninstall" => proc'.step <= 11
    BY <2>2, <2>5
  <2> QED BY <1>t, <2>2, <2>3, <2>6, <2>7 DEF ProcTyped
<1>5. CASE Net!CommandWorks
  <2>1. proc' = [proc EXCEPT !.step = @ + 1, !.failed = proc.failed] /\ proc.failed \in BOOLEAN
    BY <1>t, <1>5 DEF Net!CommandWorks, ProcTyped, ProcOf
  <2> QED BY <1>t, <1>4, <1>5, <2>1 DEF Net!CommandWorks
<1>6. CASE Net!CommandFails
  <2>1. CASE Net!Command.must
    BY <1>t, <1>i, <1>6, <2>1 DEF Net!CommandFails
  <2>2. CASE ~Net!Command.must
    <3> DEFINE f == proc.failed \/ Net!Allows(Net!Command.op, Net!Command.entry)
    <3>1. f \in BOOLEAN
      OBVIOUS
    <3>2. proc' = [proc EXCEPT !.step = @ + 1, !.failed = f]
      BY <1>6, <2>2 DEF Net!CommandFails
    <3> HIDE DEF f
    <3> QED BY <1>t, <1>4, <1>6, <3>1, <3>2 DEF Net!CommandFails
  <2> QED BY <2>1, <2>2
<1>7. CASE Net!CommandsDone
  <2>1. setting' = setting /\ config' = config /\ saved' = saved
    BY <1>7 DEF Net!CommandsDone
  <2>2. CASE proc.then = "unwind"
    BY <1>t, <1>i, <1>7, <2>1, <2>2 DEF Net!CommandsDone
  <2>3. CASE proc.then # "unwind"
    <3>1. proc.job \in {"install", "uninstall"}
      BY <1>t, <1>7, CommandsNow DEF Net!CommandsDone, Net!Finished
    <3> DEFINE j == IF proc.job = "install" THEN "write" ELSE "remove"
    <3>2. proc' = [job |-> j, then |-> proc.then, cfg |-> proc.cfg, names |-> proc.names,
                   step |-> 1, failed |-> proc.failed]
      BY <1>t, <1>7, <2>3 DEF Net!CommandsDone, ProcTyped, ProcOf
    <3>3. j \in {"write", "remove"} /\ (j = "write" => proc.job = "install")
      OBVIOUS
    <3> HIDE DEF j
    <3>4. proc' \in ProcOf(C)
      BY <1>t, <3>2, <3>3 DEF ProcTyped, ProcOf, Net!Job
    <3>5. /\ proc'.job = j /\ proc'.cfg = proc.cfg /\ proc'.names = proc.names /\ proc'.step = 1
      BY <3>2
    <3> QED BY <1>t, <2>1, <3>1, <3>3, <3>4, <3>5 DEF ProcTyped
  <2> QED BY <2>2, <2>3
<1>8. CASE Net!RemoveState
  <2>1. proc.cfg \in C
    BY <1>a, <1>8 DEF Net!RemoveState
  <2> QED BY <1>t, <1>i, <1>8, <2>1 DEF Net!RemoveState
<1>9. CASE Net!WriteState
  <2>1. /\ proc.job = "write" /\ setting' = setting /\ config' = config /\ saved' = proc.cfg
        /\ proc' = [job |-> "run", then |-> proc.then, cfg |-> proc.cfg, names |-> proc.names,
                    step |-> proc.step, failed |-> proc.failed]
    BY <1>t, <1>9 DEF Net!WriteState, ProcTyped, ProcOf
  <2>2. proc' \in ProcOf(C)
    BY <1>t, <2>1 DEF ProcTyped, ProcOf, Net!Job
  <2>3. /\ proc'.job = "run" /\ proc'.cfg = proc.cfg /\ proc'.names = proc.names
        /\ proc'.step = proc.step
    BY <2>1
  <2> QED BY <1>t, <2>1, <2>2, <2>3 DEF ProcTyped
<1>10. CASE Net!WriteFails
  <2>0. proc.job = "write" /\ setting' = setting /\ config' = config /\ saved' = saved
    BY <1>10 DEF Net!WriteFails
  <2>1. CASE proc.cfg.mode = "packet"
    <3>1. proc' = [job |-> "uninstall", then |-> "unwind", cfg |-> proc.cfg,
                   names |-> proc.names, step |-> proc.step, failed |-> proc.failed]
      BY <1>t, <1>10, <2>1 DEF Net!WriteFails, ProcTyped, ProcOf
    <3>2. proc' \in ProcOf(C)
      BY <1>t, <3>1 DEF ProcTyped, ProcOf, Net!Job
    <3>3. /\ proc'.job = "uninstall" /\ proc'.cfg = proc.cfg /\ proc'.names = proc.names
          /\ proc'.step = 1
      BY <1>t, <2>0, <3>1 DEF ProcTyped
    <3> QED BY <1>t, <2>0, <3>2, <3>3 DEF ProcTyped
  <2>2. CASE proc.cfg.mode # "packet"
    BY <1>t, <1>i, <1>10, <2>0, <2>2 DEF Net!WriteFails
  <2> QED BY <2>1, <2>2
<1>11. CASE Net!Crash
  BY <1>t, <1>i, <1>11 DEF Net!Crash
<1>12. CASE Net!Edit
  BY <1>t, <1>12 DEF Net!Edit, C
<1> QED BY <1>1, <1>2, <1>3, <1>5, <1>6, <1>7, <1>8, <1>9, <1>10, <1>11, <1>12 DEF Net!Next

LEMMA NextShape ==
  ASSUME NetTypes, NetShape, Net!Next
  PROVE  NetShape'
<1>1. CASE UNCHANGED host
  BY <1>1 DEF NetShape, Shaped
<1>2. CASE Net!CommandWorks
  <2>1. proc.step <= Len(Net!Commands) /\ Works(Net!Command)
    BY <1>2 DEF Net!CommandWorks, Works
  <2>2. PICK n : n = proc.names
    OBVIOUS
  <2>3. PICK k : k = proc.step
    OBVIOUS
  <2>4. PICK c : c = Net!Command
    OBVIOUS
  <2>5. CASE proc.job = "install"
    <3>1. /\ n.uid \in BOOLEAN /\ k \in 1 .. Len(Net!InstallCommands(n))
          /\ Works(Net!InstallCommands(n)[k])
      BY <2>1, <2>2, <2>3, <2>5, AtCommand
    <3> QED BY <3>1, InstallWorks
  <2>6. CASE proc.job = "uninstall"
    <3>1. k \in 1 .. 10 /\ c = Net!UninstallCommands(n)[k] /\ Works(c)
      BY <2>1, <2>2, <2>3, <2>4, <2>6, AtCommand
    <3> QED BY <3>1, UninstallStep
  <2> QED BY <2>1, <2>5, <2>6, AtCommand
<1> QED
  BY <1>1, <1>2 DEF Net!Next, Net!Start, Net!Teardown, Net!Leave, Net!CommandFails,
    Net!CommandsDone, Net!RemoveState, Net!WriteState, Net!WriteFails, Net!Crash, Net!Edit

\* The fields of a command, for the steps that change a few of them.
LEMMA ProcFields ==
  ASSUME NetTypes
  PROVE  /\ proc = [job |-> proc.job, then |-> proc.then, cfg |-> proc.cfg,
                    names |-> proc.names, step |-> proc.step, failed |-> proc.failed]
         /\ proc.failed \in BOOLEAN /\ proc.job \in Net!Job
BY DEF NetTypes, ProcTyped, ProcOf

\* How a command begins: with an install, a write, an uninstall or a removal.
LEMMA Begun ==
  ASSUME NetTypes,
         \/ proc' = Net!Idle
         \/ \E c \in Net!Configs : proc' = Net!StartsWith(c)
         \/ \E c \in Net!Configs, next \in {"install", "exit"} : Net!TearDown(c, next)
  PROVE  /\ proc'.step = 1 /\ proc'.job # "run" /\ ~proc'.failed /\ proc'.then # "unwind"
         /\ proc'.job = "write" => proc'.cfg.mode # "packet"
<1>1. CASE proc' = Net!Idle
  BY <1>1 DEF Net!Idle
<1>2. ASSUME NEW c \in Net!Configs, proc' = Net!StartsWith(c)
      PROVE  /\ proc'.step = 1 /\ proc'.job # "run" /\ ~proc'.failed /\ proc'.then # "unwind"
             /\ proc'.job = "write" => proc'.cfg.mode # "packet"
  BY <1>2 DEF Net!StartsWith
<1>3. ASSUME NEW c \in Net!Configs, NEW next \in {"install", "exit"}, Net!TearDown(c, next)
      PROVE  /\ proc'.step = 1 /\ proc'.job # "run" /\ ~proc'.failed /\ proc'.then # "unwind"
             /\ proc'.job = "write" => proc'.cfg.mode # "packet"
  BY <1>3 DEF Net!TearDown
<1> QED BY <1>1, <1>2, <1>3

\* Which steps begin a command or end one.
LEMMA BeginningSteps ==
  ASSUME NetTypes,
         \/ Net!Start \/ Net!Teardown \/ Net!Leave \/ Net!RemoveState \/ Net!Crash
         \/ Net!CommandFails /\ Net!Command.must
         \/ Net!CommandsDone /\ proc.then = "unwind"
         \/ Net!WriteFails /\ proc.cfg.mode # "packet"
  PROVE  \/ proc' = Net!Idle
         \/ \E c \in Net!Configs : proc' = Net!StartsWith(c)
         \/ \E c \in Net!Configs, next \in {"install", "exit"} : Net!TearDown(c, next)
<1>1. config \in Net!Configs /\ (proc.job # "none" => proc.cfg \in Net!Configs)
  BY DEF NetTypes, ProcTyped
<1>2. CASE Net!Start
  BY <1>1, <1>2 DEF Net!Start
<1>3. CASE Net!Teardown
  BY <1>1, <1>3 DEF Net!Teardown
<1>4. CASE Net!Leave
  BY <1>1, <1>4 DEF Net!Leave
<1>5. CASE Net!RemoveState
  BY <1>1, <1>5 DEF Net!RemoveState
<1> QED BY <1>2, <1>3, <1>4, <1>5
        DEF Net!Crash, Net!CommandFails, Net!CommandsDone, Net!WriteFails

LEMMA NextProgress ==
  ASSUME NetTypes, NetShape, NetProgress, Net!Next
  PROVE  NetProgress'
<1>p. /\ proc = [job |-> proc.job, then |-> proc.then, cfg |-> proc.cfg,
                 names |-> proc.names, step |-> proc.step, failed |-> proc.failed]
      /\ proc.failed \in BOOLEAN /\ proc.job \in Net!Job
  BY ProcFields
<1>h. ASSUME host' = host, NEW n, NEW k
      PROVE  /\ Insisted(n, k) => Insisted(n, k)'
             /\ Cleared(n, k) => Cleared(n, k)'
  BY <1>h DEF Insisted, Cleared, Net!RulesOf
<1>b. ASSUME proc'.step = 1, proc'.job # "run",
             proc'.job = "write" => proc'.cfg.mode # "packet"
      PROVE  NetProgress'
  <2>1. \A n : Insisted(n, 1)'
    BY DEF Insisted
  <2>2. \A n : Cleared(n, 1)'
    BY DEF Cleared
  <2>3. proc'.job = "install" => Insisted(proc.cfg, proc.step)'
    <3>1. Insisted(proc.cfg, 1)'
      BY <2>1
    <3> QED BY <1>b, <3>1
  <2>4. Cleared(proc.names, proc.step)'
    <3>1. Cleared(proc.names, 1)'
      BY <2>2
    <3> QED BY <1>b, <3>1
  <2> QED BY <1>b, <2>3, <2>4 DEF NetProgress
<1>1. CASE \/ Net!Start \/ Net!Teardown \/ Net!Leave \/ Net!RemoveState \/ Net!Crash
           \/ Net!CommandFails /\ Net!Command.must
           \/ Net!CommandsDone /\ proc.then = "unwind"
           \/ Net!WriteFails /\ proc.cfg.mode # "packet"
  <2>1. /\ proc'.step = 1 /\ proc'.job # "run"
        /\ proc'.job = "write" => proc'.cfg.mode # "packet"
    BY <1>1, BeginningSteps, Begun
  <2> QED BY <1>b, <2>1
\* A command of install or uninstall: it works, or it fails and is ignored.
<1>2. ASSUME proc.step <= Len(Net!Commands),
             \/ Works(Net!Command)
             \/ ~Net!Command.must /\ host' = host,
             proc'.failed \/ Works(Net!Command)
               \/ (~Net!Allows(Net!Command.op, Net!Command.entry) /\ host' = host),
             proc.failed => proc'.failed,
             proc'.job = proc.job, proc'.cfg = proc.cfg, proc'.names = proc.names,
             proc'.step = proc.step + 1
      PROVE  NetProgress'
  <2>1. PICK n : n = proc.names
    OBVIOUS
  <2>2. PICK k : k = proc.step
    OBVIOUS
  <2>3. PICK c : c = Net!Command
    OBVIOUS
  <2>4. CASE proc.job = "install"
    <3>1. /\ n = proc.cfg /\ n.uid \in BOOLEAN /\ k \in 1 .. Len(Net!InstallCommands(n))
          /\ c = Net!InstallCommands(n)[k]
      BY <1>2, <2>1, <2>2, <2>3, <2>4, AtCommand
    <3>2. Insisted(n, k)
      BY <2>2, <2>4, <3>1 DEF NetProgress
    <3>3. Works(c) \/ (~c.must /\ host' = host)
      BY <1>2, <2>3
    <3>4. Insisted(n, k + 1)'
      BY <3>1, <3>2, <3>3, InsistedStep
    <3>5. Insisted(proc.cfg, proc.step)'
      BY <1>2, <2>2, <3>1, <3>4
    <3> QED BY <1>2, <2>4, <3>5 DEF NetProgress
  <2>5. CASE proc.job = "uninstall"
    <3>1. k \in 1 .. 10 /\ c = Net!UninstallCommands(n)[k]
      BY <1>2, <2>1, <2>2, <2>3, <2>5, AtCommand
    <3>2. ASSUME ~proc'.failed PROVE Cleared(proc.names, proc.step)'
      <4>1. Cleared(n, k)
        BY <1>2, <2>1, <2>2, <2>5, <3>2 DEF NetProgress
      <4>2. Works(c) \/ (~Net!Allows(c.op, c.entry) /\ host' = host)
        BY <1>2, <2>3, <3>2
      <4>3. Cleared(n, k + 1)'
        BY <3>1, <4>1, <4>2, UninstallStep
      <4> QED BY <1>2, <2>1, <2>2, <4>3
    <3> QED BY <1>2, <2>5, <3>2 DEF NetProgress
  <2> QED BY <1>2, <2>4, <2>5, AtCommand
<1>3. CASE Net!CommandWorks
  <2>1. Works(Net!Command) /\ proc.step <= Len(Net!Commands)
    BY <1>3 DEF Net!CommandWorks, Works
  <2>2. proc' = [job |-> proc.job, then |-> proc.then, cfg |-> proc.cfg,
                 names |-> proc.names, step |-> proc.step + 1, failed |-> proc.failed]
    BY <1>p, <1>3 DEF Net!CommandWorks
  <2>3. /\ proc'.job = proc.job /\ proc'.cfg = proc.cfg /\ proc'.names = proc.names
        /\ proc'.step = proc.step + 1
    BY <2>2
  <2>4. proc.failed => proc'.failed
    BY <2>2
  <2> QED BY <1>2, <2>1, <2>3, <2>4
<1>4. CASE Net!CommandFails /\ ~Net!Command.must
  <2> DEFINE f == proc.failed \/ Net!Allows(Net!Command.op, Net!Command.entry)
  <2>1. /\ proc.step <= Len(Net!Commands) /\ host' = host
        /\ proc' = [proc EXCEPT !.step = @ + 1, !.failed = f]
    BY <1>4 DEF Net!CommandFails
  <2>f. /\ proc.failed => f
        /\ f \/ ~Net!Allows(Net!Command.op, Net!Command.entry)
    OBVIOUS
  <2> HIDE DEF f
  <2>2. proc' = [job |-> proc.job, then |-> proc.then, cfg |-> proc.cfg,
                 names |-> proc.names, step |-> proc.step + 1, failed |-> f]
    BY <1>p, <2>1
  <2>3. /\ proc'.job = proc.job /\ proc'.cfg = proc.cfg /\ proc'.names = proc.names
        /\ proc'.step = proc.step + 1
    BY <2>2
  <2>4. f => proc'.failed
    BY <2>2
  <2> QED BY <1>2, <1>4, <2>1, <2>f, <2>3, <2>4
<1>5. CASE Net!CommandsDone /\ proc.then # "unwind"
  <2>1. proc.job \in {"install", "uninstall"} /\ host' = host
        /\ proc.step = Len(Net!Commands) + 1
    BY <1>p, <1>5, CommandsNow DEF Net!CommandsDone, Net!Finished
  <2>2. /\ proc'.job = IF proc.job = "install" THEN "write" ELSE "remove"
        /\ proc'.cfg = proc.cfg
    BY <1>p, <1>5 DEF Net!CommandsDone
  <2>3. CASE proc.job = "install"
    <3>1. PICK n : n = proc.cfg
      OBVIOUS
    <3>2. proc.names = n /\ Net!Commands = Net!InstallCommands(n)
      BY <2>3, <3>1, CommandsNow DEF NetTypes, ProcTyped
    <3>3. Insisted(n, Len(Net!InstallCommands(n)) + 1)
      BY <2>1, <2>3, <3>1, <3>2 DEF NetProgress
    <3>4. Insisted(n, Len(Net!InstallCommands(n)) + 1)'
      BY <1>h, <2>1, <3>3
    <3>5. Insisted(proc.cfg, Len(Net!InstallCommands(proc.cfg)) + 1)'
      BY <2>2, <3>1, <3>4
    <3> QED BY <2>2, <2>3, <3>5 DEF NetProgress
  <2>4. CASE proc.job = "uninstall"
    BY <2>2, <2>4 DEF NetProgress
  <2> QED BY <2>1, <2>3, <2>4
<1>6. CASE Net!WriteState
  <2>1. /\ proc.job = "write" /\ host' = host /\ proc'.job = "run" /\ proc'.cfg = proc.cfg
    BY <1>p, <1>6 DEF Net!WriteState
  <2>2. PICK n : n = proc.cfg
    OBVIOUS
  <2>3. ASSUME n.mode = "packet"
        PROVE  Insisted(proc.cfg, Len(Net!InstallCommands(proc.cfg)) + 1)'
    <3>1. Insisted(n, Len(Net!InstallCommands(n)) + 1)
      BY <2>1, <2>2, <2>3 DEF NetProgress
    <3>2. Insisted(n, Len(Net!InstallCommands(n)) + 1)'
      BY <1>h, <2>1, <3>1
    <3> QED BY <2>1, <2>2, <3>2
  <2> QED BY <2>1, <2>2, <2>3 DEF NetProgress
<1>7. CASE Net!WriteFails /\ proc.cfg.mode = "packet"
  <2>1. proc'.job = "uninstall" /\ proc'.step = proc.step /\ proc.job = "write"
    BY <1>p, <1>7 DEF Net!WriteFails
  <2>2. proc.step = 1
    BY <2>1 DEF NetTypes, ProcTyped
  <2> QED BY <1>b, <2>1, <2>2
<1>8. CASE Net!Edit
  <2>1. proc' = proc /\ host' = host
    BY <1>8 DEF Net!Edit
  <2>2. PICK n, m, k : n = proc.cfg /\ m = proc.names /\ k = proc.step
    OBVIOUS
  <2>3. /\ proc.job = "install" => Insisted(n, k)'
        /\ proc.job \in {"write", "run"} /\ n.mode = "packet" =>
             Insisted(n, Len(Net!InstallCommands(n)) + 1)'
        /\ proc.job = "uninstall" /\ ~proc.failed => Cleared(m, k)'
    BY <1>h, <2>1, <2>2 DEF NetProgress
  <2> QED BY <2>1, <2>2, <2>3 DEF NetProgress
<1> QED BY <1>1, <1>3, <1>4, <1>5, <1>6, <1>7, <1>8 DEF Net!Next

LEMMA BeforeEntries ==
  ASSUME NEW n, n.uid \in BOOLEAN
  PROVE  Before(n, Len(Net!InstallCommands(n)) + 1) \subseteq EntriesOf(n)
<1>1. Net!InstallCommands(n) \in Seq(CommandsOf(n))
  BY InstallList
<1>2. Len(Net!InstallCommands(n)) \in 1 .. 17
  BY CommandCount
<1>3. \A c \in CommandsOf(n) : c.entry \in EntriesOf(n)
  BY DEF CommandsOf
<1>4. \A j \in 1 .. Len(Net!InstallCommands(n)) : Net!InstallCommands(n)[j] \in CommandsOf(n)
  BY <1>1, ElementOfSeq
<1>5. 1 .. (Len(Net!InstallCommands(n)) + 1) - 1 = 1 .. Len(Net!InstallCommands(n))
  BY <1>2
<1> QED BY <1>3, <1>4, <1>5 DEF Before

LEMMA NextRecorded ==
  ASSUME NetTypes, NetShape, NetProgress, NetRecorded, Net!Next
  PROVE  NetRecorded'
<1>0. setting' = setting
  BY DEF Net!Next, Net!Start, Net!Teardown, Net!Leave, Net!CommandWorks, Net!CommandFails,
    Net!CommandsDone, Net!RemoveState, Net!WriteState, Net!WriteFails, Net!Crash, Net!Edit
<1> SUFFICES ASSUME Net!Recorded, Net!Recorded' PROVE NetRecorded'
  <2>1. Net!Recorded' => Net!Recorded
    BY <1>0 DEF Net!Recorded, Net!Configs, Net!Faults
  <2> QED BY <2>1 DEF NetRecorded
<1> DEFINE C == Net!Configs
           none == Net!NoState
           All(c) == Before(c, Len(Net!InstallCommands(c)) + 1)
<1>p. /\ proc = [job |-> proc.job, then |-> proc.then, cfg |-> proc.cfg,
                 names |-> proc.names, step |-> proc.step, failed |-> proc.failed]
      /\ proc.failed \in BOOLEAN /\ proc.job \in Net!Job
  BY ProcFields
<1>t. /\ config \in C /\ saved \in C \cup {none} /\ none \notin C
      /\ \A c \in C : c.mode = "packet" /\ c.uid \in BOOLEAN
      /\ proc.job # "none" => proc.cfg \in C /\ proc.names \in C
      /\ proc.job \in {"install", "write", "run"} => proc.names = proc.cfg
      /\ proc.job \notin {"install", "uninstall"} => proc.step = 1
  BY SettingFacts DEF NetTypes, ProcTyped, Net!Recorded
<1>r. /\ ~proc.failed /\ proc.then # "unwind"
      /\ saved = none /\ proc.job \in {"none", "uninstall"} => host = {}
      /\ proc.job = "remove" => host = {}
      /\ proc.job = "install" => saved = none /\ host = Before(proc.cfg, proc.step)
      /\ proc.job \in {"write", "run"} => host = All(proc.cfg)
      /\ proc.job = "write" => saved = none
      /\ proc.job = "run" => saved = proc.cfg
      /\ saved # none => host = Net!Mentions(saved)
      /\ saved # none /\ proc.job = "uninstall" => proc.names = saved
  BY DEF NetRecorded
<1>f. "tool" \notin Net!Faults /\ "early" \notin Net!Faults
  BY DEF Net!Recorded
\* What has to be shown of a step.
<1>q. ASSUME ~proc'.failed, proc'.then # "unwind",
             saved' = none /\ proc'.job \in {"none", "uninstall"} => host' = {},
             proc'.job = "remove" => host' = {},
             proc'.job = "install" => saved' = none /\ host' = Before(proc'.cfg, proc'.step),
             proc'.job \in {"write", "run"} => host' = All(proc'.cfg),
             proc'.job = "write" => saved' = none,
             proc'.job = "run" => saved' = proc'.cfg,
             saved' # none => host' = Net!Mentions(saved)',
             saved' # none /\ proc'.job = "uninstall" => proc'.names = saved'
      PROVE  NetRecorded'
  BY <1>q DEF NetRecorded
<1>s. ASSUME host' \subseteq host, NEW s, host = Net!Mentions(s)
      PROVE  host' = Net!Mentions(s)'
  BY <1>s DEF Net!Mentions
<1>b. \A c : Before(c, 1) = {}
  BY BeforeNext
<1> HIDE DEF C, none, All
<1>d. ASSUME NEW c \in C, NEW next \in {"install", "exit"}, Net!TearDown(c, next),
             saved' = saved, host' = host, saved = none => host = {}
      PROVE  NetRecorded'
  <2>1. Net!OwnsNetwork(c)
    <3>1. saved # none => saved.mode = "packet"
      BY <1>t
    <3> QED BY <1>t, <3>1 DEF Net!OwnsNetwork, none
  <2>2. /\ proc'.job = "uninstall" /\ ~proc'.failed /\ proc'.then # "unwind"
        /\ saved # none => proc'.names = saved
    BY <1>d, <2>1 DEF Net!TearDown, Net!TornDownNames, none
  <2>3. saved' # none => host' = Net!Mentions(saved)'
    BY <1>r, <1>s, <1>d
  <2> QED BY <1>q, <1>d, <2>2, <2>3
<1>i. ASSUME NEW c \in C, proc' = Net!StartsWith(c), host' = {}, saved' = none
      PROVE  NetRecorded'
  <2>1. /\ proc'.job = "install" /\ ~proc'.failed /\ proc'.then = "none" /\ proc'.cfg = c
        /\ proc'.step = 1
    BY <1>t, <1>i DEF Net!StartsWith
  <2>2. host' = Before(proc'.cfg, proc'.step)
    BY <1>b, <1>i, <2>1
  <2> QED BY <1>i, <1>q, <2>1, <2>2
<1>o. ASSUME proc' = Net!Idle, host' = host, saved = none => host = {}, saved' = saved
      PROVE  NetRecorded'
  <2>1. proc'.job = "none" /\ ~proc'.failed /\ proc'.then = "none"
    BY <1>o DEF Net!Idle
  <2>2. saved' # none => host' = Net!Mentions(saved)'
    BY <1>r, <1>s, <1>o
  <2> QED BY <1>o, <1>q, <2>1, <2>2
<1>1. CASE Net!Start
  <2>1. saved = none => host = {}
    BY <1>r, <1>1 DEF Net!Start, Net!Idle
  <2>2. CASE saved = none
    <3>1. proc' = Net!StartsWith(config) /\ host' = {} /\ saved' = none
      BY <1>1, <2>1, <2>2 DEF Net!Start, none
    <3> QED BY <1>t, <1>i, <3>1
  <2>3. CASE saved # none
    <3>1. Net!TearDown(config, "install") /\ host' = host /\ saved' = saved
      BY <1>1, <2>3 DEF Net!Start, none
    <3> QED BY <1>t, <1>d, <2>1, <3>1
  <2> QED BY <2>2, <2>3
<1>2. CASE Net!Teardown
  <2>1. saved = none => host = {}
    BY <1>r, <1>2 DEF Net!Teardown, Net!Idle
  <2>2. Net!TearDown(config, "exit") /\ host' = host /\ saved' = saved
    BY <1>2 DEF Net!Teardown
  <2> QED BY <1>t, <1>d, <2>1, <2>2
<1>3. CASE Net!Leave
  <2>1. proc.job = "run" /\ Net!TearDown(proc.cfg, "exit") /\ host' = host /\ saved' = saved
    BY <1>3 DEF Net!Leave
  <2>2. proc.cfg \in C /\ saved = proc.cfg
    BY <1>r, <1>t, <2>1
  <2>3. saved # none
    BY <1>t, <2>2
  <2> QED BY <1>d, <2>1, <2>2, <2>3
\* The entries of an install, and the command on them.
<1>4. ASSUME proc.job = "install", proc.step <= Len(Net!Commands)
      PROVE  /\ Net!Allows(Net!Command.op, Net!Command.entry)
             /\ Net!Effect(Net!Command.op, Net!Command.entry) = Before(proc.cfg, proc.step + 1)
  <2>1. PICK n : n = proc.names
    OBVIOUS
  <2>2. PICK k : k = proc.step
    OBVIOUS
  <2>3. PICK c : c = Net!Command
    OBVIOUS
  <2>4. /\ n = proc.cfg /\ n.uid \in BOOLEAN /\ k \in 1 .. Len(Net!InstallCommands(n))
        /\ c = Net!InstallCommands(n)[k]
    BY <1>4, <2>1, <2>2, <2>3, AtCommand
  <2>5. host = Before(n, k)
    BY <1>r, <1>4, <2>2, <2>4
  <2>6. Net!Allows(c.op, c.entry) /\ Net!Effect(c.op, c.entry) = Before(n, k + 1)
    BY <2>4, <2>5, RecordedStep
  <2> QED BY <2>2, <2>3, <2>4, <2>6
\* An uninstall that goes on with no entry more.
<1>5. ASSUME proc.job = "uninstall", host' \subseteq host, saved' = saved, ~proc'.failed,
             proc'.job = proc.job, proc'.then = proc.then, proc'.names = proc.names
      PROVE  NetRecorded'
  <2>1. saved = none => host' = {}
    BY <1>r, <1>5
  <2>2. saved' # none => host' = Net!Mentions(saved)'
    BY <1>r, <1>s, <1>5
  <2>3. saved' # none => proc'.names = saved'
    BY <1>r, <1>5
  <2> QED BY <1>r, <1>q, <1>5, <2>1, <2>2, <2>3
<1>6. CASE Net!CommandWorks
  <2>1. /\ proc.step <= Len(Net!Commands) /\ Works(Net!Command) /\ saved' = saved
        /\ proc' = [job |-> proc.job, then |-> proc.then, cfg |-> proc.cfg,
                    names |-> proc.names, step |-> proc.step + 1, failed |-> proc.failed]
    BY <1>p, <1>6 DEF Net!CommandWorks, Works
  <2>2. /\ proc'.job = proc.job /\ proc'.then = proc.then /\ proc'.cfg = proc.cfg
        /\ proc'.names = proc.names /\ proc'.step = proc.step + 1
    BY <2>1
  <2>f. ~proc'.failed
    BY <1>r, <2>1
  <2>3. CASE proc.job = "install"
    <3>1. host' = Before(proc.cfg, proc.step + 1)
      BY <1>4, <2>1, <2>3 DEF Works
    <3>2. host' = Before(proc'.cfg, proc'.step)
      BY <2>2, <3>1
    <3>3. saved' = none
      BY <1>r, <2>1, <2>3
    <3> QED BY <1>q, <1>r, <2>2, <2>3, <2>f, <3>2, <3>3
  <2>4. CASE proc.job = "uninstall"
    <3>1. PICK n, k, c : n = proc.names /\ k = proc.step /\ c = Net!Command
      OBVIOUS
    <3>2. k \in 1 .. 10 /\ c = Net!UninstallCommands(n)[k] /\ Works(c)
      BY <2>1, <2>4, <3>1, AtCommand
    <3>3. host' \subseteq host
      BY <3>2, UninstallStep
    <3> QED BY <1>5, <2>1, <2>2, <2>4, <2>f, <3>3
  <2> QED BY <2>1, <2>3, <2>4, AtCommand
<1>7. CASE Net!CommandFails
  <2>1. /\ proc.step <= Len(Net!Commands) /\ saved' = saved /\ host' = host
        /\ ~Net!Allows(Net!Command.op, Net!Command.entry)
    BY <1>f, <1>7 DEF Net!CommandFails
  <2>2. proc.job = "uninstall"
    BY <1>4, <2>1, AtCommand
  <2>3. CASE Net!Command.must
    <3>1. proc' = Net!Idle
      BY <1>7, <2>3 DEF Net!CommandFails
    <3> QED BY <1>o, <1>r, <2>1, <2>2, <3>1
  <2>4. CASE ~Net!Command.must
    <3> DEFINE g == proc.failed \/ Net!Allows(Net!Command.op, Net!Command.entry)
    <3>1. proc' = [proc EXCEPT !.step = @ + 1, !.failed = g]
      BY <1>7, <2>4 DEF Net!CommandFails
    <3>2. ~g
      BY <1>r, <2>1
    <3> HIDE DEF g
    <3>3. proc' = [job |-> proc.job, then |-> proc.then, cfg |-> proc.cfg,
                   names |-> proc.names, step |-> proc.step + 1, failed |-> g]
      BY <1>p, <3>1
    <3>4. proc'.job = proc.job /\ proc'.then = proc.then /\ proc'.names = proc.names
      BY <3>3
    <3>5. ~proc'.failed
      BY <3>2, <3>3
    <3> QED BY <1>5, <2>1, <2>2, <3>4, <3>5
  <2> QED BY <2>3, <2>4
<1>8. CASE Net!CommandsDone
  <2> DEFINE j == IF proc.job = "install" THEN "write" ELSE "remove"
  <2>1. /\ saved' = saved /\ host' = host /\ proc.step = Len(Net!Commands) + 1
        /\ Net!Commands # <<>>
        /\ proc' = [job |-> j, then |-> proc.then, cfg |-> proc.cfg,
                    names |-> proc.names, step |-> 1, failed |-> proc.failed]
    BY <1>p, <1>r, <1>8 DEF Net!CommandsDone, Net!Finished
  <2>2. proc'.job = j /\ proc'.then = proc.then /\ proc'.cfg = proc.cfg
    BY <2>1
  <2>f. ~proc'.failed
    BY <1>r, <2>1
  <2>3. CASE proc.job = "install"
    <3>1. proc.names = proc.cfg /\ Net!Commands = Net!InstallCommands(proc.names)
      BY <1>t, <2>3, CommandsNow
    <3>2. host' = All(proc.cfg)
      BY <1>r, <2>1, <2>3, <3>1 DEF All
    <3>3. host' = All(proc'.cfg) /\ saved' = none /\ proc'.job = "write"
      BY <1>r, <2>1, <2>2, <2>3, <3>2
    <3> QED BY <1>q, <1>r, <2>2, <2>f, <3>3
  <2>4. CASE proc.job # "install"
    <3>1. proc.job = "uninstall"
      BY <2>1, <2>4, CommandsNow
    <3>2. PICK n : n = proc.names
      OBVIOUS
    <3>3. proc.step = 11
      <4>1. n.uid \in BOOLEAN
        BY <1>t, <3>1, <3>2
      <4>2. Len(Net!Commands) = 10
        BY <3>1, <3>2, <4>1, CommandsNow, CommandCount
      <4> QED BY <2>1, <4>2
    <3>4. Cleared(n, 11)
      BY <1>r, <3>1, <3>2, <3>3 DEF NetProgress
    <3>5. Net!Mentions(n) = {}
      BY <3>4, AllCleared
    <3>6. host = {}
      BY <1>r, <3>1, <3>2, <3>5
    <3>7. proc'.job = "remove" /\ host' = {}
      BY <2>1, <2>2, <2>4, <3>6
    <3>8. saved' # none => host' = Net!Mentions(saved)'
      BY <1>r, <1>s, <2>1
    <3> QED BY <1>q, <1>r, <2>2, <2>f, <3>7, <3>8
  <2> QED BY <2>3, <2>4
<1>9. CASE Net!RemoveState
  <2>1. proc.job = "remove" /\ saved' = none /\ host' = host
    BY <1>9 DEF Net!RemoveState, none
  <2>2. host' = {} /\ proc.cfg \in C
    BY <1>r, <1>t, <2>1
  <2>3. CASE proc.then = "install"
    <3>1. proc' = Net!StartsWith(proc.cfg)
      BY <1>9, <2>3 DEF Net!RemoveState
    <3> QED BY <1>i, <2>1, <2>2, <3>1
  <2>4. CASE proc.then # "install"
    <3>1. proc' = Net!Idle
      BY <1>9, <2>4 DEF Net!RemoveState
    <3>2. proc'.job = "none" /\ ~proc'.failed /\ proc'.then = "none"
      BY <3>1 DEF Net!Idle
    <3> QED BY <1>q, <2>1, <2>2, <3>2
  <2> QED BY <2>3, <2>4
<1>10. CASE Net!WriteState
  <2>1. /\ proc.job = "write" /\ host' = host /\ saved' = proc.cfg
        /\ proc' = [job |-> "run", then |-> proc.then, cfg |-> proc.cfg,
                    names |-> proc.names, step |-> proc.step, failed |-> proc.failed]
    BY <1>p, <1>10 DEF Net!WriteState
  <2>2. proc'.job = "run" /\ proc'.then = proc.then /\ proc'.cfg = proc.cfg
    BY <2>1
  <2>f. ~proc'.failed
    BY <1>r, <2>1
  <2>3. PICK n : n = proc.cfg
    OBVIOUS
  <2>4. n.uid \in BOOLEAN /\ saved' # none
    BY <1>t, <2>1, <2>3
  <2>5. host = All(n)
    BY <1>r, <2>1, <2>3
  <2>6. host \subseteq EntriesOf(n)
    BY <2>4, <2>5, BeforeEntries DEF All
  <2>7. host = Net!Mentions(n)
    <3>1. \A x \in EntriesOf(n) \cap host : x \in Net!Mentions(n)
      BY EntryShapes
    <3>2. Net!Mentions(n) \subseteq host
      BY DEF Net!Mentions
    <3> QED BY <2>6, <3>1, <3>2
  <2>8. host' = Net!Mentions(n)'
    BY <1>s, <2>1, <2>7
  <2>9. host' = Net!Mentions(saved)' /\ host' = All(proc'.cfg) /\ saved' = proc'.cfg
    BY <2>1, <2>2, <2>3, <2>5, <2>8
  <2> QED BY <1>q, <1>r, <2>2, <2>f, <2>4, <2>9
<1>11. CASE Net!WriteFails
  BY <1>f, <1>11 DEF Net!WriteFails
<1>12. CASE Net!Crash
  <2>1. proc' = Net!Idle /\ host' = host /\ saved' = saved /\ saved # none
    BY <1>f, <1>12 DEF Net!Crash, none
  <2> QED BY <1>o, <2>1
<1>13. CASE Net!Edit
  <2>1. proc' = proc /\ host' = host /\ saved' = saved
    BY <1>13 DEF Net!Edit
  <2>2. saved' # none => host' = Net!Mentions(saved)'
    BY <1>r, <1>s, <2>1
  <2> QED BY <1>q, <1>r, <2>1, <2>2
<1> QED BY <1>1, <1>2, <1>3, <1>6, <1>7, <1>8, <1>9, <1>10, <1>11, <1>12, <1>13 DEF Net!Next

NetInv == NetTypes /\ NetShape /\ NetProgress /\ NetRecorded

LEMMA NetStarts == Net!Init => NetInv
<1> SUFFICES ASSUME Net!Init PROVE NetInv
  OBVIOUS
<1>1. /\ setting \in NetSettings /\ config \in Net!Configs /\ saved = Net!NoState
      /\ proc = Net!Idle /\ host = {}
  BY DEF Net!Init
<1>2. NetTypes
  BY <1>1 DEF NetTypes, ProcTyped, ProcOf, Net!Idle, Net!Job
<1>3. NetShape
  BY <1>1 DEF NetShape
<1>4. NetProgress
  BY <1>1 DEF NetProgress, Net!Idle
<1>5. NetRecorded
  BY <1>1 DEF NetRecorded, Net!Idle
<1> QED BY <1>2, <1>3, <1>4, <1>5 DEF NetInv

LEMMA NetStep == NetInv /\ [Net!Next]_netVars => NetInv'
<1>1. ASSUME NetInv, UNCHANGED netVars PROVE NetInv'
  <2>1. /\ setting' = setting /\ config' = config /\ saved' = saved /\ proc' = proc
        /\ host' = host
    BY <1>1 DEF netVars
  <2>2. NetTypes' /\ NetShape'
    BY <1>1, <2>1 DEF NetInv, NetTypes, NetShape, Shaped, Net!Configs
  <2>3. NetProgress'
    BY <1>1, <2>1 DEF NetInv, NetProgress, Insisted, Cleared, Net!RulesOf
  <2>4. NetRecorded'
    BY <1>1, <2>1 DEF NetInv, NetRecorded, Net!Recorded, Net!Faults, Net!Configs, Net!Mentions
  <2> QED BY <2>2, <2>3, <2>4 DEF NetInv
<1> QED BY <1>1, NextTypes, NextShape, NextProgress, NextRecorded DEF NetInv

\* What the invariant says of the host.
LEMMA NetCovers ==
  ASSUME NetInv
  PROVE  /\ Net!TypeOK /\ Net!NoOrphans /\ Net!RunningComplete
         /\ Net!UninstallCleans /\ Net!RunningUsable
<1>i. NetTypes /\ NetShape /\ NetProgress /\ NetRecorded
  BY DEF NetInv
<1>1. Net!TypeOK
  <2>1. \A e \in host : e[1] \in {"link", "addr", "route", "chain", "rule", "jump"}
    BY <1>i DEF NetShape, Shaped
  <2>2. proc.step <= Len(Net!Commands) + 1
    <3>1. proc.step \in 1 .. 18
      BY <1>i DEF NetTypes, ProcTyped, ProcOf
    <3>2. CASE proc.job = "install"
      <4>1. Net!Commands = Net!InstallCommands(proc.names)
        BY <3>2, CommandsNow
      <4> QED BY <1>i, <3>2, <4>1 DEF NetTypes, ProcTyped
    <3>3. CASE proc.job = "uninstall"
      <4>1. proc.names.uid \in BOOLEAN
        BY <1>i, <3>3, SettingFacts DEF NetTypes, ProcTyped
      <4>2. Len(Net!Commands) = 10
        BY <3>3, <4>1, CommandsNow, CommandCount
      <4>3. proc.step <= 11
        BY <1>i, <3>3 DEF NetTypes, ProcTyped
      <4> QED BY <3>1, <4>2, <4>3
    <3>4. CASE proc.job \notin {"install", "uninstall"}
      <4>1. Len(Net!Commands) = 0
        BY <3>4, CommandsNow
      <4>2. proc.step = 1
        BY <1>i, <3>4 DEF NetTypes, ProcTyped
      <4> QED BY <4>1, <4>2
    <3> QED BY <3>2, <3>3, <3>4
  <2>3. /\ setting \in NetSettings /\ config \in Net!Configs
        /\ saved \in Net!Configs \cup {Net!NoState}
        /\ proc \in ProcOf(Net!Configs)
    BY <1>i DEF NetTypes, ProcTyped
  <2> QED BY <2>1, <2>2, <2>3 DEF Net!TypeOK, ProcOf
<1>2. Net!NoOrphans
  BY <1>i DEF NetRecorded, Net!NoOrphans, Net!Idle
\* A daemon runs with a file it read.
<1>3. ASSUME proc.job = "run"
      PROVE  /\ Len(Net!InstallCommands(proc.cfg)) \in 1 .. 17
             /\ DOMAIN Net!InstallCommands(proc.cfg) = 1 .. Len(Net!InstallCommands(proc.cfg))
  <2>1. proc.cfg.uid \in BOOLEAN
    BY <1>i, <1>3, SettingFacts DEF NetTypes, ProcTyped
  <2>2. Net!InstallCommands(proc.cfg) \in Seq(CommandsOf(proc.cfg))
    BY <2>1, InstallList
  <2> QED BY <2>1, <2>2, CommandCount
<1>4. Net!RunningComplete
  <2> SUFFICES ASSUME Net!Recorded, proc.job = "run", NEW k \in DOMAIN Net!InstallCommands(proc.cfg)
               PROVE  Net!InstallCommands(proc.cfg)[k].entry \in host
    BY DEF Net!RunningComplete
  <2>1. host = Before(proc.cfg, Len(Net!InstallCommands(proc.cfg)) + 1)
    BY <1>i DEF NetRecorded
  <2>2. k \in 1 .. (Len(Net!InstallCommands(proc.cfg)) + 1) - 1
    BY <1>3
  <2> QED BY <2>1, <2>2 DEF Before
<1>5. Net!UninstallCleans
  <2> SUFFICES ASSUME proc.job = "uninstall", Net!Finished, ~proc.failed
               PROVE  Net!Mentions(proc.names) = {}
    BY DEF Net!UninstallCleans
  <2>1. PICK n : n = proc.names
    OBVIOUS
  <2>2. n.uid \in BOOLEAN
    BY <1>i, <2>1, SettingFacts DEF NetTypes, ProcTyped
  <2>3. proc.step = 11
    <3>1. Len(Net!Commands) = 10
      BY <2>1, <2>2, CommandsNow, CommandCount
    <3> QED BY <3>1 DEF Net!Finished
  <2>4. Cleared(n, 11)
    BY <1>i, <2>1, <2>3 DEF NetProgress
  <2> QED BY <1>i, <2>1, <2>4, AllCleared
<1>6. Net!RunningUsable
  <2> SUFFICES ASSUME proc.job = "run", proc.cfg.mode = "packet",
                      NEW k \in DOMAIN Net!InstallCommands(proc.cfg),
                      Net!InstallCommands(proc.cfg)[k].must
               PROVE  Net!InstallCommands(proc.cfg)[k].entry \in host
    BY DEF Net!RunningUsable
  <2>1. Insisted(proc.cfg, Len(Net!InstallCommands(proc.cfg)) + 1)
    BY <1>i DEF NetProgress
  <2>2. k \in 1 .. (Len(Net!InstallCommands(proc.cfg)) + 1) - 1
    BY <1>3
  <2> QED BY <2>1, <2>2 DEF Insisted
<1> QED BY <1>1, <1>2, <1>4, <1>5, <1>6

HostEntries == part = "entries" => NetInv

\* The entries of the host are, at every step of every command, those the
\* commands that ran have made, whatever was left by others: for any files of
\* any settings.
THEOREM EntriesInvariance == MCSpec => []HostEntries
<1>1. MCInit => HostEntries
  BY NetStarts DEF MCInit, HostEntries
<1>2. HostEntries /\ [MCNext]_<<part, vars, netVars, bindVars, tableVars>> => HostEntries'
  <2> SUFFICES ASSUME HostEntries, [MCNext]_<<part, vars, netVars, bindVars, tableVars>>,
                      part = "entries" \/ part' = "entries"
               PROVE  NetInv'
    BY DEF HostEntries
  <2>1. part' = part /\ [Net!Next]_netVars
    BY DEF MCNext
  <2> QED BY <2>1, NetStep DEF HostEntries
<1> QED BY <1>1, <1>2, PTL DEF MCSpec

\* No entry is left that no state file covers and a running daemon has all of
\* its own, while only crashes after the state was written and edits happen;
\* and whatever happens, an uninstall that reaches its end cleans its names
\* and a daemon that runs has what install insists on.
THEOREM EntriesCoveredAlways == MCSpec => []EntriesCovered
<1>1. HostEntries => EntriesCovered
  BY NetCovers DEF HostEntries, EntriesCovered
<1> QED BY <1>1, EntriesInvariance, PTL

=============================================================================

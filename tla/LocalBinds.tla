------------------------------ MODULE LocalBinds ------------------------------
(***************************************************************************)
(* The loopback listeners of the client-duplex targets, from the           *)
(* configuration to the sockets: overrides of the command line, the ports  *)
(* that validate assigns, and spawn_local_tcp_listeners, which binds them  *)
(* one after the other while other processes of the host bind and release  *)
(* ports.                                                                  *)
(*                                                                         *)
(* Ports are 1 .. MaxPort and a walk adds Stride (65535 and 10000 in the   *)
(* code).  A target without @LOCAL has local = 0.  Whether the peers of    *)
(* the configuration, their keys and a channel serve a target is chosen.   *)
(***************************************************************************)
EXTENDS Naturals, Sequences, SequencesExt, FiniteSetsExt

CONSTANTS
  Hosts, LogicalPorts, Locals,   \* what targets are made of
  MaxTargets, MaxPort, Stride,
  Sources     \* where targets come from: "file", "cli"

PortNumber == 1 .. MaxPort

BindsAssumption ==
  /\ MaxPort \in Nat /\ Stride \in Nat \ {0} /\ MaxTargets \in Nat
  /\ LogicalPorts \subseteq PortNumber
  /\ Locals \subseteq 0 .. MaxPort /\ 0 \in Locals
  /\ Sources \subseteq {"file", "cli"}

Target == [host : Hosts, port : LogicalPorts, local : Locals]

VARIABLES
  given,       \* the targets as the operator wrote them
  source,      \* and where
  phase,       \* of the start: see Phase
  targets,     \* those of the configuration, as validate reads them
  bindPorts,   \* the bind_port of each, as far as validate has come
  plans,       \* indices of the targets that get a listener
  turn,        \* the target or plan that is next
  reserved,    \* binds of the plans whose turn has not come
  claimed,     \* ports of the listeners so far
  candidate,   \* the port that is tried for the plan, 0 before the first
  listeners,   \* the port each target listens on, 0 without a listener
  busy         \* ports of other processes

vars == <<given, source, phase, targets, bindPorts, plans, turn, reserved,
          claimed, candidate, listeners, busy>>

Phase == {"override", "validate", "plan", "bind", "up", "refused"}

TypeOK ==
  /\ given \in Seq(Target) /\ Len(given) <= MaxTargets
  /\ targets \in Seq(Target)
  /\ source \in Sources /\ phase \in Phase
  /\ bindPorts \in Seq(PortNumber)
  /\ plans \in Seq(1 .. MaxTargets)
  /\ turn \in 1 .. MaxTargets + 1
  /\ reserved \subseteq PortNumber /\ claimed \subseteq PortNumber
  /\ candidate \in 0 .. MaxPort
  /\ listeners \in [1 .. Len(given) -> 0 .. MaxPort]
  /\ busy \subseteq PortNumber

Init ==
  /\ given \in SeqOf(Target, MaxTargets)
  /\ source \in Sources
  /\ phase = "override"
  /\ targets = <<>> /\ bindPorts = <<>> /\ plans = <<>>
  /\ turn = 1 /\ candidate = 0
  /\ reserved = {} /\ claimed = {}
  /\ listeners = [i \in 1 .. Len(given) |-> 0]
  /\ busy \in SUBSET PortNumber

-----------------------------------------------------------------------------
(* The configuration *)

\* The command line's targets are kept as they are displayed, which is
\* without their @LOCAL.
Displayed(t) == [t EXCEPT !.local = 0]

ApplyOverrides ==
  /\ phase = "override"
  /\ phase' = "validate"
  /\ targets' = IF source = "cli"
                  THEN [i \in DOMAIN given |-> Displayed(given[i])]
                  ELSE given
  /\ UNCHANGED <<given, source, bindPorts, plans, turn, reserved, claimed, candidate,
                 listeners, busy>>

\* client_bind_candidates: checked_add ends the walk at the last port.
Candidates(start, explicit) ==
  IF explicit THEN {start}
  ELSE {p \in PortNumber : \E n \in 0 .. MaxPort : p = start + n * Stride}

\* next_client_bind_port.
NextBind(port) == Candidates(port, FALSE) \ ToSet(bindPorts)

Twice(t) == \E i \in 1 .. turn - 1 : targets[i].host = t.host /\ targets[i].port = t.port

Refuses(t) ==
  \/ Twice(t)
  \/ t.local # 0 /\ t.local \in ToSet(bindPorts)
  \/ t.local = 0 /\ NextBind(t.port) = {}

ValidateTarget ==
  /\ phase = "validate" /\ turn <= Len(targets)
  /\ LET t == targets[turn]
     IN IF Refuses(t)
          THEN phase' = "refused" /\ UNCHANGED <<bindPorts, turn>>
          ELSE /\ bindPorts' = Append(bindPorts, IF t.local # 0 THEN t.local
                                                 ELSE Min(NextBind(t.port)))
               /\ turn' = turn + 1
               /\ UNCHANGED phase
  /\ UNCHANGED <<given, source, targets, plans, reserved, claimed, candidate, listeners, busy>>

\* start writes the state file, and its loop starts the listeners.
Validated ==
  /\ phase = "validate" /\ turn = Len(targets) + 1
  /\ phase' = "plan"
  /\ turn' = 1
  /\ UNCHANGED <<given, source, targets, bindPorts, plans, reserved, claimed, candidate,
                 listeners, busy>>

-----------------------------------------------------------------------------
(* spawn_local_tcp_listeners *)

\* A target without a peer entry of its port, a channel or keys is skipped.
PlanTarget ==
  /\ phase = "plan" /\ turn <= Len(targets)
  /\ plans' \in {plans, Append(plans, turn)}
  /\ turn' = turn + 1
  /\ UNCHANGED <<given, source, phase, targets, bindPorts, reserved, claimed, candidate,
                 listeners, busy>>

Planned ==
  /\ phase = "plan" /\ turn = Len(targets) + 1
  /\ phase' = "bind"
  /\ turn' = 1
  /\ reserved' = {bindPorts[i] : i \in ToSet(plans)}
  /\ UNCHANGED <<given, source, targets, bindPorts, plans, claimed, candidate, listeners, busy>>

TakePlan ==
  /\ phase = "bind" /\ turn <= Len(plans) /\ candidate = 0
  /\ candidate' = bindPorts[plans[turn]]
  /\ reserved' = reserved \ {bindPorts[plans[turn]]}
  /\ UNCHANGED <<given, source, phase, targets, bindPorts, plans, turn, claimed, listeners, busy>>

\* Whether candidates follow the first.
Walks(t) == t.local = 0

LastCandidate(p) == p + Stride > MaxPort

\* Mutant: the preferred binds of later targets are not reserved.
SkipClaimedOnly == claimed

Skip == reserved \cup claimed

\* A port nobody has.
Free(p) == p \notin busy \cup claimed

\* A candidate of another target is passed over; bind fails on one that is
\* taken; after the last one the plan is given up.
NextCandidate ==
  /\ phase = "bind" /\ candidate # 0
  /\ candidate \in Skip \/ ~Free(candidate)
  /\ IF Walks(targets[plans[turn]]) /\ ~LastCandidate(candidate)
       THEN candidate' = candidate + Stride /\ UNCHANGED turn
       ELSE candidate' = 0 /\ turn' = turn + 1
  /\ UNCHANGED <<given, source, phase, targets, bindPorts, plans, reserved, claimed,
                 listeners, busy>>

BindCandidate ==
  /\ phase = "bind" /\ candidate # 0
  /\ candidate \notin Skip /\ Free(candidate)
  /\ listeners' = [listeners EXCEPT ![plans[turn]] = candidate]
  /\ claimed' = claimed \cup {candidate}
  /\ candidate' = 0
  /\ turn' = turn + 1
  /\ UNCHANGED <<given, source, phase, targets, bindPorts, plans, reserved, busy>>

Bound ==
  /\ phase = "bind" /\ candidate = 0 /\ turn = Len(plans) + 1
  /\ phase' = "up"
  /\ UNCHANGED <<given, source, targets, bindPorts, plans, turn, reserved, claimed, candidate,
                 listeners, busy>>

\* Another process, while the listeners start.
OtherBinds(p) ==
  /\ phase = "bind"
  /\ Free(p)
  /\ busy' = busy \cup {p}
  /\ UNCHANGED <<given, source, phase, targets, bindPorts, plans, turn, reserved, claimed,
                 candidate, listeners>>

OtherReleases(p) ==
  /\ phase = "bind"
  /\ p \in busy
  /\ busy' = busy \ {p}
  /\ UNCHANGED <<given, source, phase, targets, bindPorts, plans, turn, reserved, claimed,
                 candidate, listeners>>

\* While no other process gives a port up.
Quiet ==
  \/ ApplyOverrides \/ ValidateTarget \/ Validated
  \/ PlanTarget \/ Planned \/ TakePlan
  \/ NextCandidate \/ BindCandidate \/ Bound
  \/ \E p \in PortNumber : OtherBinds(p)

Next == Quiet \/ \E p \in PortNumber : OtherReleases(p)

Spec == Init /\ [][Next]_vars

-----------------------------------------------------------------------------
(* Properties *)

\* An application that connects to the port a target was assigned reaches
\* that target or nobody: whoever has to walk does not end on the bind of
\* another target, also when that one's listener failed.  (Of Quiet: where
\* other processes release ports this does not hold, see the README.)
NotAnothersBind ==
  \A i, j \in ToSet(plans) : listeners[i] = bindPorts[j] => i = j

\* A target is left without a listener only if every port it may use is
\* taken by another process, or is the bind or the listener of another
\* target.  (Of Quiet too.)
GivenUpForCause ==
  phase = "up" =>
    \A i \in ToSet(plans) :
      listeners[i] = 0 =>
        Candidates(bindPorts[i], targets[i].local # 0) \subseteq
          busy \cup {listeners[j] : j \in DOMAIN listeners \ {i}}
               \cup {bindPorts[j] : j \in ToSet(plans) \ {i}}

\* RULES.md:111: an explicit @LOCAL "pins the loopback bind and does not
\* walk": the target of the file listens there or nowhere.
PinKept ==
  source = "file" =>
    \A i \in DOMAIN listeners : given[i].local # 0 => listeners[i] \in {0, given[i].local}
=============================================================================

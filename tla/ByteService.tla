------------------------------ MODULE ByteService ------------------------------
(***************************************************************************)
(* What the application's bytes on one client-duplex line may count on:    *)
(* the chunks read from its socket on one side, what the upstream socket   *)
(* was given on the other.  Nothing here names a pipe, a channel or a      *)
(* queue; ClientBytes implements it.                                       *)
(***************************************************************************)
EXTENDS Naturals, Sequences, SequencesExt

CONSTANT MaxChunks   \* bound: chunks the application writes

VARIABLES
  read,        \* chunks read from the application's socket so far
  delivered,   \* the chunks the upstream was given, in order
  refused,     \* the chunks the proxy had no room for
  spared       \* the chunk that was handed over apart from the rest, 0 if none

vars == <<read, delivered, refused, spared>>

\* The chunks whose fate is settled.
Settled == ToSet(delivered) \cup refused

Init ==
  /\ read = 1
  /\ delivered = <<>>
  /\ refused = {}
  /\ spared = 0

Read ==
  /\ read < MaxChunks
  /\ read' = read + 1
  /\ UNCHANGED <<delivered, refused, spared>>

\* One chunk only ever travels apart from the others, and may be lost alone:
\* the one behind the offer's, chosen before anything else went out.
Spare ==
  /\ spared = 0
  /\ read >= 2
  /\ Settled \subseteq {1}
  /\ spared' = 2
  /\ UNCHANGED <<read, delivered, refused>>

\* A chunk is refused once, and later than all that were delivered or refused.
Refuse(c) ==
  /\ c # 1
  /\ \A d \in Settled : d < c
  /\ refused' = refused \cup {c}
  /\ UNCHANGED <<read, delivered, spared>>

\* A chunk is delivered once, unless it was refused, and only when everything
\* before it was delivered or refused or was the spared one.  So a line that
\* lost something else delivers nothing any more.
Deliver(c) ==
  /\ \A d \in ToSet(delivered) : d < c
  /\ c \notin refused
  /\ 1 .. c - 1 \subseteq Settled \cup {spared}
  /\ delivered' = Append(delivered, c)
  /\ UNCHANGED <<read, refused, spared>>

Next ==
  \/ Read
  \/ Spare
  \/ \E c \in 1 .. read : Refuse(c) \/ Deliver(c)

Spec == Init /\ [][Next]_vars
=============================================================================

------------------------------ MODULE LineService ------------------------------
(***************************************************************************)
(* What one client-duplex line promises, seen from outside: the local      *)
(* application socket on one side, the upstream connections the proxy      *)
(* opened for the line's handle on the other.  Nothing here names a pipe,  *)
(* a session map or a mailbox; DuplexLine implements it.                   *)
(***************************************************************************)
EXTENDS Integers, Sequences, SequencesExt

CONSTANTS
  Sources,    \* upstream connections the proxy may ever open for the handle
  First,      \* the chunks that are the first answer of their connection
  MaxChunks   \* bound: chunks read from one upstream connection

VARIABLES
  socket,     \* "idle", "paused", "open" or "closed": the application socket
  produced,   \* produced[i]: chunks read from upstream connection i so far
  received    \* the chunks <<i, n>> written to the application socket, in order

vars == <<socket, produced, received>>

Init ==
  /\ socket = "idle"
  /\ produced = [i \in Sources |-> 0]
  /\ received = <<>>

\* The application connected and sent its first bytes; it is now held back.
Pause ==
  /\ socket = "idle"
  /\ socket' = "paused"
  /\ UNCHANGED <<produced, received>>

\* An upstream connection returns its next chunk.
Produce(i) ==
  /\ produced[i] < MaxChunks
  /\ produced' = [produced EXCEPT ![i] = @ + 1]
  /\ UNCHANGED <<socket, received>>

\* A chunk reaches the application: only one that was produced, never twice.
\* The first answer of a connection (First) travels apart from the rest and
\* may overtake or be overtaken; the others keep their order, with gaps where
\* a chunk was lost.
Receive(i, n) ==
  /\ socket \in {"paused", "open"}
  /\ n <= produced[i]
  /\ ~Contains(received, <<i, n>>)
  /\ <<i, n>> \in First \/ \A c \in ToSet(received) \ First : c[1] = i => c[2] < n
  /\ received' = Append(received, <<i, n>>)
  /\ UNCHANGED <<socket, produced>>

\* The application's later bytes flow only once it has had an answer.
Open ==
  /\ socket = "paused"
  /\ received # <<>>
  /\ socket' = "open"
  /\ UNCHANGED <<produced, received>>

Close ==
  /\ socket # "closed"
  /\ socket' = "closed"
  /\ UNCHANGED <<produced, received>>

Next ==
  \/ Pause
  \/ \E i \in Sources : Produce(i)
  \/ \E i \in Sources, n \in 1 .. MaxChunks : Receive(i, n)
  \/ Open
  \/ Close

Spec == Init /\ [][Next]_vars
=============================================================================

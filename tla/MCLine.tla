-------------------------------- MODULE MCLine --------------------------------
(***************************************************************************)
(* A client-duplex line in two models that share no state: its control     *)
(* and the upstream's bytes from end to end (DuplexLine), and the          *)
(* application's own bytes on their way to the upstream (ClientBytes),     *)
(* once with every fault and once without.  The variable part says which   *)
(* one a behaviour is of; the others stand still.                          *)
(***************************************************************************)
EXTENDS DuplexLine

CONSTANTS
  MaxReads,   \* bound: chunks the application writes
  MaxPipes,   \* bound: occupations of the line
  Entries,    \* entries one occupation walks
  ProxyCap    \* capacity of the proxy's queue

VARIABLES
  part,
  task, reads, eof, pending, resume, mine, entry, answer, spawned, channel,
  wire, proxy, toUpstream, upstream, refused

bytesVars == <<task, reads, eof, pending, resume, mine, entry, answer, spawned,
               channel, wire, proxy, toUpstream, upstream, refused>>

Bytes == INSTANCE ClientBytes WITH
  MaxChunks <- MaxReads, tcp <- task, read <- reads, session <- entry,
  occupy <- spawned, queue <- toUpstream

ASSUME MCBytes == Bytes!BytesAssumption

MCInit == Init /\ Bytes!Init /\ part \in {"control", "bytes", "calm"}

MCNext ==
  \/ part = "control" /\ Next /\ UNCHANGED <<part, bytesVars>>
  \/ part = "bytes" /\ Bytes!Next /\ UNCHANGED <<part, vars>>
  \/ part = "calm" /\ Bytes!Calm /\ UNCHANGED <<part, vars>>

MCSpec == MCInit /\ [][MCNext]_<<part, vars, bytesVars>>

-----------------------------------------------------------------------------
(* Properties *)

\* Whatever fails, the application's chunks reach the upstream in the order
\* they were read, none twice.
InOrder == TypeOK /\ Bytes!TypeOK /\ Bytes!InOrder

\* What the two ends of ClientBytes show of the application's bytes.
ByteStream == INSTANCE ByteService WITH
  MaxChunks <- MaxReads, read <- reads, delivered <- upstream, spared <- resume

\* The bytes implement ByteService.  run_proxy_stream and spawn_l0_pipe go on
\* after they lost frames, but the TCP task never sends behind a sender that
\* ended: however occupations break, retry and replace each other, a chunk
\* reaches the upstream only when all before it did, were refused for a full
\* queue, or were the one first blob, and no refused one comes back later.
BytesServed == ByteStream!Spec

\* Without a fault, and with the fairness of ClientBytes, every chunk of a line
\* that got its pipe arrives.
ChunksArrive == part = "calm" /\ Bytes!Fairness => Bytes!ChunksArrive
=============================================================================

------------------------------- MODULE SseStream -------------------------------
(***************************************************************************)
(* How a listen cuts frames out of its SSE stream                          *)
(* (pump_sse_armors_owned_session and what it calls), for any way the      *)
(* transport cuts the mailbox's writes into reads.                         *)
(*                                                                         *)
(* Text is a sequence of tokens <<kind, n>>.  An AES blob is two pieces,   *)
(* each long enough to be taken for a blob of its own, and pieces in a row *)
(* are one blob: the worst base64 allows.  JSON stands for every control   *)
(* frame the code recognises.  Not modelled: PGP armor spread over lines,  *)
(* JSON the code ignores, the 64,000-byte purge (a frame carries at most   *)
(* 16 KiB), cancellation by the owner.                                     *)
(***************************************************************************)
EXTENDS Integers, Sequences, SequencesExt

CONSTANT MaxWrites   \* bound: frames and comments the mailbox writes

WritesAssumption == MaxWrites \in Nat \ {0}

VARIABLES
  coalesce,  \* the transport does not keep the writes apart
  sent,      \* what the mailbox has written: the kind of each write
  wire,      \* texts that were not read yet; a read is of the first only
  buf,       \* buf of the pump
  out,       \* frames handed on, in order
  ended      \* the stream has ended

vars == <<coalesce, sent, wire, buf, out, ended>>

-----------------------------------------------------------------------------
(* What the mailbox writes *)

Data == <<"data:", 0>>
Comment == <<":", 0>>
Cr == <<"cr", 0>>
Lf == <<"lf", 0>>

CrlfTwice == <<Cr, Lf, Cr, Lf>>
LfTwice == <<Lf, Lf>>

BlobHead(n) == <<"head", n>>
BlobTail(n) == <<"tail", n>>
Json(n) == <<"{", n>>

\* An aes and a json frame end with CRLF CRLF, a chat frame and a keepalive
\* comment with LF LF.  cut is an aes line that a comment interrupts, and rest
\* what the mailbox writes next: the line's other half.
WriteKinds == {"aes", "json", "chat", "comment", "cut", "rest"}

\* Write n, of a kind.
WriteOf(kind, n) ==
  CASE kind = "aes" -> <<Data, BlobHead(n), BlobTail(n), Cr, Lf, Cr, Lf>>
    [] kind = "json" -> <<Data, Json(n), Cr, Lf, Cr, Lf>>
    [] kind = "chat" -> <<Json(n), Lf, Lf>>
    [] kind = "comment" -> <<Comment, Lf, Lf>>
    [] kind = "cut" -> <<Data, BlobHead(n), Lf, Comment, Lf, Lf>>
    [] kind = "rest" -> <<BlobTail(n - 1), Cr, Lf, Cr, Lf>>

\* The frame that is complete with write n, if there is one.
FrameOf(kind, n) ==
  CASE kind = "aes" -> <<BlobHead(n), BlobTail(n)>>
    [] kind = "rest" -> <<BlobHead(n - 1), BlobTail(n - 1)>>
    [] kind \in {"json", "chat"} -> <<Json(n)>>
    [] OTHER -> <<>>

-----------------------------------------------------------------------------
(* Cutting frames out of the buffer *)

Blank(token) == token \in {Cr, Lf}
Piece(token) == token[1] \in {"head", "tail"}

\* Where the pattern is in the text, from position p on.
Hits(text, pattern, p) ==
  {i \in p .. Len(text) - Len(pattern) + 1 :
     SubSeq(text, i, i + Len(pattern) - 1) = pattern}

First(hits) == {i \in hits : \A j \in hits : i <= j}

Trim(text) ==
  LET inked == {i \in DOMAIN text : ~Blank(text[i])}
  IN IF inked = {} THEN <<>> ELSE SubSeq(text, Min(inked), Max(inked))

LineStart(text, i) == i = 1 \/ text[i - 1] = Lf

\* next_complete_sse_comment: the first line that starts with a colon, up to
\* CRLF CRLF if there is one anywhere behind it, else to LF LF; no span if it
\* is not complete.
NextCompleteComment(text) ==
  UNION {LET crlf == First(Hits(text, CrlfTwice, start))
         IN IF crlf # {} THEN {<<start, i + 3>> : i \in crlf}
            ELSE {<<start, i + 1>> : i \in First(Hits(text, LfTwice, start))} :
         start \in First({i \in DOMAIN text : text[i] = Comment /\ LineStart(text, i)})}

StripComment(text) ==
  LET stripped == {SubSeq(text, 1, span[1] - 1) \o SubSeq(text, span[2] + 1, Len(text)) :
                     span \in NextCompleteComment(text)}
  IN IF stripped = {} THEN text ELSE CHOOSE t \in stripped : TRUE

\* A turn that finds a comment takes three tokens at least, so after this many
\* nothing is left to find.
StripCompleteComments(text) ==
  LET strip[n \in 0 .. Len(text)] ==
        IF n = 0 THEN text ELSE StripComment(strip[n - 1])
  IN strip[Len(text) \div 3]

\* is_pending_aes_sse: the buffer starts with base64, after a data: or not.
PendingAes(text) ==
  \E i \in DOMAIN text :
    /\ Piece(text[i])
    /\ \A j \in 1 .. i - 1 : Blank(text[j]) \/ text[j] = Data
    /\ Cardinality({j \in 1 .. i - 1 : text[j] = Data}) <= 1

\* Mutant: a line is taken for a frame.
EndOfLine(text) == {<<i, 1>> : i \in First(Hits(text, <<Lf>>, 1))}

\* find_frame_end: where the first separator is, and its length; nothing if the
\* buffer holds no complete frame.
FrameEnd(text) ==
  LET ends == {<<i, 4>> : i \in Hits(text, CrlfTwice, 1)} \cup
                {<<i, 2>> : i \in {j \in Hits(text, LfTwice, 1) : ~PendingAes(text)}}
  IN {e \in ends : \A f \in ends : e[1] <= f[1]}

\* The lines that are neither empty nor comments, by their starts.
BlockLines(block) ==
  {i \in DOMAIN block :
     LineStart(block, i) /\ ~Blank(block[i]) /\ block[i] # Comment}

DataLines(block) == {i \in BlockLines(block) : block[i] = Data}

\* What such lines hold from the first data: line on, without data: and CR.
Content(block) ==
  LET shown == {i \in BlockLines(block) : i >= Min(DataLines(block))}
  IN {i \in DOMAIN block \ DataLines(block) :
        /\ Max({0} \cup {j \in 1 .. i : LineStart(block, j)}) \in shown
        /\ block[i] # Cr}

Kept(block, positions) ==
  LET nth(k) == CHOOSE i \in positions : Cardinality({j \in positions : j <= i}) = k
  IN Trim([k \in 1 .. Cardinality(positions) |-> block[nth(k)]])

\* sse_or_raw_payload: the data: lines, and what follows the first of them,
\* joined by LF, or by nothing once one has no data:; the whole block if it
\* has no data: line.
Payload(block) ==
  LET continued == \E i \in BlockLines(block) \ DataLines(block) :
                     i > Min(DataLines(block))
  IN CASE DataLines(block) = {} -> Trim(block)
       [] DataLines(block) # {} /\ ~continued -> Kept(block, Content(block))
       [] OTHER -> Kept(block, {i \in Content(block) : block[i] # Lf})

\* extract_armors_from_frame: a JSON frame or an AES blob, or nothing.
Recognised(payload) ==
  \/ Len(payload) = 1 /\ payload[1][1] = "{"
  \/ payload # <<>> /\ \A i \in DOMAIN payload : Piece(payload[i])

Extracted(block) == IF Recognised(Payload(block)) THEN <<Payload(block)>> ELSE <<>>

\* One turn of the loop of drain_sse_armors, on what it has drained.
DrainFrame(drained) ==
  LET turn == {[frames |-> drained.frames \o Extracted(SubSeq(drained.rest, 1, end[1] - 1)),
                rest |-> StripCompleteComments(
                           SubSeq(drained.rest, end[1] + end[2], Len(drained.rest)))] :
                 end \in FrameEnd(drained.rest)}
  IN IF turn = {} THEN drained ELSE CHOOSE d \in turn : TRUE

\* drain_sse_armors: [frames |-> those extracted, rest |-> what stays]; a turn
\* that finds a frame takes two tokens at least.
Drain(text) ==
  LET drained[n \in 0 .. Len(text)] ==
        IF n = 0 THEN [frames |-> <<>>, rest |-> StripCompleteComments(text)]
        ELSE DrainFrame(drained[n - 1])
  IN drained[Len(text) \div 2]

-----------------------------------------------------------------------------
TypeOK ==
  /\ coalesce \in BOOLEAN
  /\ sent \in Seq(WriteKinds) /\ Len(sent) <= MaxWrites
  /\ \A i \in DOMAIN wire : wire[i] # <<>>
  /\ \A i \in DOMAIN out : out[i] # <<>>
  /\ FrameEnd(buf) = {}
  /\ ended \in BOOLEAN

Init ==
  /\ coalesce \in BOOLEAN
  /\ sent = <<>>
  /\ wire = <<>>
  /\ buf = <<>>
  /\ out = <<>>
  /\ ended = FALSE

\* A line is cut in two: its other half is what the mailbox writes next.
CutOpen == sent # <<>> /\ Last(sent) = "cut"

\* The mailbox writes.  Without a boundary between the writes, what is unread
\* is one text.
Write(kind) ==
  LET text == WriteOf(kind, Len(sent) + 1)
  IN /\ ~ended
     /\ Len(sent) < MaxWrites
     /\ kind = "rest" <=> CutOpen
     /\ sent' = Append(sent, kind)
     /\ wire' = IF coalesce /\ wire # <<>> THEN <<Head(wire) \o text>>
                ELSE Append(wire, text)
     /\ UNCHANGED <<coalesce, buf, out, ended>>

\* What reading n tokens of text leaves of the writes.
Unread(text, n) == IF n = Len(text) THEN <<>> ELSE <<SubSeq(text, n + 1, Len(text))>>

Pump(chunk) ==
  LET drained == Drain(buf \o chunk)
  IN /\ buf' = drained.rest
     /\ out' = out \o drained.frames

\* response.chunk() returns the beginning of what was written, or all of it.
Read ==
  /\ wire # <<>>
  /\ \E n \in DOMAIN Head(wire) :
       /\ Pump(SubSeq(Head(wire), 1, n))
       /\ wire' = Unread(Head(wire), n) \o Tail(wire)
  /\ UNCHANGED <<coalesce, sent, ended>>

\* The stream ends after its last write: extract_inbound_armors takes what is
\* left in the buffer for a frame.
EndOfStream ==
  /\ ~ended
  /\ wire = <<>>
  /\ ~CutOpen
  /\ out' = out \o (IF Trim(buf) = <<>> THEN <<>> ELSE Extracted(buf))
  /\ buf' = <<>>
  /\ ended' = TRUE
  /\ UNCHANGED <<coalesce, sent, wire>>

Next ==
  \/ \E kind \in WriteKinds : Write(kind)
  \/ Read
  \/ EndOfStream

Spec == Init /\ [][Next]_vars

-----------------------------------------------------------------------------
(* Properties *)

\* The frames of the first writes, in order.
FramesOf(kinds) ==
  LET frames[n \in 0 .. Len(kinds)] ==
        IF n = 0 THEN <<>>
        ELSE frames[n - 1] \o (IF FrameOf(kinds[n], n) = <<>> THEN <<>>
                                ELSE <<FrameOf(kinds[n], n)>>)
  IN frames[Len(kinds)]

\* However the stream is cut into reads, what is handed on are frames of the
\* mailbox, whole, in order and none twice; except that interrupted lines may
\* be mixed up when reads merge writes (see NothingLost).
WholeFrames ==
  ~coalesce \/ "cut" \notin ToSet(sent) =>
    /\ \A k \in DOMAIN out : \E n \in DOMAIN sent : out[k] = FrameOf(sent[n], n)
    /\ \A j, k \in DOMAIN out : j < k => out[j][1][2] < out[k][1][2]

\* As long as no read merges writes, the frames are handed on as soon as their
\* last bytes were read, interrupted or not.
EveryFrameInTime == ~coalesce /\ wire = <<>> => out = FramesOf(sent)

\* What is lost when reads merge writes is lost to a comment: the frames before
\* the first one all arrive.
LostToComments ==
  wire = <<>> =>
    \A m \in 0 .. Len(sent) :
      (\A n \in 1 .. m : sent[n] \notin {"comment", "cut"}) =>
        IsPrefix(FramesOf(SubSeq(sent, 1, m)), out)

\* The test aes_sse_does_not_complete_on_keepalive_nlnl expects a blob that a
\* keepalive interrupts to be handed on whole ("assert_eq!(drained[0], blob)").
\* Violated when a comment is read together with what follows it: it is then
\* taken to reach to the CRLF CRLF of the next frame.
NothingLost == wire = <<>> => out = FramesOf(sent)
=============================================================================

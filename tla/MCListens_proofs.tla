---------------------------- MODULE MCListens_proofs ----------------------------
(***************************************************************************)
(* Proofs about the two models of a listen.  First InboundFeed, for any    *)
(* lines, any capacities and any number of blobs; then SseStream, for any  *)
(* number of writes (from "Turns of a loop" on):                           *)
(*                                                                         *)
(*  - what the string functions return, on texts of any length;            *)
(*  - Separate, which the buffer and the wire keep if no read merges       *)
(*    writes: what is read and unread of a write is the whole of it;       *)
(*  - Merged and Arrives, which they keep if reads do: what is buffered    *)
(*    and unread are whole writes, and up to the first comment all of      *)
(*    them.                                                                *)
(***************************************************************************)
EXTENDS MCListens, SequenceTheorems, FiniteSetTheorems, WellFoundedInduction, TLAPS

\* What a peer seals, it seals for a listen it was told of, which was bound.
BoundFirst ==
  \A l \in Lines :
    /\ answered[l] => bound[l]
    /\ kind[l] # <<>> => answered[l]

\* A chunk carries the handle of its line and a blob its peer has sealed.
Sealed(c) == c.session = "own" /\ c.blob \in DOMAIN kind[c.line]

AllSealed ==
  /\ \A l \in Lines :
       /\ \A i \in DOMAIN net[l] : net[l][i] \in DOMAIN kind[l]
       /\ \A i \in DOMAIN back[l] : back[l][i] \in DOMAIN kind[l]
       /\ \A i \in DOMAIN held[l] : held[l][i].line = l /\ Sealed(held[l][i])
  /\ \A i \in DOMAIN feed : Sealed(feed[i])

\* A session leaves the map only when its line ends.
GoneWhenEnded == \A l \in Lines : session[l] = "gone" => Ended(l)

IInv == TypeOK /\ BoundFirst /\ AllSealed /\ GoneWhenEnded
          /\ NeverMismatched /\ OthersUnaffected

LEMMA SeqAppend ==
  ASSUME NEW S, NEW s \in Seq(S), NEW x \in S
  PROVE  /\ Append(s, x) \in Seq(S)
         /\ Append(s, x) # <<>>
         /\ Len(Append(s, x)) = Len(s) + 1
         /\ DOMAIN Append(s, x) = 1 .. (Len(s) + 1)
         /\ DOMAIN s = 1 .. Len(s) /\ Len(s) \in Nat
         /\ \A i \in DOMAIN s : i \in DOMAIN Append(s, x) /\ Append(s, x)[i] = s[i]
         /\ Append(s, x)[Len(s) + 1] = x
         /\ \A i \in DOMAIN Append(s, x) :
              Append(s, x)[i] = x \/ \E j \in DOMAIN s : Append(s, x)[i] = s[j]
<1> DEFINE a == Append(s, x)
<1>1. /\ a \in Seq(S)
      /\ Len(a) = Len(s) + 1
      /\ \A i \in 1 .. Len(s) : a[i] = s[i]
      /\ a[Len(s) + 1] = x
  BY AppendProperties
<1>2. DOMAIN s = 1 .. Len(s) /\ DOMAIN a = 1 .. (Len(s) + 1) /\ Len(s) \in Nat
  BY <1>1, LenProperties
<1>3. a # <<>>
  BY <1>1, <1>2, EmptySeq
<1> HIDE DEF a
<1>4. \A i \in DOMAIN s : i \in DOMAIN a /\ a[i] = s[i]
  BY <1>1, <1>2
<1>5. ASSUME NEW i \in DOMAIN a PROVE a[i] = x \/ \E j \in DOMAIN s : a[i] = s[j]
  <2>1. i \in DOMAIN s \/ i = Len(s) + 1
    BY <1>2
  <2> QED BY <2>1, <1>1, <1>4
<1> QED BY <1>1, <1>2, <1>3, <1>4, <1>5 DEF a

LEMMA SeqTail ==
  ASSUME NEW S, NEW s \in Seq(S), s # <<>>
  PROVE  /\ Head(s) \in S /\ Tail(s) \in Seq(S)
         /\ Len(Tail(s)) = Len(s) - 1 /\ Len(s) \in Nat
         /\ 1 \in DOMAIN s /\ Head(s) = s[1]
         /\ \A i \in DOMAIN Tail(s) : \E j \in DOMAIN s : Tail(s)[i] = s[j]
<1> DEFINE t == Tail(s)
<1>1. /\ Head(s) \in S /\ t \in Seq(S)
      /\ Len(t) = Len(s) - 1
      /\ \A k \in 1 .. Len(t) : t[k] = s[k + 1]
  BY HeadTailProperties
<1>2. DOMAIN s = 1 .. Len(s) /\ DOMAIN t = 1 .. Len(t) /\ Len(s) \in Nat /\ Len(s) > 0
  BY <1>1, LenProperties, EmptySeq
<1>3. Head(s) = s[1] /\ 1 \in DOMAIN s
  BY <1>2
<1> HIDE DEF t
<1>4. \A i \in DOMAIN t : i + 1 \in DOMAIN s /\ t[i] = s[i + 1]
  BY <1>1, <1>2
<1> QED BY <1>1, <1>2, <1>3, <1>4 DEF t

-----------------------------------------------------------------------------

LEMMA InitEstablishes == Init => IInv
<1> SUFFICES ASSUME Init PROVE IInv
  OBVIOUS
<1>1. TypeOK
  BY FeedAssumption DEF Init, TypeOK, Blob, Chunk
<1>2. BoundFirst /\ AllSealed /\ GoneWhenEnded
  BY DEF Init, BoundFirst, AllSealed, GoneWhenEnded
<1>3. NeverMismatched /\ OthersUnaffected
  BY DEF Init, NeverMismatched, OthersUnaffected
<1> QED BY <1>1, <1>2, <1>3 DEF IInv

LEMMA BindSessionKeeps ==
  ASSUME IInv, NEW l \in Lines, BindSession(l) PROVE IInv'
<1> USE DEF IInv, BindSession, lineVars
<1>1. TypeOK'
  BY DEF TypeOK
<1>2. BoundFirst'
  BY DEF BoundFirst, TypeOK
<1>3. AllSealed' /\ GoneWhenEnded'
  BY DEF AllSealed, Sealed, GoneWhenEnded, Ended
<1>4. NeverMismatched' /\ OthersUnaffected'
  BY DEF NeverMismatched, OthersUnaffected, Ended
<1> QED BY <1>1, <1>2, <1>3, <1>4

LEMMA AnswerKeeps ==
  ASSUME IInv, NEW l \in Lines, Answer(l) PROVE IInv'
<1> USE DEF IInv, Answer, MayAnswer, lineVars
<1>1. TypeOK'
  BY DEF TypeOK
<1>2. BoundFirst'
  BY DEF BoundFirst, TypeOK
<1>3. AllSealed' /\ GoneWhenEnded'
  BY DEF AllSealed, Sealed, GoneWhenEnded, Ended
<1>4. NeverMismatched' /\ OthersUnaffected'
  BY DEF NeverMismatched, OthersUnaffected, Ended
<1> QED BY <1>1, <1>2, <1>3, <1>4

LEMMA PeerSendsKeeps ==
  ASSUME IInv, NEW l \in Lines, PeerSends(l) PROVE IInv'
<1> USE DEF IInv
<1> DEFINE n == Len(kind[l]) + 1
<1>1. PICK k \in AllKinds, r \in Routes(l) :
        /\ kind' = [kind EXCEPT ![l] = Append(@, k)]
        /\ route' = [route EXCEPT ![l] = Append(@, r)]
        /\ \/ net' = [net EXCEPT ![l] = Append(@, n)] /\ back' = back
           \/ back' = [back EXCEPT ![l] = Append(@, n)] /\ net' = net
  BY FeedAssumption DEF PeerSends
<1>2. /\ answered[l] /\ Len(kind[l]) < MaxBlobs
      /\ UNCHANGED <<owner, bound, answered, held, feed, session, stream,
                     queue, got, ending, refused>>
  BY DEF PeerSends, listenVars, lineVars
<1>3. /\ kind \in [Lines -> Seq(AllKinds)] /\ route \in [Lines -> Seq(Route)]
      /\ net \in [Lines -> Seq(Blob)] /\ back \in [Lines -> Seq(Blob)]
  BY DEF TypeOK
<1>4. /\ kind'[l] \in Seq(AllKinds) /\ kind'[l] # <<>>
      /\ n \in Nat /\ n \in DOMAIN kind'[l]
      /\ \A i \in DOMAIN kind[l] : i \in DOMAIN kind'[l] /\ kind'[l][i] = kind[l][i]
  BY <1>1, <1>3, SeqAppend
<1>5. n \in Blob
  BY <1>2, <1>4, <1>3, LenProperties, FeedAssumption DEF Blob
<1>6. route'[l] \in Seq(Route)
  <2>1. r \in Route
    BY DEF Routes, Route
  <2>2. Append(route[l], r) \in Seq(Route)
    BY <2>1, <1>3, SeqAppend
  <2> QED BY <2>2, <1>1, <1>3
<1>7. /\ net'[l] \in Seq(Blob)
      /\ \A i \in DOMAIN net'[l] : net'[l][i] = n \/ \E j \in DOMAIN net[l] : net'[l][i] = net[l][j]
  <2>1. CASE net' = net
    BY <2>1, <1>3
  <2>2. CASE net' = [net EXCEPT ![l] = Append(@, n)]
    BY <2>2, <1>3, <1>5, SeqAppend
  <2> QED BY <2>1, <2>2, <1>1
<1>8. /\ back'[l] \in Seq(Blob)
      /\ \A i \in DOMAIN back'[l] : back'[l][i] = n \/ \E j \in DOMAIN back[l] : back'[l][i] = back[l][j]
  <2>1. CASE back' = back
    BY <2>1, <1>3
  <2>2. CASE back' = [back EXCEPT ![l] = Append(@, n)]
    BY <2>2, <1>3, <1>5, SeqAppend
  <2> QED BY <2>1, <2>2, <1>1
<1>9. \A m \in Lines : m # l => /\ kind'[m] = kind[m] /\ route'[m] = route[m]
                               /\ net'[m] = net[m] /\ back'[m] = back[m]
  BY <1>1, <1>3
<1>10. \A m \in Lines : \A i \in DOMAIN kind[m] : i \in DOMAIN kind'[m] /\ kind'[m][i] = kind[m][i]
  BY <1>4, <1>9
<1> HIDE DEF n
<1>11. TypeOK'
  <2>1. /\ kind' \in [Lines -> Seq(AllKinds)] /\ route' \in [Lines -> Seq(Route)]
    BY <1>1, <1>3, <1>4, <1>6
  <2>2. net' \in [Lines -> Seq(Blob)]
    BY <1>1, <1>3, <1>7
  <2>3. back' \in [Lines -> Seq(Blob)]
    BY <1>1, <1>3, <1>8
  <2> QED BY <2>1, <2>2, <2>3, <1>2 DEF TypeOK, Chunk, Blob
<1>12. BoundFirst'
  BY <1>2, <1>9 DEF BoundFirst
<1>13. AllSealed'
  <2>1. ASSUME NEW m \in Lines, NEW i \in DOMAIN net'[m] PROVE net'[m][i] \in DOMAIN kind'[m]
    BY <1>4, <1>7, <1>9, <1>10 DEF AllSealed
  <2>2. ASSUME NEW m \in Lines, NEW i \in DOMAIN back'[m] PROVE back'[m][i] \in DOMAIN kind'[m]
    BY <1>4, <1>8, <1>9, <1>10 DEF AllSealed
  <2>3. ASSUME NEW m \in Lines, NEW i \in DOMAIN held'[m]
        PROVE held'[m][i].line = m /\ Sealed(held[m][i])'
    <3>1. i \in DOMAIN held[m] /\ held'[m][i] = held[m][i]
      BY <1>2
    <3>2. held[m][i].line = m /\ Sealed(held[m][i])
      BY <3>1 DEF AllSealed
    <3> QED BY <3>1, <3>2, <1>10 DEF Sealed
  <2>4. ASSUME NEW i \in DOMAIN feed' PROVE Sealed(feed[i])'
    <3>1. i \in DOMAIN feed /\ feed'[i] = feed[i]
      BY <1>2
    <3>2. feed[i] \in Chunk
      BY <3>1 DEF TypeOK
    <3>3. feed[i].line \in Lines
      BY <3>2 DEF Chunk
    <3> QED BY <3>1, <3>3, <1>10 DEF Sealed, AllSealed
  <2> QED BY <2>1, <2>2, <2>3, <2>4 DEF AllSealed
<1>14. GoneWhenEnded' /\ NeverMismatched'
  BY <1>2 DEF GoneWhenEnded, NeverMismatched, Ended, Blob
<1>15. OthersUnaffected'
  BY <1>2, <1>10 DEF OthersUnaffected
<1> QED BY <1>11, <1>12, <1>13, <1>14, <1>15

LEMMA PumpReadsKeeps ==
  ASSUME IInv, NEW l \in Lines, PumpReads(l) PROVE IInv'
<1> USE DEF IInv
<1> DEFINE c == [line |-> l, via |-> "sse", blob |-> Head(net[l]), session |-> CurrentSession(l)]
<1>1. /\ net[l] # <<>>
      /\ held' = [held EXCEPT ![l] = <<c>>]
      /\ net' = [net EXCEPT ![l] = Tail(@)]
      /\ UNCHANGED <<kind, route, back, owner, bound, answered, feed, session, stream,
                     queue, got, ending, refused>>
  BY DEF PumpReads, lineVars
<1>2. net \in [Lines -> Seq(Blob)] /\ held \in [Lines -> Seq(Chunk)]
  BY DEF TypeOK
<1>3. /\ Head(net[l]) \in Blob /\ Tail(net[l]) \in Seq(Blob)
      /\ 1 \in DOMAIN net[l] /\ Head(net[l]) = net[l][1]
      /\ \A i \in DOMAIN Tail(net[l]) : \E j \in DOMAIN net[l] : Tail(net[l])[i] = net[l][j]
  <2>1. net[l] \in Seq(Blob) /\ net[l] # <<>>
    BY <1>1, <1>2
  <2> QED BY ONLY <2>1, SeqTail
<1>4. Head(net[l]) \in DOMAIN kind[l]
  BY <1>3 DEF AllSealed
<1>5. kind[l] \in Seq(AllKinds) /\ bound[l]
  BY <1>4 DEF BoundFirst, TypeOK
<1>6. c \in Chunk /\ c.line = l /\ c.session = "own" /\ c.blob \in DOMAIN kind[l]
  BY <1>3, <1>4, <1>5 DEF Chunk, CurrentSession, Handle, Route
<1> HIDE DEF c
<1>7. /\ <<c>> \in Seq(Chunk) /\ Len(<<c>>) = 1
      /\ \A i \in DOMAIN <<c>> : <<c>>[i] = c
  BY <1>6
<1>8. TypeOK'
  <2>1. held' \in [Lines -> Seq(Chunk)] /\ \A m \in Lines : Len(held'[m]) <= 1
    BY <1>1, <1>2, <1>7 DEF TypeOK
  <2>2. net' \in [Lines -> Seq(Blob)]
    BY <1>1, <1>2, <1>3
  <2> QED BY <2>1, <2>2, <1>1 DEF TypeOK, Chunk, Blob
<1>9. BoundFirst'
  BY <1>1 DEF BoundFirst
<1>10. AllSealed'
  <2>1. \A m \in Lines : m # l => net'[m] = net[m] /\ held'[m] = held[m]
    BY <1>1, <1>2
  <2>2. net'[l] = Tail(net[l]) /\ held'[l] = <<c>>
    BY <1>1, <1>2
  <2>3. \A i \in DOMAIN held'[l] : held'[l][i].line = l /\ Sealed(held[l][i])'
    BY <2>2, <1>1, <1>6, <1>7 DEF Sealed
  <2>4. \A i \in DOMAIN net'[l] : net'[l][i] \in DOMAIN kind'[l]
    BY <2>2, <1>1, <1>3 DEF AllSealed
  <2>5. ASSUME NEW m \in Lines, m # l, NEW i \in DOMAIN held'[m]
        PROVE held'[m][i].line = m /\ Sealed(held[m][i])'
    BY <2>1, <2>5, <1>1 DEF AllSealed, Sealed
  <2>6. \A m \in Lines \ {l} : \A i \in DOMAIN net'[m] : net'[m][i] \in DOMAIN kind'[m]
    BY <2>1, <1>1 DEF AllSealed
  <2>7. \A m \in Lines : \A i \in DOMAIN back'[m] : back'[m][i] \in DOMAIN kind'[m]
    BY <1>1 DEF AllSealed
  <2>8. \A i \in DOMAIN feed' : Sealed(feed[i])'
    BY <1>1 DEF AllSealed, Sealed
  <2> QED BY <2>3, <2>4, <2>5, <2>6, <2>7, <2>8 DEF AllSealed
<1>11. GoneWhenEnded' /\ NeverMismatched' /\ OthersUnaffected'
  BY <1>1 DEF GoneWhenEnded, NeverMismatched, OthersUnaffected, Ended, Blob
<1> QED BY <1>8, <1>9, <1>10, <1>11

LEMMA FeedAppend ==
  ASSUME IInv, NEW c \in Chunk, Sealed(c), Len(feed) < FeedCap,
         feed' = Append(feed, c), kind' = kind
  PROVE  /\ feed' \in Seq(Chunk) /\ Len(feed') <= FeedCap
         /\ \A i \in DOMAIN feed' : Sealed(feed[i])'
<1>1. feed \in Seq(Chunk)
  BY DEF IInv, TypeOK
<1>2. /\ feed' \in Seq(Chunk) /\ Len(feed') = Len(feed) + 1 /\ Len(feed) \in Nat
      /\ \A i \in DOMAIN feed' : feed'[i] = c \/ \E j \in DOMAIN feed : feed'[i] = feed[j]
  BY <1>1, SeqAppend
<1>3. Len(feed') <= FeedCap
  BY <1>2, FeedAssumption
<1> QED BY <1>2, <1>3 DEF Sealed, IInv, AllSealed

LEMMA PumpSendsKeeps ==
  ASSUME IInv, NEW l \in Lines, PumpSends(l) PROVE IInv'
<1> USE DEF IInv
<1>1. /\ held[l] # <<>> /\ Len(feed) < FeedCap
      /\ feed' = Append(feed, Head(held[l]))
      /\ held' = [held EXCEPT ![l] = <<>>]
      /\ UNCHANGED <<kind, route, net, back, owner, bound, answered, session, stream,
                     queue, got, ending, refused>>
  BY DEF PumpSends, lineVars
<1>2. held \in [Lines -> Seq(Chunk)]
  BY DEF TypeOK
<1>3. Head(held[l]) \in Chunk /\ 1 \in DOMAIN held[l] /\ Head(held[l]) = held[l][1]
  BY <1>1, <1>2, SeqTail
<1>4. Sealed(Head(held[l]))
  BY <1>3 DEF AllSealed
<1>5. /\ feed' \in Seq(Chunk) /\ Len(feed') <= FeedCap
      /\ \A i \in DOMAIN feed' : Sealed(feed[i])'
  BY <1>1, <1>3, <1>4, FeedAppend
<1>6. held' \in [Lines -> Seq(Chunk)] /\ \A m \in Lines : Len(held'[m]) <= 1
  BY <1>1, <1>2 DEF TypeOK
<1>7. TypeOK'
  BY <1>1, <1>5, <1>6 DEF TypeOK, Chunk, Blob
<1>8. AllSealed'
  BY <1>1, <1>2, <1>5 DEF AllSealed, Sealed
<1>9. BoundFirst' /\ GoneWhenEnded' /\ NeverMismatched' /\ OthersUnaffected'
  BY <1>1 DEF BoundFirst, GoneWhenEnded, NeverMismatched, OthersUnaffected, Ended, Blob
<1> QED BY <1>7, <1>8, <1>9

LEMMA RefuseOne ==
  ASSUME IInv, NEW l \in Lines, NEW n \in Blob, NEW why \in Reasons,
         refused' = [refused EXCEPT ![l] = @ \cup {<<n, why>>}]
  PROVE  /\ refused' \in [Lines -> SUBSET (Blob \X Reasons)]
         /\ \A m \in Lines, x \in Blob \X Reasons :
              x \in refused'[m] => x \in refused[m] \/ (m = l /\ x = <<n, why>>)
BY DEF IInv, TypeOK

LEMMA PipeReadsKeeps ==
  ASSUME IInv, NEW l \in Lines, PipeReads(l) PROVE IInv'
<1> USE DEF IInv
<1> DEFINE c == [line |-> l, via |-> "pipe", session |-> "own", blob |-> Head(back[l])]
<1>1. /\ back[l] # <<>>
      /\ back' = [back EXCEPT ![l] = Tail(@)]
      /\ \/ Len(feed) < FeedCap /\ feed' = Append(feed, c) /\ refused' = refused
         \/ /\ refused' = [refused EXCEPT ![l] = @ \cup {<<Head(back[l]), "feed_full">>}]
            /\ feed' = feed
      /\ UNCHANGED <<kind, route, net, owner, bound, answered, held, session, stream,
                     queue, got, ending>>
  BY DEF PipeReads, listenVars, lineVars
<1>2. back \in [Lines -> Seq(Blob)]
  BY DEF TypeOK
<1>3. /\ Head(back[l]) \in Blob /\ Tail(back[l]) \in Seq(Blob)
      /\ 1 \in DOMAIN back[l] /\ Head(back[l]) = back[l][1]
      /\ \A i \in DOMAIN Tail(back[l]) : \E j \in DOMAIN back[l] : Tail(back[l])[i] = back[l][j]
  <2>1. back[l] \in Seq(Blob) /\ back[l] # <<>>
    BY <1>1, <1>2
  <2> QED BY ONLY <2>1, SeqTail
<1>4. c \in Chunk /\ Sealed(c)
  BY <1>3 DEF Chunk, Handle, Route, Sealed, AllSealed
<1> HIDE DEF c
<1>5. /\ feed' \in Seq(Chunk) /\ Len(feed') <= FeedCap
      /\ \A i \in DOMAIN feed' : Sealed(feed[i])'
  <2>1. CASE feed' = feed
    BY <2>1, <1>1 DEF TypeOK, AllSealed, Sealed
  <2>2. CASE Len(feed) < FeedCap /\ feed' = Append(feed, c)
    BY <2>2, <1>1, <1>4, FeedAppend
  <2> QED BY <2>1, <2>2, <1>1
<1>6. /\ refused' \in [Lines -> SUBSET (Blob \X Reasons)]
      /\ \A m \in Lines, x \in Blob \X Reasons :
           x \in refused'[m] => x \in refused[m] \/ x[2] = "feed_full"
  <2>1. CASE refused' = refused
    BY <2>1 DEF TypeOK
  <2>2. CASE refused' = [refused EXCEPT ![l] = @ \cup {<<Head(back[l]), "feed_full">>}]
    <3>1. "feed_full" \in Reasons
      BY DEF Reasons
    <3>2. /\ refused' \in [Lines -> SUBSET (Blob \X Reasons)]
          /\ \A m \in Lines, x \in Blob \X Reasons :
               x \in refused'[m] => x \in refused[m] \/ (m = l /\ x = <<Head(back[l]), "feed_full">>)
      BY <2>2, <3>1, <1>3, RefuseOne
    <3> QED BY <3>2
  <2> QED BY <2>1, <2>2, <1>1
<1>7. TypeOK'
  <2>1. back' \in [Lines -> Seq(Blob)]
    BY <1>1, <1>2, <1>3
  <2> QED BY <2>1, <1>1, <1>5, <1>6 DEF TypeOK, Chunk, Blob, Reasons
<1>8. AllSealed'
  <2>1. \A m \in Lines : \A i \in DOMAIN back'[m] : back'[m][i] \in DOMAIN kind'[m]
    BY <1>1, <1>2, <1>3 DEF AllSealed
  <2> QED BY <2>1, <1>1, <1>5 DEF AllSealed, Sealed
<1>9. NeverMismatched'
  <2>1. \A m \in Lines : owner'[m] # "cancelled"
    BY <1>1 DEF NeverMismatched
  <2>2. ASSUME NEW m \in Lines, NEW x \in Blob
        PROVE  /\ <<x, "mismatch">> \notin refused'[m]
               /\ <<x, "unknown">> \in refused'[m] => Ended(m)'
    <3>1. <<x, "mismatch">> \in Blob \X Reasons /\ <<x, "unknown">> \in Blob \X Reasons
      BY DEF Reasons
    <3> QED BY <3>1, <1>1, <1>6 DEF NeverMismatched, Ended
  <2> QED BY <2>1, <2>2 DEF NeverMismatched, Blob
<1>10. BoundFirst' /\ GoneWhenEnded' /\ OthersUnaffected'
  BY <1>1 DEF BoundFirst, GoneWhenEnded, OthersUnaffected, Ended
<1> QED BY <1>7, <1>8, <1>9, <1>10

LEMMA ApplyKeeps ==
  ASSUME IInv, Apply PROVE IInv'
<1> USE DEF IInv
<1> DEFINE c == Head(feed)
<1> DEFINE why == Reason(c)
<1> DEFINE rejecting == why = "key" \/ (why = "none" /\ KindOf(c) = "reject")
<1>1. /\ feed # <<>> /\ feed' = Tail(feed)
      /\ UNCHANGED <<kind, route, net, back, bound, answered, held, stream, got, ending>>
      /\ owner' = IF why = "mismatch" THEN [owner EXCEPT ![c.line] = "cancelled"] ELSE owner
      /\ session' = IF rejecting THEN Rejected(c) ELSE session
      /\ queue' = IF why = "none" /\ KindOf(c) = "frame"
                    THEN [queue EXCEPT ![c.line] = Append(@, c.blob)] ELSE queue
      /\ refused' = IF why = "none" THEN refused
                    ELSE [refused EXCEPT ![c.line] = @ \cup {<<c.blob, why>>}]
  BY DEF Apply, ApplyChunk
<1>2. feed \in Seq(Chunk)
  BY DEF TypeOK
<1>3. /\ c \in Chunk /\ Tail(feed) \in Seq(Chunk)
      /\ Len(Tail(feed)) = Len(feed) - 1 /\ Len(feed) \in Nat
      /\ 1 \in DOMAIN feed /\ c = feed[1]
      /\ \A i \in DOMAIN Tail(feed) : \E j \in DOMAIN feed : Tail(feed)[i] = feed[j]
  BY <1>1, <1>2, SeqTail
<1>4. Sealed(c)
  BY <1>3 DEF AllSealed
<1>5. c.line \in Lines /\ c.blob \in Blob
  BY <1>3 DEF Chunk
<1> HIDE DEF c
<1>6. kind[c.line] \in Seq(AllKinds) /\ bound[c.line] /\ KindOf(c) \in AllKinds
  <2>1. kind[c.line] \in Seq(AllKinds) /\ c.blob \in DOMAIN kind[c.line]
    BY <1>4, <1>5 DEF TypeOK, Sealed
  <2>2. kind[c.line] # <<>>
    BY <2>1
  <2> QED BY <2>1, <2>2, <1>5 DEF BoundFirst, KindOf
<1>7. c.session = "own" /\ CurrentSession(c.line) = "own"
  BY <1>4, <1>6 DEF Sealed, CurrentSession
<1>8. /\ why \in {"owner", "unknown", "key", "none", "no_stream", "full"}
      /\ why = "unknown" => session[c.line] = "gone"
      /\ why = "key" => KindOf(c) = "bad"
      /\ why = "none" /\ KindOf(c) = "frame" => Len(queue[c.line]) # StreamCap
  BY <1>6, <1>7, FeedAssumption DEF Reason, AllKinds
<1>9. owner' = owner
  BY <1>1, <1>8
<1> HIDE DEF why
<1>10. queue' \in [Lines -> Seq(Blob)] /\ \A l \in Lines : Len(queue'[l]) <= StreamCap
  <2>1. CASE queue' = queue
    BY <2>1 DEF TypeOK
  <2>2. CASE /\ queue' = [queue EXCEPT ![c.line] = Append(@, c.blob)]
             /\ Len(queue[c.line]) # StreamCap
    <3>1. queue \in [Lines -> Seq(Blob)] /\ \A l \in Lines : Len(queue[l]) <= StreamCap
      BY DEF TypeOK
    <3>2. /\ Append(queue[c.line], c.blob) \in Seq(Blob)
          /\ Len(Append(queue[c.line], c.blob)) = Len(queue[c.line]) + 1
          /\ Len(queue[c.line]) \in Nat
      BY <3>1, <1>5, SeqAppend
    <3>3. Len(Append(queue[c.line], c.blob)) <= StreamCap
      BY <3>1, <3>2, <2>2, <1>5, FeedAssumption
    <3> QED BY <2>2, <3>1, <3>2, <3>3, <1>5
  <2> QED BY <2>1, <2>2, <1>1, <1>8
<1>11. session' \in [Lines -> {"live", "rejected", "gone"}]
  BY <1>1 DEF Rejected, TypeOK
<1>12. \A l \in Lines : session'[l] = "rejected" =>
                      session[l] = "rejected" \/ (rejecting /\ l = c.line)
  BY <1>1 DEF Rejected, Rejects, TypeOK
<1>13. /\ refused' \in [Lines -> SUBSET (Blob \X Reasons)]
       /\ \A m \in Lines, x \in Blob \X Reasons :
            x \in refused'[m] => x \in refused[m] \/ (m = c.line /\ x = <<c.blob, why>>)
  <2>1. CASE refused' = refused
    BY <2>1 DEF TypeOK
  <2>2. CASE /\ why # "none"
             /\ refused' = [refused EXCEPT ![c.line] = @ \cup {<<c.blob, why>>}]
    <3>1. why \in Reasons
      BY <2>2, <1>8 DEF Reasons
    <3> QED BY <2>2, <3>1, <1>5, RefuseOne
  <2> QED BY <2>1, <2>2, <1>1
<1>14. TypeOK'
  <2>1. feed' \in Seq(Chunk) /\ Len(feed') <= FeedCap
    <3>1. Len(feed) <= FeedCap
      BY DEF TypeOK
    <3> QED BY <3>1, <1>1, <1>3, FeedAssumption
  <2> QED BY <2>1, <1>1, <1>9, <1>10, <1>11, <1>13 DEF TypeOK, Chunk, Blob, Reasons
<1>15. AllSealed'
  BY <1>1, <1>3 DEF AllSealed, Sealed
<1>16. BoundFirst' /\ GoneWhenEnded'
  <2>1. BoundFirst'
    BY <1>1 DEF BoundFirst
  <2>2. \A m \in Lines : session'[m] = "gone" => session[m] = "gone"
    BY <1>1 DEF Rejected, TypeOK
  <2>3. ending' = ending
    BY <1>1
  <2>4. GoneWhenEnded'
    BY <2>2, <2>3 DEF GoneWhenEnded, Ended
  <2> QED BY <2>1, <2>4
<1>17. NeverMismatched'
  <2>1. \A m \in Lines : owner'[m] # "cancelled"
    BY <1>9 DEF NeverMismatched
  <2>2. ASSUME NEW m \in Lines, NEW x \in Blob
        PROVE  /\ <<x, "mismatch">> \notin refused'[m]
               /\ <<x, "unknown">> \in refused'[m] => Ended(m)'
    <3>1. <<x, "mismatch">> \in Blob \X Reasons /\ <<x, "unknown">> \in Blob \X Reasons
      BY DEF Reasons
    <3>2. <<x, "mismatch">> \notin refused'[m]
      BY <3>1, <1>8, <1>13 DEF NeverMismatched
    <3>3. ASSUME <<x, "unknown">> \in refused'[m] PROVE Ended(m)'
      <4>1. CASE <<x, "unknown">> \in refused[m]
        BY <4>1, <1>1 DEF NeverMismatched, Ended
      <4>2. CASE m = c.line /\ why = "unknown"
        BY <4>2, <1>8, <1>1 DEF GoneWhenEnded, Ended
      <4> QED BY <4>1, <4>2, <3>1, <3>3, <1>13
    <3> QED BY <3>2, <3>3
  <2> QED BY <2>1, <2>2 DEF NeverMismatched, Blob
<1>18. OthersUnaffected'
  <2> SUFFICES ASSUME NEW m \in Lines, session'[m] = "rejected"
               PROVE  \E i \in DOMAIN kind'[m] : kind'[m][i] \in {"reject", "bad"}
    BY DEF OthersUnaffected
  <2>1. CASE session[m] = "rejected"
    BY <2>1, <1>1 DEF OthersUnaffected
  <2>2. CASE rejecting /\ m = c.line
    BY <2>2, <1>1, <1>4, <1>8 DEF Sealed, KindOf
  <2> QED BY <2>1, <2>2, <1>12
<1> QED BY <1>14, <1>15, <1>16, <1>17, <1>18

LEMMA TakesKeeps ==
  ASSUME IInv, NEW l \in Lines, Takes(l) PROVE IInv'
<1> USE DEF IInv
<1>1. /\ queue[l] # <<>>
      /\ got' = [got EXCEPT ![l] = Append(@, Head(queue[l]))]
      /\ queue' = [queue EXCEPT ![l] = Tail(@)]
      /\ UNCHANGED <<kind, route, net, back, owner, bound, answered, held, feed, session,
                     stream, ending, refused>>
  BY DEF Takes, listenVars
<1>2. /\ queue \in [Lines -> Seq(Blob)] /\ got \in [Lines -> Seq(Blob)]
      /\ \A m \in Lines : Len(queue[m]) <= StreamCap
  BY DEF TypeOK
<1>3. /\ Head(queue[l]) \in Blob /\ Tail(queue[l]) \in Seq(Blob)
      /\ Len(Tail(queue[l])) = Len(queue[l]) - 1 /\ Len(queue[l]) \in Nat
  BY <1>1, <1>2, SeqTail
<1>4. Append(got[l], Head(queue[l])) \in Seq(Blob)
  BY <1>2, <1>3, SeqAppend
<1>5. Len(Tail(queue[l])) <= StreamCap
  BY <1>2, <1>3, FeedAssumption
<1>6. /\ queue' \in [Lines -> Seq(Blob)] /\ got' \in [Lines -> Seq(Blob)]
      /\ \A m \in Lines : Len(queue'[m]) <= StreamCap
  BY <1>1, <1>2, <1>3, <1>4, <1>5
<1>7. TypeOK'
  BY <1>1, <1>6 DEF TypeOK, Chunk, Blob
<1>8. BoundFirst' /\ AllSealed' /\ GoneWhenEnded'
  BY <1>1 DEF BoundFirst, AllSealed, Sealed, GoneWhenEnded, Ended
<1>9. NeverMismatched' /\ OthersUnaffected'
  BY <1>1 DEF NeverMismatched, OthersUnaffected, Ended, Blob
<1> QED BY <1>7, <1>8, <1>9

LEMMA EndsKeeps ==
  ASSUME IInv, NEW l \in Lines, Ends(l) PROVE IInv'
<1> USE DEF IInv
<1>1. /\ ending' = [ending EXCEPT ![l] = 1]
      /\ queue' = [queue EXCEPT ![l] = <<>>]
      /\ UNCHANGED <<kind, route, net, back, owner, bound, answered, held, feed, session,
                     stream, got, refused>>
  BY DEF Ends, listenVars
<1>2. /\ queue' \in [Lines -> Seq(Blob)] /\ ending' \in [Lines -> 0 .. 4]
      /\ \A m \in Lines : Len(queue'[m]) <= StreamCap
  BY <1>1, FeedAssumption DEF TypeOK
<1>3. \A m \in Lines : Ended(m) => Ended(m)'
  BY <1>1 DEF Ended, TypeOK
<1>4. TypeOK'
  BY <1>1, <1>2 DEF TypeOK, Chunk, Blob
<1>5. BoundFirst' /\ AllSealed' /\ GoneWhenEnded'
  BY <1>1, <1>3 DEF BoundFirst, AllSealed, Sealed, GoneWhenEnded
<1>6. NeverMismatched' /\ OthersUnaffected'
  BY <1>1, <1>3 DEF NeverMismatched, OthersUnaffected, Blob
<1> QED BY <1>4, <1>5, <1>6

LEMMA RemovesKeeps ==
  ASSUME IInv, NEW l \in Lines, Removes(l) PROVE IInv'
<1> USE DEF IInv
<1> DEFINE lost == (Elements(net[l]) \cup {c.blob : c \in Elements(held[l])}) \X {"aborted"}
<1>1. /\ ending[l] \in 1 .. 3 /\ ending' = [ending EXCEPT ![l] = @ + 1]
      /\ \/ stream' = stream \/ stream' = [stream EXCEPT ![l] = FALSE]
      /\ \/ session' = session \/ session' = [session EXCEPT ![l] = "gone"]
      /\ \/ /\ owner' = owner /\ refused' = refused /\ net' = net /\ held' = held
         \/ /\ owner' = [owner EXCEPT ![l] = "none"]
            /\ refused' = [refused EXCEPT ![l] = @ \cup lost]
            /\ net' = [net EXCEPT ![l] = <<>>] /\ held' = [held EXCEPT ![l] = <<>>]
      /\ UNCHANGED <<kind, route, back, bound, answered, feed, queue, got>>
  BY DEF Removes
<1>2. lost \subseteq Blob \X Reasons /\ \A x \in lost : x[2] = "aborted"
  <2>1. net[l] \in Seq(Blob) /\ held[l] \in Seq(Chunk)
    BY DEF TypeOK
  <2>2. Elements(net[l]) \subseteq Blob
    BY <2>1 DEF Elements
  <2>3. \A c \in Elements(held[l]) : c \in Chunk
    BY <2>1 DEF Elements
  <2>4. \A c \in Elements(held[l]) : c.blob \in Blob
    BY <2>3 DEF Chunk
  <2> QED BY <2>2, <2>4 DEF Reasons
<1> HIDE DEF lost
<1>3. ending' \in [Lines -> 0 .. 4] /\ \A m \in Lines : Ended(m) => Ended(m)'
  BY <1>1 DEF TypeOK, Ended
<1>4. Ended(l)'
  BY <1>1 DEF TypeOK, Ended
<1>5. /\ refused' \in [Lines -> SUBSET (Blob \X Reasons)]
      /\ \A m \in Lines, x \in Blob \X Reasons :
           x \in refused'[m] => x \in refused[m] \/ x[2] = "aborted"
  <2>1. refused \in [Lines -> SUBSET (Blob \X Reasons)]
    BY DEF TypeOK
  <2>2. CASE refused' = refused
    BY <2>1, <2>2
  <2>3. CASE refused' = [refused EXCEPT ![l] = @ \cup lost]
    <3>1. \A m \in Lines : refused'[m] = IF m = l THEN refused[l] \cup lost ELSE refused[m]
      BY <2>1, <2>3
    <3>2. refused' \in [Lines -> SUBSET (Blob \X Reasons)]
      BY <2>1, <2>3, <1>2
    <3> QED BY <3>1, <3>2, <1>2
  <2> QED BY <2>2, <2>3, <1>1
<1>6. /\ net' \in [Lines -> Seq(Blob)] /\ held' \in [Lines -> Seq(Chunk)]
      /\ \A m \in Lines : Len(held'[m]) <= 1
      /\ \A m \in Lines : /\ net'[m] = net[m] \/ net'[m] = <<>>
                          /\ held'[m] = held[m] \/ held'[m] = <<>>
  <2>1. /\ net \in [Lines -> Seq(Blob)] /\ held \in [Lines -> Seq(Chunk)]
        /\ \A m \in Lines : Len(held[m]) <= 1
    BY DEF TypeOK
  <2>2. CASE net' = net /\ held' = held
    BY <2>1, <2>2
  <2>3. CASE net' = [net EXCEPT ![l] = <<>>] /\ held' = [held EXCEPT ![l] = <<>>]
    BY <2>1, <2>3
  <2> QED BY <2>2, <2>3, <1>1
<1>7. /\ owner' \in [Lines -> {"up", "cancelled", "none"}]
      /\ stream' \in [Lines -> BOOLEAN]
      /\ session' \in [Lines -> {"live", "rejected", "gone"}]
  BY <1>1 DEF TypeOK
<1>8. TypeOK'
  BY <1>1, <1>3, <1>5, <1>6, <1>7 DEF TypeOK, Chunk, Blob, Reasons
<1>9. BoundFirst'
  BY <1>1 DEF BoundFirst
<1>10. AllSealed'
  BY <1>1, <1>6 DEF AllSealed, Sealed
<1>11. GoneWhenEnded'
  BY <1>1, <1>3, <1>4 DEF GoneWhenEnded, TypeOK
<1>12. NeverMismatched'
  <2>1. \A m \in Lines : owner'[m] # "cancelled"
    BY <1>1 DEF NeverMismatched, TypeOK
  <2>2. ASSUME NEW m \in Lines, NEW x \in Blob
        PROVE  /\ <<x, "mismatch">> \notin refused'[m]
               /\ <<x, "unknown">> \in refused'[m] => Ended(m)'
    <3>1. <<x, "mismatch">> \in Blob \X Reasons /\ <<x, "unknown">> \in Blob \X Reasons
      BY DEF Reasons
    <3> QED BY <3>1, <1>3, <1>5 DEF NeverMismatched
  <2> QED BY <2>1, <2>2 DEF NeverMismatched, Blob
<1>13. OthersUnaffected'
  BY <1>1 DEF OthersUnaffected, TypeOK
<1> QED BY <1>8, <1>9, <1>10, <1>11, <1>12, <1>13

LEMMA StutterKeeps ==
  ASSUME IInv, UNCHANGED vars PROVE IInv'
<1> USE DEF IInv, vars, listenVars, lineVars
<1>1. TypeOK'
  BY DEF TypeOK, Chunk, Blob
<1>2. BoundFirst' /\ AllSealed' /\ GoneWhenEnded'
  BY DEF BoundFirst, AllSealed, Sealed, GoneWhenEnded, Ended
<1>3. NeverMismatched' /\ OthersUnaffected'
  BY DEF NeverMismatched, OthersUnaffected, Ended
<1> QED BY <1>1, <1>2, <1>3

LEMMA NextKeeps ==
  ASSUME IInv, [Next]_vars PROVE IInv'
<1>1. CASE Apply
  BY <1>1, ApplyKeeps
<1>2. ASSUME NEW l \in Lines, BindSession(l) \/ Answer(l) \/ PeerSends(l) PROVE IInv'
  BY <1>2, BindSessionKeeps, AnswerKeeps, PeerSendsKeeps
<1>3. ASSUME NEW l \in Lines, PumpReads(l) \/ PumpSends(l) \/ PipeReads(l) PROVE IInv'
  BY <1>3, PumpReadsKeeps, PumpSendsKeeps, PipeReadsKeeps
<1>4. ASSUME NEW l \in Lines, Takes(l) \/ Ends(l) \/ Removes(l) PROVE IInv'
  BY <1>4, TakesKeeps, EndsKeeps, RemovesKeeps
<1>5. CASE UNCHANGED vars
  BY <1>5, StutterKeeps
<1> QED BY <1>1, <1>2, <1>3, <1>4, <1>5 DEF Next

LEMMA Inductive == Spec => []IInv
BY InitEstablishes, NextKeeps, PTL DEF Spec

-----------------------------------------------------------------------------

(* The queues of the daemon keep their capacities, and a pump holds at most *)
(* one chunk: send().await and try_send (listen.rs:893-965).                *)
THEOREM TypeCorrect == Spec => []TypeOK
<1>1. IInv => TypeOK
  BY DEF IInv
<1> QED BY <1>1, Inductive, PTL

(* Binding the listen before the accept goes out is enough: no blob an      *)
(* honest peer seals for the line finds another handle on the listen, or no *)
(* session while the line lives (client.rs:953, 1574).                      *)
THEOREM BoundBeforeStamped == Spec => []NeverMismatched
<1>1. IInv => NeverMismatched
  BY DEF IInv
<1> QED BY <1>1, Inductive, PTL

(* Rejecting by session id, for any number of lines behind the one queue,   *)
(* keeps each line's rejection to the blobs of that line (client.rs:2031).  *)
THEOREM RejectsItsOwn == Spec => []OthersUnaffected
<1>1. IInv => OthersUnaffected
  BY DEF IInv
<1> QED BY <1>1, Inductive, PTL

-----------------------------------------------------------------------------
(* Order and loss: got, the stream queue, the inbound queue, the pump and   *)
(* the listen are five stages of one way.                                   *)

\* Blobs in the order they were sealed: the numbers in a sequence rise, and
\* those of one stage are below those of the stages behind it.
Rising(s) == \A i, j \in DOMAIN s : i < j => s[i] < s[j]
Below(S, T) == \A a \in S, b \in T : a < b

\* What came by the listen of l and is in the inbound queue, or at the pump.
FromListen(f, l) == {i \in DOMAIN f : f[i].line = l /\ f[i].via = "sse"}
Fed(f, l) == {f[i].blob : i \in FromListen(f, l)}
FedRises(f, l) == \A i, j \in FromListen(f, l) : i < j => f[i].blob < f[j].blob
Pumped(h) == {c.blob : c \in Elements(h)}

\* g taken, q queued, F fed, H pumped, n still on the listen.
Staged(g, q, F, H, n) ==
  /\ Rising(g) /\ Rising(q) /\ Rising(n)
  /\ Below(Elements(g), Elements(q) \cup F \cup H \cup Elements(n))
  /\ Below(Elements(q), F \cup H \cup Elements(n))
  /\ Below(F, H \cup Elements(n)) /\ Below(H, Elements(n))

StagedInOrder(l) ==
  /\ Staged(got[l], queue[l], Fed(feed, l), Pumped(held[l]), net[l])
  /\ FedRises(feed, l)

\* Only what was sealed is taken, the pump holds chunks of the listen, and
\* every blob has its route.
Accounted(l) ==
  /\ Elements(got[l]) \cup Elements(queue[l]) \subseteq DOMAIN kind[l]
  /\ \A i \in DOMAIN held[l] : held[l][i].via = "sse"
  /\ Len(route[l]) = Len(kind[l])

OnTheWay(l) ==
  Elements(net[l]) \cup Pumped(held[l]) \cup Fed(feed, l)
    \cup Elements(queue[l]) \cup Elements(got[l])

\* While the line lives its listen and its queue are there, and each frame of
\* the listen is on the way, taken, or refused by the full queue.
Lossless(l) ==
  ~Ended(l) =>
    /\ owner[l] # "none" /\ stream[l]
    /\ \A n \in DOMAIN kind[l] :
         (route[l][n] = "sse" /\ kind[l][n] = "frame") =>
            n \in OnTheWay(l) \/ <<n, "full">> \in refused[l]

Delivery == \A l \in Lines : StagedInOrder(l) /\ Accounted(l) /\ Lossless(l)

LEMMA ElementsOfEmpty == Elements(<<>>) = {} /\ Rising(<<>>)
BY DEF Elements, Rising

LEMMA RisingAppend ==
  ASSUME NEW S, NEW s \in Seq(S), NEW x \in S, Rising(s), Below(Elements(s), {x})
  PROVE  /\ Rising(Append(s, x)) /\ Elements(Append(s, x)) = Elements(s) \cup {x}
<1> DEFINE a == Append(s, x)
<1>1. /\ DOMAIN a = 1 .. (Len(s) + 1) /\ DOMAIN s = 1 .. Len(s) /\ Len(s) \in Nat
      /\ \A i \in DOMAIN s : i \in DOMAIN a /\ a[i] = s[i]
      /\ a[Len(s) + 1] = x
  BY SeqAppend
<1> HIDE DEF a
<1>2. ASSUME NEW i \in DOMAIN a, NEW j \in DOMAIN a, i < j PROVE a[i] < a[j]
  <2>1. i \in DOMAIN s /\ a[i] = s[i]
    BY <1>1, <1>2
  <2>2. CASE j \in DOMAIN s
    BY <2>1, <2>2, <1>1, <1>2 DEF Rising
  <2>3. CASE j = Len(s) + 1
    BY <2>1, <2>3, <1>1 DEF Below, Elements
  <2> QED BY <2>2, <2>3, <1>1
<1>3. Elements(a) = Elements(s) \cup {x}
  <2>1. \A i \in DOMAIN a : i \in DOMAIN s \/ i = Len(s) + 1
    BY <1>1
  <2>2. Len(s) + 1 \in DOMAIN a
    BY <1>1
  <2> QED BY <2>1, <2>2, <1>1 DEF Elements
<1> QED BY <1>2, <1>3 DEF Rising, a

LEMMA RisingTail ==
  ASSUME NEW S, NEW s \in Seq(S), s # <<>>, Rising(s)
  PROVE  /\ Rising(Tail(s)) /\ Elements(s) = {Head(s)} \cup Elements(Tail(s))
         /\ Below({Head(s)}, Elements(Tail(s)))
<1> DEFINE t == Tail(s)
<1>1. /\ Len(t) = Len(s) - 1 /\ t \in Seq(S)
      /\ \A k \in 1 .. Len(t) : t[k] = s[k + 1]
  BY HeadTailProperties
<1>2. /\ DOMAIN s = 1 .. Len(s) /\ DOMAIN t = 1 .. Len(t) /\ Len(s) \in Nat /\ Len(s) > 0
      /\ Head(s) = s[1]
  BY <1>1, LenProperties, EmptySeq
<1> HIDE DEF t
<1>3. \A i \in DOMAIN t : i + 1 \in DOMAIN s /\ t[i] = s[i + 1] /\ i \in Nat
  BY <1>1, <1>2
<1>4. \A i \in DOMAIN s : i = 1 \/ (i - 1 \in DOMAIN t /\ s[i] = t[i - 1])
  BY <1>1, <1>2
<1>5. 1 \in DOMAIN s
  BY <1>2
<1>6. Rising(t)
  <2> SUFFICES ASSUME NEW i \in DOMAIN t, NEW j \in DOMAIN t, i < j PROVE t[i] < t[j]
    BY DEF Rising
  <2>1. i + 1 < j + 1
    BY <1>3
  <2> QED BY <2>1, <1>3 DEF Rising
<1>7. Elements(s) = {Head(s)} \cup Elements(t)
  BY <1>2, <1>3, <1>4, <1>5 DEF Elements
<1>8. \A i \in DOMAIN t : s[1] < t[i]
  <2> SUFFICES ASSUME NEW i \in DOMAIN t PROVE s[1] < s[i + 1]
    BY <1>3
  <2>1. i \in Nat /\ i >= 1
    BY <1>1, <1>2
  <2> QED BY <2>1, <1>3, <1>5 DEF Rising
<1> QED BY <1>2, <1>6, <1>7, <1>8 DEF Below, Elements, t

LEMMA RisingConcat ==
  ASSUME NEW S, NEW s \in Seq(S), NEW t \in Seq(S),
         Rising(s), Rising(t), Below(Elements(s), Elements(t))
  PROVE  Rising(s \o t) /\ Elements(s \o t) = Elements(s) \cup Elements(t)
<1> DEFINE u == s \o t
<1>1. /\ u \in Seq(S) /\ Len(u) = Len(s) + Len(t)
      /\ \A i \in 1 .. Len(u) : u[i] = IF i <= Len(s) THEN s[i] ELSE t[i - Len(s)]
  BY ConcatProperties
<1>2. /\ DOMAIN u = 1 .. Len(u) /\ DOMAIN s = 1 .. Len(s) /\ DOMAIN t = 1 .. Len(t)
      /\ Len(s) \in Nat /\ Len(t) \in Nat
  BY <1>1, LenProperties
<1> HIDE DEF u
<1>3. \A i \in DOMAIN u : \/ i \in DOMAIN s /\ u[i] = s[i] /\ i <= Len(s)
                          \/ i - Len(s) \in DOMAIN t /\ u[i] = t[i - Len(s)] /\ i > Len(s)
  BY <1>1, <1>2
<1>4. \A i \in DOMAIN s : i \in DOMAIN u /\ u[i] = s[i]
  BY <1>1, <1>2
<1>5. \A i \in DOMAIN t : i + Len(s) \in DOMAIN u /\ u[i + Len(s)] = t[i]
  BY <1>1, <1>2
<1>6. Rising(u)
  <2> SUFFICES ASSUME NEW i \in DOMAIN u, NEW j \in DOMAIN u, i < j PROVE u[i] < u[j]
    BY DEF Rising
  <2>0. i \in Nat /\ j \in Nat
    BY <1>2
  <2>1. CASE i <= Len(s) /\ j <= Len(s)
    BY <2>0, <2>1, <1>2, <1>3 DEF Rising
  <2>2. CASE i <= Len(s) /\ j > Len(s)
    <3>1. i \in DOMAIN s /\ u[i] = s[i] /\ j - Len(s) \in DOMAIN t /\ u[j] = t[j - Len(s)]
      BY <2>0, <2>2, <1>2, <1>3
    <3> QED BY <3>1 DEF Below, Elements
  <2>3. CASE i > Len(s) /\ j > Len(s)
    <3>1. /\ i - Len(s) \in DOMAIN t /\ u[i] = t[i - Len(s)]
          /\ j - Len(s) \in DOMAIN t /\ u[j] = t[j - Len(s)]
      BY <2>0, <2>3, <1>2, <1>3
    <3>2. i - Len(s) < j - Len(s)
      BY <2>0, <1>2
    <3> QED BY <3>1, <3>2 DEF Rising
  <2> QED BY <2>0, <2>1, <2>2, <2>3, <1>2
<1>7. Elements(u) = Elements(s) \cup Elements(t)
  BY <1>3, <1>4, <1>5 DEF Elements
<1> QED BY <1>6, <1>7 DEF u

LEMMA FedAppend ==
  ASSUME NEW f \in Seq(Chunk), NEW c \in Chunk, NEW l \in Lines,
         FedRises(f, l), c.line = l /\ c.via = "sse" => Below(Fed(f, l), {c.blob})
  PROVE  /\ FedRises(Append(f, c), l)
         /\ c.line = l /\ c.via = "sse" => Fed(Append(f, c), l) = Fed(f, l) \cup {c.blob}
         /\ ~(c.line = l /\ c.via = "sse") => Fed(Append(f, c), l) = Fed(f, l)
<1> DEFINE a == Append(f, c)
<1>1. /\ DOMAIN a = 1 .. (Len(f) + 1) /\ DOMAIN f = 1 .. Len(f) /\ Len(f) \in Nat
      /\ \A i \in DOMAIN f : i \in DOMAIN a /\ a[i] = f[i]
      /\ a[Len(f) + 1] = c
  BY SeqAppend
<1> HIDE DEF a
<1>2. \A i \in DOMAIN a : i \in DOMAIN f \/ i = Len(f) + 1
  BY <1>1
<1>3. Len(f) + 1 \in DOMAIN a
  BY <1>1
<1>4. FromListen(a, l) = IF c.line = l /\ c.via = "sse" THEN FromListen(f, l) \cup {Len(f) + 1}
                         ELSE FromListen(f, l)
  BY <1>1, <1>2, <1>3 DEF FromListen
<1>5. \A i \in FromListen(f, l) : a[i] = f[i] /\ i < Len(f) + 1 /\ i \in Nat
  BY <1>1 DEF FromListen
<1>6. /\ c.line = l /\ c.via = "sse" => Fed(a, l) = Fed(f, l) \cup {c.blob}
      /\ ~(c.line = l /\ c.via = "sse") => Fed(a, l) = Fed(f, l)
  <2>1. CASE c.line = l /\ c.via = "sse"
    BY <2>1, <1>1, <1>4, <1>5 DEF Fed
  <2>2. CASE ~(c.line = l /\ c.via = "sse")
    BY <2>2, <1>4, <1>5 DEF Fed
  <2> QED BY <2>1, <2>2
<1>7. FedRises(a, l)
  <2> SUFFICES ASSUME NEW i \in FromListen(a, l), NEW j \in FromListen(a, l), i < j
               PROVE  a[i].blob < a[j].blob
    BY DEF FedRises
  <2>1. i \in FromListen(f, l)
    BY <1>1, <1>4, <1>5, <1>2 DEF FromListen
  <2>2. CASE j \in FromListen(f, l)
    BY <2>1, <2>2, <1>5 DEF FedRises
  <2>3. CASE c.line = l /\ c.via = "sse" /\ j = Len(f) + 1
    BY <2>1, <2>3, <1>1, <1>5 DEF Below, Fed
  <2> QED BY <2>2, <2>3, <1>4
<1> QED BY <1>6, <1>7 DEF a

LEMMA FedTail ==
  ASSUME NEW f \in Seq(Chunk), f # <<>>, NEW l \in Lines, FedRises(f, l)
  PROVE  /\ FedRises(Tail(f), l)
         /\ Head(f).line = l /\ Head(f).via = "sse" =>
              /\ Fed(f, l) = Fed(Tail(f), l) \cup {Head(f).blob}
              /\ Below({Head(f).blob}, Fed(Tail(f), l))
         /\ ~(Head(f).line = l /\ Head(f).via = "sse") => Fed(f, l) = Fed(Tail(f), l)
<1> DEFINE t == Tail(f)
           own == Head(f).line = l /\ Head(f).via = "sse"
<1>1. /\ Len(t) = Len(f) - 1 /\ t \in Seq(Chunk)
      /\ \A k \in 1 .. Len(t) : t[k] = f[k + 1]
  BY HeadTailProperties
<1>2. /\ DOMAIN f = 1 .. Len(f) /\ DOMAIN t = 1 .. Len(t) /\ Len(f) \in Nat /\ Len(f) > 0
      /\ Head(f) = f[1]
  BY <1>1, LenProperties, EmptySeq
<1> HIDE DEF t
<1>3. \A i \in FromListen(t, l) : /\ i + 1 \in FromListen(f, l) /\ t[i] = f[i + 1]
                                  /\ i \in Nat /\ i >= 1
  BY <1>1, <1>2 DEF FromListen
<1>4. \A i \in FromListen(f, l) :
        (i = 1 /\ own) \/ (i - 1 \in FromListen(t, l) /\ f[i] = t[i - 1])
  BY <1>1, <1>2 DEF FromListen
<1>5. own => 1 \in FromListen(f, l)
  BY <1>2 DEF FromListen
<1>6. FedRises(t, l)
  <2> SUFFICES ASSUME NEW i \in FromListen(t, l), NEW j \in FromListen(t, l), i < j
               PROVE  t[i].blob < t[j].blob
    BY DEF FedRises
  <2>1. i + 1 < j + 1
    BY <1>3
  <2> QED BY <2>1, <1>3 DEF FedRises
<1>7. \A b : b \in Fed(t, l) => b \in Fed(f, l)
  BY <1>3 DEF Fed
<1>8. \A b : b \in Fed(f, l) => b \in Fed(t, l) \/ (own /\ b = Head(f).blob)
  BY <1>2, <1>4 DEF Fed
<1>9. own => Head(f).blob \in Fed(f, l)
  BY <1>2, <1>5 DEF Fed
<1>10. own => Below({Head(f).blob}, Fed(t, l))
  <2> SUFFICES ASSUME own, NEW i \in FromListen(t, l) PROVE f[1].blob < t[i].blob
    BY <1>2 DEF Below, Fed
  <2>1. 1 < i + 1
    BY <1>3
  <2> QED BY <2>1, <1>3, <1>5 DEF FedRises
<1>11. own => Fed(f, l) = Fed(t, l) \cup {Head(f).blob}
  BY <1>7, <1>8, <1>9
<1>12. ~own => Fed(f, l) = Fed(t, l)
  BY <1>7, <1>8
<1> QED BY <1>6, <1>10, <1>11, <1>12 DEF t

-----------------------------------------------------------------------------
(* One blob moves on from stage to stage.                                   *)

LEMMA StageSend ==
  ASSUME NEW g \in Seq(Blob), NEW q \in Seq(Blob), NEW F, NEW H, NEW n \in Seq(Blob),
         NEW x \in Blob, Staged(g, q, F, H, n),
         Below(Elements(g) \cup Elements(q) \cup F \cup H \cup Elements(n), {x})
  PROVE  Staged(g, q, F, H, Append(n, x))
<1>1. Rising(n) /\ Below(Elements(n), {x})
  BY DEF Staged, Below
<1>2. Rising(Append(n, x)) /\ Elements(Append(n, x)) = Elements(n) \cup {x}
  BY <1>1, RisingAppend
<1> QED BY <1>2 DEF Staged, Below

LEMMA StagePump ==
  ASSUME NEW g \in Seq(Blob), NEW q \in Seq(Blob), NEW F, NEW n \in Seq(Blob), n # <<>>,
         Staged(g, q, F, {}, n)
  PROVE  Staged(g, q, F, {Head(n)}, Tail(n))
<1>1. /\ Rising(Tail(n)) /\ Elements(n) = {Head(n)} \cup Elements(Tail(n))
      /\ Below({Head(n)}, Elements(Tail(n)))
  BY RisingTail DEF Staged
<1> QED BY <1>1 DEF Staged, Below

LEMMA StageFeed ==
  ASSUME NEW g, NEW q, NEW F, NEW b, NEW n, Staged(g, q, F, {b}, n)
  PROVE  Staged(g, q, F \cup {b}, {}, n)
BY DEF Staged, Below

LEMMA StageLess ==
  ASSUME NEW g, NEW q, NEW F, NEW H, NEW n, NEW b, Staged(g, q, F \cup {b}, H, n)
  PROVE  Staged(g, q, F, H, n)
BY DEF Staged, Below

LEMMA StageApply ==
  ASSUME NEW g \in Seq(Blob), NEW q \in Seq(Blob), NEW F, NEW H, NEW n, NEW b \in Blob,
         Staged(g, q, F \cup {b}, H, n), Below({b}, F)
  PROVE  Staged(g, Append(q, b), F, H, n)
<1>1. Rising(q) /\ Below(Elements(q), {b})
  BY DEF Staged, Below
<1>2. Rising(Append(q, b)) /\ Elements(Append(q, b)) = Elements(q) \cup {b}
  BY <1>1, RisingAppend
<1> QED BY <1>2 DEF Staged, Below

LEMMA StageTake ==
  ASSUME NEW g \in Seq(Blob), NEW q \in Seq(Blob), q # <<>>, NEW F, NEW H, NEW n,
         Staged(g, q, F, H, n)
  PROVE  Staged(Append(g, Head(q)), Tail(q), F, H, n)
<1>1. Head(q) \in Blob
  BY SeqTail
<1>2. /\ Rising(Tail(q)) /\ Elements(q) = {Head(q)} \cup Elements(Tail(q))
      /\ Below({Head(q)}, Elements(Tail(q)))
  BY RisingTail DEF Staged
<1>3. Rising(g) /\ Below(Elements(g), {Head(q)})
  BY <1>2 DEF Staged, Below
<1>4. /\ Rising(Append(g, Head(q)))
      /\ Elements(Append(g, Head(q))) = Elements(g) \cup {Head(q)}
  BY <1>1, <1>3, RisingAppend
<1> QED BY <1>2, <1>4 DEF Staged, Below

LEMMA StageEnd ==
  ASSUME NEW g, NEW q, NEW F, NEW H, NEW n, Staged(g, q, F, H, n)
  PROVE  Staged(g, <<>>, F, H, n) /\ Staged(g, q, F, {}, <<>>)
BY ElementsOfEmpty DEF Staged, Below

LEMMA PumpedOne == \A c : Pumped(<<c>>) = {c.blob}
BY DEF Pumped, Elements

LEMMA PumpedNone == Pumped(<<>>) = {}
BY DEF Pumped, Elements

-----------------------------------------------------------------------------
(* Each step keeps the order of every line and loses none of its frames.    *)

LEMMA DeliveryInit == Init => Delivery
<1> SUFFICES ASSUME Init, NEW l \in Lines PROVE StagedInOrder(l) /\ Accounted(l) /\ Lossless(l)
  BY DEF Delivery
<1>1. /\ kind[l] = <<>> /\ route[l] = <<>> /\ net[l] = <<>> /\ held[l] = <<>> /\ feed = <<>>
      /\ queue[l] = <<>> /\ got[l] = <<>> /\ owner[l] = "up" /\ stream[l]
  BY DEF Init
<1>2. FromListen(feed, l) = {} /\ Fed(feed, l) = {} /\ Pumped(held[l]) = {}
  BY <1>1, PumpedNone DEF FromListen, Fed
<1>3. StagedInOrder(l)
  BY <1>1, <1>2, ElementsOfEmpty DEF StagedInOrder, Staged, Below, FedRises
<1>4. Accounted(l) /\ Lossless(l)
  BY <1>1, ElementsOfEmpty DEF Accounted, Lossless
<1> QED BY <1>3, <1>4

\* What a line's delivery depends on; a step that changes none of it keeps it.
LEMMA SameLine ==
  ASSUME Delivery, NEW l \in Lines,
         UNCHANGED <<kind[l], route[l], net[l], held[l], queue[l], got[l], ending[l],
                     owner[l], stream[l]>>,
         Fed(feed', l) = Fed(feed, l), FedRises(feed', l),
         refused[l] \subseteq refused'[l]
  PROVE  (StagedInOrder(l) /\ Accounted(l) /\ Lossless(l))'
<1>1. StagedInOrder(l) /\ Accounted(l) /\ Lossless(l)
  BY DEF Delivery
<1>2. StagedInOrder(l)'
  BY <1>1 DEF StagedInOrder
<1>3. Accounted(l)'
  BY <1>1 DEF Accounted
<1>4. Lossless(l)'
  BY <1>1 DEF Lossless, OnTheWay, Ended
<1> QED BY <1>2, <1>3, <1>4

LEMMA SettingUpDelivers ==
  ASSUME Delivery, UNCHANGED <<kind, route, net, held, feed, queue, got, ending,
                               owner, stream, refused>>
  PROVE  Delivery'
<1> SUFFICES ASSUME NEW m \in Lines
             PROVE  (StagedInOrder(m) /\ Accounted(m) /\ Lossless(m))'
  BY DEF Delivery
<1>1. FedRises(feed', m)
  BY DEF Delivery, StagedInOrder
<1> QED BY <1>1, SameLine

\* Everything on the way was sealed.
LEMMA SealedBelow ==
  ASSUME IInv, Delivery, NEW l \in Lines
  PROVE  OnTheWay(l) \subseteq DOMAIN kind[l]
<1>1. Elements(net[l]) \subseteq DOMAIN kind[l]
  BY DEF IInv, AllSealed, Elements
<1>2. Pumped(held[l]) \subseteq DOMAIN kind[l]
  BY DEF IInv, AllSealed, Sealed, Pumped, Elements
<1>3. Fed(feed, l) \subseteq DOMAIN kind[l]
  BY DEF IInv, AllSealed, Sealed, Fed, FromListen
<1> QED BY <1>1, <1>2, <1>3 DEF OnTheWay, Delivery, Accounted

LEMMA PeerSendsDelivers ==
  ASSUME IInv, Delivery, NEW l \in Lines, PeerSends(l) PROVE Delivery'
<1> DEFINE n == Len(kind[l]) + 1
<1>1. PICK k \in AllKinds, r \in Routes(l) :
        /\ kind' = [kind EXCEPT ![l] = Append(@, k)]
        /\ route' = [route EXCEPT ![l] = Append(@, r)]
        /\ \/ r = "sse" /\ net' = [net EXCEPT ![l] = Append(@, n)]
           \/ r = "pipe" /\ net' = net
  BY FeedAssumption DEF PeerSends
<1>2. /\ Len(kind[l]) < MaxBlobs
      /\ UNCHANGED <<owner, held, feed, stream, queue, got, ending, refused>>
  BY DEF PeerSends, listenVars, lineVars
<1>3. /\ kind \in [Lines -> Seq(AllKinds)] /\ route \in [Lines -> Seq(Route)]
      /\ net \in [Lines -> Seq(Blob)] /\ queue[l] \in Seq(Blob) /\ got[l] \in Seq(Blob)
  BY DEF IInv, TypeOK
<1>4. /\ DOMAIN kind'[l] = 1 .. n /\ DOMAIN kind[l] = 1 .. Len(kind[l]) /\ Len(kind[l]) \in Nat
      /\ \A i \in DOMAIN kind[l] : i \in DOMAIN kind'[l] /\ kind'[l][i] = kind[l][i]
      /\ Len(kind'[l]) = n
  BY <1>1, <1>3, SeqAppend
<1>5. n \in Blob
  BY <1>2, <1>4, FeedAssumption DEF Blob
<1>6. StagedInOrder(l) /\ Accounted(l) /\ Lossless(l)
  BY DEF Delivery
<1>7. r \in Route /\ route'[l] = Append(route[l], r)
  BY <1>1, <1>3 DEF Route
<1>8. /\ Len(route'[l]) = n
      /\ \A i \in DOMAIN kind[l] : route'[l][i] = route[l][i]
      /\ route'[l][n] = r
  <2>1. route[l] \in Seq(Route) /\ Len(route[l]) = Len(kind[l])
    BY <1>3, <1>6 DEF Accounted
  <2>2. /\ Len(route'[l]) = Len(route[l]) + 1
        /\ DOMAIN route[l] = 1 .. Len(route[l])
        /\ \A i \in DOMAIN route[l] : route'[l][i] = route[l][i]
        /\ route'[l][Len(route[l]) + 1] = r
    BY <2>1, <1>7, SeqAppend
  <2> QED BY <2>1, <2>2, <1>4
<1>9. \A m \in Lines : m # l => UNCHANGED <<kind[m], route[m], net[m]>>
  BY <1>1, <1>3
<1>10. Below(OnTheWay(l), {n})
  <2>1. \A i \in DOMAIN kind[l] : i < n
    BY <1>4
  <2> QED BY <2>1, SealedBelow DEF Below
<1> HIDE DEF n
<1>11. /\ Staged(got[l], queue[l], Fed(feed, l), Pumped(held[l]), net'[l])
       /\ Elements(net'[l]) = IF r = "sse" THEN Elements(net[l]) \cup {n} ELSE Elements(net[l])
  <2>1. CASE r = "sse" /\ net'[l] = Append(net[l], n)
    <3>1. Below(Elements(got[l]) \cup Elements(queue[l]) \cup Fed(feed, l)
                  \cup Pumped(held[l]) \cup Elements(net[l]), {n})
      BY <1>10 DEF OnTheWay, Below
    <3>2. /\ Staged(got[l], queue[l], Fed(feed, l), Pumped(held[l]), net[l])
          /\ Rising(net[l]) /\ net[l] \in Seq(Blob)
      BY <1>3, <1>6 DEF StagedInOrder, Staged
    <3>3. Staged(got[l], queue[l], Fed(feed, l), Pumped(held[l]), Append(net[l], n))
      BY <3>1, <3>2, <1>3, <1>5, StageSend
    <3>4. Elements(Append(net[l], n)) = Elements(net[l]) \cup {n}
      <4>1. Below(Elements(net[l]), {n})
        BY <3>1 DEF Below
      <4> QED BY <4>1, <3>2, <1>5, RisingAppend
    <3> QED BY <2>1, <3>3, <3>4
  <2>2. CASE r = "pipe" /\ net' = net
    BY <2>2, <1>6 DEF StagedInOrder
  <2> QED BY <2>1, <2>2, <1>1, <1>3
<1>12. (StagedInOrder(l) /\ Accounted(l) /\ Lossless(l))'
  <2>1. StagedInOrder(l)'
    BY <1>2, <1>6, <1>11 DEF StagedInOrder
  <2>2. Accounted(l)'
    BY <1>2, <1>4, <1>6, <1>8 DEF Accounted
  <2>3. Lossless(l)'
    <3> SUFFICES ASSUME ~Ended(l)
                 PROVE  /\ owner[l] # "none" /\ stream[l]
                        /\ \A i \in DOMAIN kind'[l] :
                             (route'[l][i] = "sse" /\ kind'[l][i] = "frame") =>
                                i \in OnTheWay(l)' \/ <<i, "full">> \in refused[l]
      BY <1>2 DEF Lossless, Ended
    <3>1. \A i \in OnTheWay(l) : i \in OnTheWay(l)'
      BY <1>2, <1>11 DEF OnTheWay
    <3>2. route'[l][n] = "sse" => n \in OnTheWay(l)'
      BY <1>8, <1>11 DEF OnTheWay
    <3>3. \A i \in DOMAIN kind'[l] : i = n \/ i \in DOMAIN kind[l]
      BY <1>4, <1>5 DEF Blob, n
    <3> QED BY <3>1, <3>2, <3>3, <1>4, <1>6, <1>8 DEF Lossless
  <2> QED BY <2>1, <2>2, <2>3
<1>13. ASSUME NEW m \in Lines, m # l PROVE (StagedInOrder(m) /\ Accounted(m) /\ Lossless(m))'
  <2>1. FedRises(feed', m)
    BY <1>2 DEF Delivery, StagedInOrder
  <2> QED BY <2>1, <1>2, <1>9, <1>13, SameLine
<1> QED BY <1>12, <1>13 DEF Delivery

LEMMA PumpReadsDelivers ==
  ASSUME IInv, Delivery, NEW l \in Lines, PumpReads(l) PROVE Delivery'
<1> DEFINE b == Head(net[l])
           c == [line |-> l, via |-> "sse", blob |-> b, session |-> CurrentSession(l)]
<1>1. /\ net[l] # <<>> /\ held[l] = <<>>
      /\ held' = [held EXCEPT ![l] = <<c>>]
      /\ net' = [net EXCEPT ![l] = Tail(@)]
      /\ UNCHANGED <<kind, route, owner, feed, stream, queue, got, ending, refused>>
  BY DEF PumpReads, lineVars
<1>2. /\ net \in [Lines -> Seq(Blob)] /\ held \in [Lines -> Seq(Chunk)]
      /\ queue[l] \in Seq(Blob) /\ got[l] \in Seq(Blob)
  BY DEF IInv, TypeOK
<1>3. StagedInOrder(l) /\ Accounted(l) /\ Lossless(l)
  BY DEF Delivery
<1>4. Pumped(held[l]) = {} /\ Pumped(<<c>>) = {b}
  BY <1>1, PumpedOne, PumpedNone
<1>5. c.via = "sse"
  OBVIOUS
<1> HIDE DEF c
<1>6. net'[l] = Tail(net[l]) /\ held'[l] = <<c>>
  BY <1>1, <1>2
<1>7. StagedInOrder(l)'
  <2>1. Staged(got[l], queue[l], Fed(feed, l), {}, net[l])
    BY <1>3, <1>4 DEF StagedInOrder
  <2>2. net[l] \in Seq(Blob) /\ net[l] # <<>>
    BY <1>1, <1>2
  <2>3. Staged(got[l], queue[l], Fed(feed, l), {b}, Tail(net[l]))
    BY <2>1, <2>2, <1>2, StagePump
  <2> QED BY <2>3, <1>1, <1>3, <1>4, <1>6 DEF StagedInOrder
<1>8. Accounted(l)'
  BY <1>1, <1>3, <1>5, <1>6 DEF Accounted
<1>9. Lossless(l)'
  <2>1. Elements(net[l]) = {b} \cup Elements(Tail(net[l]))
    BY <1>1, <1>2, <1>3, RisingTail DEF StagedInOrder, Staged
  <2>2. OnTheWay(l)' = OnTheWay(l)
    BY <2>1, <1>1, <1>4, <1>6 DEF OnTheWay
  <2> QED BY <2>2, <1>1, <1>3 DEF Lossless, Ended
<1>10. ASSUME NEW m \in Lines, m # l PROVE (StagedInOrder(m) /\ Accounted(m) /\ Lossless(m))'
  <2>1. FedRises(feed', m)
    BY <1>1 DEF Delivery, StagedInOrder
  <2> QED BY <2>1, <1>1, <1>2, <1>10, SameLine
<1> QED BY <1>7, <1>8, <1>9, <1>10 DEF Delivery

LEMMA PumpSendsDelivers ==
  ASSUME IInv, Delivery, NEW l \in Lines, PumpSends(l) PROVE Delivery'
<1> DEFINE c == Head(held[l])
<1>1. /\ held[l] # <<>>
      /\ feed' = Append(feed, c)
      /\ held' = [held EXCEPT ![l] = <<>>]
      /\ UNCHANGED <<kind, route, net, owner, stream, queue, got, ending, refused>>
  BY DEF PumpSends, lineVars
<1>2. /\ held \in [Lines -> Seq(Chunk)] /\ feed \in Seq(Chunk) /\ Len(held[l]) <= 1
  BY DEF IInv, TypeOK
<1>3. StagedInOrder(l) /\ Accounted(l) /\ Lossless(l)
  BY DEF Delivery
<1>4. c \in Chunk /\ c.line = l /\ c.via = "sse"
  BY <1>1, <1>2, <1>3, SeqTail DEF IInv, AllSealed, Accounted
<1>5. Pumped(held[l]) = {c.blob}
  <2>1. DOMAIN held[l] = {1}
    BY <1>1, <1>2, SeqTail, LenProperties
  <2> QED BY <2>1, <1>1, <1>2, SeqTail DEF Pumped, Elements
<1>6. held'[l] = <<>> /\ Pumped(held'[l]) = {}
  BY <1>1, <1>2, PumpedNone
<1> HIDE DEF c
<1>7. FedRises(feed', l) /\ Fed(feed', l) = Fed(feed, l) \cup {c.blob}
  <2>1. Below(Fed(feed, l), {c.blob}) /\ FedRises(feed, l)
    BY <1>3, <1>5 DEF StagedInOrder, Staged, Below
  <2> QED BY <2>1, <1>1, <1>2, <1>4, FedAppend
<1>8. StagedInOrder(l)'
  <2>1. Staged(got[l], queue[l], Fed(feed, l), {c.blob}, net[l])
    BY <1>3, <1>5 DEF StagedInOrder
  <2>2. Staged(got[l], queue[l], Fed(feed, l) \cup {c.blob}, {}, net[l])
    BY <2>1, StageFeed
  <2> QED BY <2>2, <1>1, <1>6, <1>7 DEF StagedInOrder
<1>9. Accounted(l)'
  BY <1>1, <1>3, <1>6 DEF Accounted
<1>10. Lossless(l)'
  <2>1. OnTheWay(l)' = OnTheWay(l)
    BY <1>1, <1>5, <1>6, <1>7 DEF OnTheWay
  <2> QED BY <2>1, <1>1, <1>3 DEF Lossless, Ended
<1>11. ASSUME NEW m \in Lines, m # l PROVE (StagedInOrder(m) /\ Accounted(m) /\ Lossless(m))'
  <2>1. FedRises(feed, m) /\ c.line # m
    BY <1>4, <1>11 DEF Delivery, StagedInOrder
  <2>2. FedRises(feed', m) /\ Fed(feed', m) = Fed(feed, m)
    BY <2>1, <1>1, <1>2, <1>4, FedAppend
  <2> QED BY <2>2, <1>1, <1>2, <1>11, SameLine
<1> QED BY <1>8, <1>9, <1>10, <1>11 DEF Delivery

LEMMA PipeReadsDelivers ==
  ASSUME IInv, Delivery, NEW l \in Lines, PipeReads(l) PROVE Delivery'
<1> DEFINE c == [line |-> l, via |-> "pipe", session |-> "own", blob |-> Head(back[l])]
<1>1. /\ back[l] # <<>>
      /\ \/ feed' = Append(feed, c) /\ refused' = refused
         \/ /\ refused' = [refused EXCEPT ![l] = @ \cup {<<Head(back[l]), "feed_full">>}]
            /\ feed' = feed
      /\ UNCHANGED <<kind, route, net, held, owner, stream, queue, got, ending>>
  BY DEF PipeReads, listenVars, lineVars
<1>2. back \in [Lines -> Seq(Blob)] /\ feed \in Seq(Chunk)
  BY DEF IInv, TypeOK
<1>3. c \in Chunk /\ c.via = "pipe"
  BY <1>1, <1>2, SeqTail DEF Chunk, Handle, Route
<1> HIDE DEF c
<1>4. ASSUME NEW m \in Lines PROVE FedRises(feed', m) /\ Fed(feed', m) = Fed(feed, m)
  <2>1. FedRises(feed, m)
    BY DEF Delivery, StagedInOrder
  <2>2. CASE feed' = Append(feed, c)
    BY <2>1, <2>2, <1>2, <1>3, FedAppend
  <2>3. CASE feed' = feed
    BY <2>1, <2>3
  <2> QED BY <2>2, <2>3, <1>1
<1>5. \A m \in Lines : refused[m] \subseteq refused'[m]
  BY <1>1 DEF IInv, TypeOK
<1>6. \A m \in Lines : UNCHANGED <<kind[m], route[m], net[m], held[m], queue[m], got[m],
                                   ending[m], owner[m], stream[m]>>
  BY <1>1
<1>7. ASSUME NEW m \in Lines PROVE (StagedInOrder(m) /\ Accounted(m) /\ Lossless(m))'
  BY <1>4, <1>5, <1>6, SameLine
<1> QED BY <1>7 DEF Delivery

\* What the loop makes of a chunk that came by the listen of a living line.
LEMMA LivingReason ==
  ASSUME IInv, Delivery, NEW c \in Chunk, Sealed(c), c.via = "sse", ~Ended(c.line)
  PROVE  \/ KindOf(c) # "frame"
         \/ Reason(c) \in {"none", "full"}
<1>1. c.line \in Lines /\ bound[c.line]
  <2>1. c.line \in Lines /\ c.blob \in DOMAIN kind[c.line]
    BY DEF Chunk, Sealed
  <2>2. kind[c.line] # <<>>
    BY <2>1
  <2> QED BY <2>1, <2>2 DEF IInv, BoundFirst
<1>2. owner[c.line] # "none" /\ stream[c.line]
  BY <1>1 DEF Delivery, Lossless
<1>3. session[c.line] # "gone"
  BY <1>1 DEF IInv, GoneWhenEnded
<1> QED BY <1>1, <1>2, <1>3 DEF Reason, Registered, CurrentSession, Sealed

\* Only what came by the listen gets past the first check.
LEMMA OnlyListenPasses ==
  ASSUME NEW c \in Chunk, Reason(c) = "none" PROVE c.via = "sse"
BY DEF Reason, Registered

LEMMA ApplyDelivers ==
  ASSUME IInv, Delivery, Apply PROVE Delivery'
<1> DEFINE h == Head(feed)
<1>1. PICK c : c = h
  OBVIOUS
<1> HIDE DEF h
<1>2. PICK why : why = Reason(c)
  OBVIOUS
<1> DEFINE takes == why = "none" /\ KindOf(c) = "frame"
<1>3. /\ feed # <<>> /\ feed' = Tail(feed) /\ c = Head(feed)
      /\ UNCHANGED <<kind, route, net, held, stream, got, ending>>
      /\ owner' = IF why = "mismatch" THEN [owner EXCEPT ![c.line] = "cancelled"] ELSE owner
      /\ queue' = IF takes THEN [queue EXCEPT ![c.line] = Append(@, c.blob)] ELSE queue
      /\ refused' = IF why = "none" THEN refused
                    ELSE [refused EXCEPT ![c.line] = @ \cup {<<c.blob, why>>}]
  BY <1>1, <1>2 DEF Apply, ApplyChunk, h
<1>4. /\ feed \in Seq(Chunk) /\ queue \in [Lines -> Seq(Blob)] /\ got \in [Lines -> Seq(Blob)]
      /\ owner \in [Lines -> {"up", "cancelled", "none"}]
      /\ refused \in [Lines -> SUBSET (Blob \X Reasons)]
  BY DEF IInv, TypeOK
<1>5. c \in Chunk /\ c = feed[1] /\ 1 \in DOMAIN feed
  BY <1>3, <1>4, SeqTail
<1>6. Sealed(c) /\ c.line \in Lines /\ c.blob \in Blob /\ c.blob \in DOMAIN kind[c.line]
  BY <1>5 DEF IInv, AllSealed, Sealed, Chunk
<1>7. takes => c.via = "sse"
  BY <1>2, <1>5, OnlyListenPasses
<1>8. ASSUME NEW m \in Lines
      PROVE  /\ FedRises(feed', m)
             /\ c.line = m /\ c.via = "sse" => /\ Fed(feed, m) = Fed(feed', m) \cup {c.blob}
                                               /\ Below({c.blob}, Fed(feed', m))
             /\ ~(c.line = m /\ c.via = "sse") => Fed(feed, m) = Fed(feed', m)
  <2>1. FedRises(feed, m)
    BY DEF Delivery, StagedInOrder
  <2> QED BY <2>1, <1>3, <1>4, FedTail
<1> HIDE DEF takes
<1>9. ASSUME NEW m \in Lines
      PROVE  /\ queue'[m] = IF takes /\ m = c.line THEN Append(queue[m], c.blob) ELSE queue[m]
             /\ refused[m] \subseteq refused'[m]
             /\ owner[m] # "none" => owner'[m] # "none"
  BY <1>3, <1>4, <1>6
<1>10. ASSUME NEW m \in Lines PROVE StagedInOrder(m)'
  <2>1. StagedInOrder(m) /\ got[m] \in Seq(Blob) /\ queue[m] \in Seq(Blob)
    BY <1>4 DEF Delivery
  <2>2. CASE takes /\ m = c.line
    <3>1. Staged(got[m], queue[m], Fed(feed', m) \cup {c.blob}, Pumped(held[m]), net[m])
      BY <2>1, <2>2, <1>7, <1>8 DEF StagedInOrder
    <3>2. Below({c.blob}, Fed(feed', m))
      BY <2>2, <1>7, <1>8
    <3>3. Staged(got[m], Append(queue[m], c.blob), Fed(feed', m), Pumped(held[m]), net[m])
      BY <3>1, <3>2, <2>1, <1>6, StageApply
    <3> QED BY <3>3, <2>2, <1>3, <1>8, <1>9 DEF StagedInOrder
  <2>3. CASE ~(takes /\ m = c.line)
    <3>1. Staged(got[m], queue[m], Fed(feed', m), Pumped(held[m]), net[m])
      <4>1. CASE c.line = m /\ c.via = "sse"
        <5>1. Staged(got[m], queue[m], Fed(feed', m) \cup {c.blob}, Pumped(held[m]), net[m])
          BY <4>1, <2>1, <1>8 DEF StagedInOrder
        <5> QED BY <5>1, StageLess
      <4>2. CASE ~(c.line = m /\ c.via = "sse")
        BY <4>2, <2>1, <1>8 DEF StagedInOrder
      <4> QED BY <4>1, <4>2
    <3> QED BY <3>1, <2>3, <1>3, <1>8, <1>9 DEF StagedInOrder
  <2> QED BY <2>2, <2>3
<1>11. ASSUME NEW m \in Lines
       PROVE  /\ takes /\ m = c.line => Elements(queue'[m]) = Elements(queue[m]) \cup {c.blob}
              /\ ~(takes /\ m = c.line) => Elements(queue'[m]) = Elements(queue[m])
  <2>1. CASE takes /\ m = c.line
    <3>1. Rising(queue[m]) /\ Below(Elements(queue[m]), {c.blob}) /\ queue[m] \in Seq(Blob)
      BY <2>1, <1>4, <1>7, <1>8 DEF Delivery, StagedInOrder, Staged, Below
    <3> QED BY <3>1, <2>1, <1>6, <1>9, RisingAppend
  <2>2. CASE ~(takes /\ m = c.line)
    BY <2>2, <1>9
  <2> QED BY <2>1, <2>2
<1>12. ASSUME NEW m \in Lines PROVE Accounted(m)'
  <2>1. Accounted(m)
    BY DEF Delivery
  <2>2. c.blob \in DOMAIN kind[m] \/ m # c.line
    BY <1>6
  <2>3. Elements(queue'[m]) \subseteq Elements(queue[m]) \cup (IF m = c.line THEN {c.blob} ELSE {})
    BY <1>11
  <2>4. Elements(got[m]) \cup Elements(queue'[m]) \subseteq DOMAIN kind[m]
    BY <2>1, <2>2, <2>3 DEF Accounted
  <2> QED BY <2>1, <2>4, <1>3 DEF Accounted
<1>13. ASSUME NEW m \in Lines PROVE Lossless(m)'
  <2> SUFFICES ASSUME ~Ended(m)
               PROVE  /\ owner'[m] # "none" /\ stream[m]
                      /\ \A n \in DOMAIN kind[m] :
                           (route[m][n] = "sse" /\ kind[m][n] = "frame") =>
                              n \in OnTheWay(m)' \/ <<n, "full">> \in refused'[m]
    BY <1>3 DEF Lossless, Ended
  <2>1. Lossless(m)
    BY DEF Delivery
  <2>2. owner'[m] # "none" /\ stream[m]
    BY <2>1, <1>9 DEF Lossless
  <2>3. ASSUME NEW n \in DOMAIN kind[m], route[m][n] = "sse", kind[m][n] = "frame"
        PROVE  n \in OnTheWay(m)' \/ <<n, "full">> \in refused'[m]
    <3>1. CASE <<n, "full">> \in refused[m]
      BY <3>1, <1>9
    <3>2. CASE n \in OnTheWay(m) /\ c.line = m /\ c.via = "sse" /\ n = c.blob
      <4>1. KindOf(c) = "frame" /\ ~Ended(c.line)
        BY <3>2, <2>3 DEF KindOf
      <4>2. why \in {"none", "full"}
        BY <4>1, <3>2, <1>2, <1>5, <1>6, LivingReason
      <4>3. CASE why = "none"
        BY <4>1, <4>3, <3>2, <1>11 DEF OnTheWay, takes
      <4>4. CASE why = "full"
        BY <4>4, <3>2, <1>3, <1>4
      <4> QED BY <4>2, <4>3, <4>4
    <3>3. CASE n \in OnTheWay(m) /\ ~(c.line = m /\ c.via = "sse" /\ n = c.blob)
      <4>1. Elements(queue[m]) \subseteq Elements(queue'[m])
        BY <1>11
      <4>2. n \in Fed(feed, m) => n \in Fed(feed', m)
        BY <3>3, <1>8
      <4> QED BY <4>1, <4>2, <3>3, <1>3 DEF OnTheWay
    <3> QED BY <3>1, <3>2, <3>3, <2>1, <2>3 DEF Lossless
  <2> QED BY <2>2, <2>3
<1> QED BY <1>10, <1>12, <1>13 DEF Delivery

LEMMA TakesDelivers ==
  ASSUME IInv, Delivery, NEW l \in Lines, Takes(l) PROVE Delivery'
<1>1. /\ queue[l] # <<>>
      /\ got' = [got EXCEPT ![l] = Append(@, Head(queue[l]))]
      /\ queue' = [queue EXCEPT ![l] = Tail(@)]
      /\ UNCHANGED <<kind, route, net, held, owner, feed, stream, ending, refused>>
  BY DEF Takes, listenVars
<1>2. queue \in [Lines -> Seq(Blob)] /\ got \in [Lines -> Seq(Blob)]
  BY DEF IInv, TypeOK
<1>3. StagedInOrder(l) /\ Accounted(l) /\ Lossless(l)
  BY DEF Delivery
<1>4. got'[l] = Append(got[l], Head(queue[l])) /\ queue'[l] = Tail(queue[l])
  BY <1>1, <1>2
<1>5. StagedInOrder(l)'
  <2>1. /\ Staged(got[l], queue[l], Fed(feed, l), Pumped(held[l]), net[l])
        /\ got[l] \in Seq(Blob) /\ queue[l] \in Seq(Blob) /\ queue[l] # <<>>
    BY <1>1, <1>2, <1>3 DEF StagedInOrder
  <2>2. Staged(Append(got[l], Head(queue[l])), Tail(queue[l]), Fed(feed, l),
               Pumped(held[l]), net[l])
    BY ONLY <2>1, StageTake
  <2> QED BY <2>2, <1>1, <1>3, <1>4 DEF StagedInOrder
<1>6. Elements(got'[l]) \cup Elements(queue'[l]) = Elements(got[l]) \cup Elements(queue[l])
  <2>1. /\ Elements(queue[l]) = {Head(queue[l])} \cup Elements(Tail(queue[l]))
        /\ Head(queue[l]) \in Blob
    BY <1>1, <1>2, <1>3, RisingTail, SeqTail DEF StagedInOrder, Staged
  <2>2. Rising(got[l]) /\ Below(Elements(got[l]), {Head(queue[l])}) /\ got[l] \in Seq(Blob)
    BY <2>1, <1>2, <1>3 DEF StagedInOrder, Staged, Below
  <2>3. Elements(Append(got[l], Head(queue[l]))) = Elements(got[l]) \cup {Head(queue[l])}
    BY <2>1, <2>2, RisingAppend
  <2> QED BY <2>1, <2>3, <1>4
<1>7. Accounted(l)' /\ Lossless(l)'
  <2>1. OnTheWay(l)' = OnTheWay(l)
    BY <1>1, <1>6 DEF OnTheWay
  <2> QED BY <2>1, <1>1, <1>3, <1>6 DEF Accounted, Lossless, Ended
<1>8. ASSUME NEW m \in Lines, m # l PROVE (StagedInOrder(m) /\ Accounted(m) /\ Lossless(m))'
  <2>1. FedRises(feed', m)
    BY <1>1 DEF Delivery, StagedInOrder
  <2> QED BY <2>1, <1>1, <1>2, <1>8, SameLine
<1> QED BY <1>5, <1>7, <1>8 DEF Delivery

LEMMA EndsDelivers ==
  ASSUME IInv, Delivery, NEW l \in Lines, Ends(l) PROVE Delivery'
<1>1. /\ ending' = [ending EXCEPT ![l] = 1]
      /\ queue' = [queue EXCEPT ![l] = <<>>]
      /\ UNCHANGED <<kind, route, net, held, owner, feed, stream, got, refused>>
  BY DEF Ends, listenVars
<1>2. queue \in [Lines -> Seq(Blob)] /\ ending \in [Lines -> 0 .. 4]
  BY DEF IInv, TypeOK
<1>3. StagedInOrder(l) /\ Accounted(l)
  BY DEF Delivery
<1>4. queue'[l] = <<>> /\ Ended(l)'
  BY <1>1, <1>2 DEF Ended
<1>5. StagedInOrder(l)'
  BY <1>1, <1>3, <1>4, StageEnd DEF StagedInOrder
<1>6. Accounted(l)' /\ Lossless(l)'
  BY <1>1, <1>3, <1>4, ElementsOfEmpty DEF Accounted, Lossless
<1>7. ASSUME NEW m \in Lines, m # l PROVE (StagedInOrder(m) /\ Accounted(m) /\ Lossless(m))'
  <2>1. FedRises(feed', m)
    BY <1>1 DEF Delivery, StagedInOrder
  <2> QED BY <2>1, <1>1, <1>2, <1>7, SameLine
<1> QED BY <1>5, <1>6, <1>7 DEF Delivery

LEMMA RemovesDelivers ==
  ASSUME IInv, Delivery, NEW l \in Lines, Removes(l) PROVE Delivery'
<1> DEFINE lost == (Elements(net[l]) \cup {c.blob : c \in Elements(held[l])}) \X {"aborted"}
<1>1. /\ ending[l] \in 1 .. 3 /\ ending' = [ending EXCEPT ![l] = @ + 1]
      /\ \/ stream' = stream \/ stream' = [stream EXCEPT ![l] = FALSE]
      /\ \/ /\ owner' = owner /\ refused' = refused /\ net' = net /\ held' = held
         \/ /\ owner' = [owner EXCEPT ![l] = "none"]
            /\ refused' = [refused EXCEPT ![l] = @ \cup lost]
            /\ net' = [net EXCEPT ![l] = <<>>] /\ held' = [held EXCEPT ![l] = <<>>]
      /\ UNCHANGED <<kind, route, feed, queue, got>>
  BY DEF Removes
<1> HIDE DEF lost
<1>2. /\ net \in [Lines -> Seq(Blob)] /\ held \in [Lines -> Seq(Chunk)]
      /\ ending \in [Lines -> 0 .. 4] /\ stream \in [Lines -> BOOLEAN]
      /\ owner \in [Lines -> {"up", "cancelled", "none"}]
      /\ refused \in [Lines -> SUBSET (Blob \X Reasons)]
  BY DEF IInv, TypeOK
<1>3. StagedInOrder(l) /\ Accounted(l)
  BY DEF Delivery
<1>4. Ended(l)'
  BY <1>1, <1>2 DEF Ended
<1>5. (net'[l] = net[l] /\ held'[l] = held[l]) \/ (net'[l] = <<>> /\ held'[l] = <<>>)
  BY <1>1, <1>2
<1>6. StagedInOrder(l)'
  <2>1. CASE net'[l] = net[l] /\ held'[l] = held[l]
    BY <2>1, <1>1, <1>3 DEF StagedInOrder
  <2>2. CASE net'[l] = <<>> /\ held'[l] = <<>>
    <3>1. Staged(got[l], queue[l], Fed(feed, l), Pumped(held[l]), net[l])
      BY <1>3 DEF StagedInOrder
    <3>2. Staged(got[l], queue[l], Fed(feed, l), {}, <<>>)
      BY <3>1, StageEnd
    <3> QED BY <2>2, <3>2, <1>1, <1>3, PumpedNone DEF StagedInOrder
  <2> QED BY <2>1, <2>2, <1>5
<1>7. Accounted(l)' /\ Lossless(l)'
  BY <1>1, <1>3, <1>4, <1>5 DEF Accounted, Lossless
<1>8. ASSUME NEW m \in Lines, m # l PROVE (StagedInOrder(m) /\ Accounted(m) /\ Lossless(m))'
  <2>1. FedRises(feed', m)
    BY <1>1 DEF Delivery, StagedInOrder
  <2>2. UNCHANGED <<net[m], held[m], ending[m], owner[m], stream[m], refused[m]>>
    BY <1>1, <1>2, <1>8
  <2> QED BY <2>1, <2>2, <1>1, SameLine
<1> QED BY <1>6, <1>7, <1>8 DEF Delivery

LEMMA NextDelivers ==
  ASSUME IInv, Delivery, [Next]_vars PROVE Delivery'
<1>1. CASE Apply
  BY <1>1, ApplyDelivers
<1>2. ASSUME NEW l \in Lines, BindSession(l) \/ Answer(l) PROVE Delivery'
  BY <1>2, SettingUpDelivers DEF BindSession, Answer, lineVars
<1>3. ASSUME NEW l \in Lines, PeerSends(l) \/ PumpReads(l) \/ PumpSends(l) \/ PipeReads(l)
      PROVE  Delivery'
  BY <1>3, PeerSendsDelivers, PumpReadsDelivers, PumpSendsDelivers, PipeReadsDelivers
<1>4. ASSUME NEW l \in Lines, Takes(l) \/ Ends(l) \/ Removes(l) PROVE Delivery'
  BY <1>4, TakesDelivers, EndsDelivers, RemovesDelivers
<1>5. CASE UNCHANGED vars
  BY <1>5, SettingUpDelivers DEF vars, listenVars, lineVars
<1> QED BY <1>1, <1>2, <1>3, <1>4, <1>5 DEF Next

LEMMA DeliveryLossless == IInv /\ Delivery => ListenLosesNothing
<1> SUFFICES ASSUME IInv, Delivery, NEW l \in Lines
             PROVE  LET taken == got[l] \o queue[l]
                    IN /\ \A i, j \in DOMAIN taken : i < j => taken[i] < taken[j]
                       /\ ~Ended(l) => \A n \in DOMAIN kind[l] :
                            (route[l][n] = "sse" /\ kind[l][n] = "frame") =>
                               \/ n \in Waiting(l) \/ n \in Elements(taken)
                               \/ <<n, "full">> \in refused[l]
  BY DEF ListenLosesNothing
<1> DEFINE taken == got[l] \o queue[l]
<1>1. got[l] \in Seq(Blob) /\ queue[l] \in Seq(Blob)
  BY DEF IInv, TypeOK
<1>2. Rising(got[l]) /\ Rising(queue[l]) /\ Below(Elements(got[l]), Elements(queue[l]))
  BY DEF Delivery, StagedInOrder, Staged, Below
<1>3. Rising(taken) /\ Elements(taken) = Elements(got[l]) \cup Elements(queue[l])
  BY <1>1, <1>2, RisingConcat
<1>4. Fed(feed, l) \subseteq Waiting(l)
  BY DEF Fed, FromListen, Waiting, Elements
<1>5. OnTheWay(l) \subseteq Waiting(l) \cup Elements(taken)
  BY <1>3, <1>4 DEF OnTheWay, Waiting, Pumped
<1> HIDE DEF taken
<1>6. ~Ended(l) => \A n \in DOMAIN kind[l] :
        (route[l][n] = "sse" /\ kind[l][n] = "frame") =>
           n \in OnTheWay(l) \/ <<n, "full">> \in refused[l]
  BY DEF Delivery, Lossless
<1> QED BY <1>3, <1>5, <1>6 DEF Rising, taken

(* From the listen to the line's task, for any number of lines behind the   *)
(* one queue and any capacities: frames keep the order they were sealed in, *)
(* and a living line loses none but to its own full queue (listen.rs:893-   *)
(* 965, client.rs apply_inbound_chunk).                                     *)
THEOREM NoFrameLost == Spec => []ListenLosesNothing
<1>1. IInv /\ Delivery /\ [Next]_vars => Delivery'
  BY NextDelivers
<1>2. Spec => []Delivery
  BY <1>1, DeliveryInit, Inductive, PTL DEF Spec
<1> QED BY <1>2, DeliveryLossless, Inductive, PTL

-----------------------------------------------------------------------------
(* Turns of a loop *)

\* A nonempty set of naturals has a smallest.
LEMMA Smallest ==
  ASSUME NEW S \in SUBSET Nat, S # {}
  PROVE  \E n \in S : \A m \in S : n <= m
<1> DEFINE R == {ss \in Nat \X Nat : ss[1] < ss[2]}
<1>1. IsWellFoundedOn(R, Nat)
  BY NatLessThanWellFounded DEF OpToRel
<1>2. \E n \in S : \A m \in S : ~ (<<m, n>> \in R)
  <2> HIDE DEF R
  <2> QED BY <1>1, WFMin
<1>3. \A m, n \in S : m < n => <<m, n>> \in R
  OBVIOUS
<1>4. \A m, n \in S : m < n \/ n <= m
  OBVIOUS
<1> HIDE DEF R
<1> QED BY <1>2, <1>3, <1>4

\* g maps a turn and what it finds to what it leaves, and f is k turns of it.
IsTurn(g, A) == \A n \in Nat, x \in A : g[<<n, x>>] \in A
Turned(f, a, g, k) == f[0] = a /\ \A n \in 1 .. k : f[n] = g[<<n, f[n - 1]>>]

\* Any number of turns of a loop can be taken.
LEMMA Turns ==
  ASSUME NEW A, NEW a \in A, NEW g, IsTurn(g, A), NEW k \in Nat
  PROVE  \E f \in [0 .. k -> A] : Turned(f, a, g, k)
<1> DEFINE Good(m) == \E f \in [0 .. m -> A] : Turned(f, a, g, m)
           Bad == {m \in Nat : ~ Good(m)}
<1>1. SUFFICES ASSUME Bad # {} PROVE FALSE
  OBVIOUS
<1>2. PICK m \in Bad : \A i \in Bad : m <= i
  <2>1. Bad \in SUBSET Nat
    OBVIOUS
  <2> HIDE DEF Bad
  <2> QED BY <1>1, <2>1, Smallest
<1>3. m # 0
  <2>1. [n \in 0 .. 0 |-> a] \in [0 .. 0 -> A] /\ [n \in 0 .. 0 |-> a][0] = a
    OBVIOUS
  <2>2. 1 .. 0 = {}
    OBVIOUS
  <2>3. Good(0)
    BY <2>1, <2>2 DEF Turned
  <2> QED BY <2>3
<1>4. m \in Nat /\ m - 1 \in Nat /\ m - 1 \notin Bad
  <2>1. m \in Nat
    BY <1>2
  <2>2. m - 1 \in Nat /\ m - 1 < m
    BY <2>1, <1>3
  <2> HIDE DEF Bad
  <2> QED BY <2>1, <2>2, <1>2
<1>5. PICK f \in [0 .. m - 1 -> A] : Turned(f, a, g, m - 1)
  BY <1>4
<1> DEFINE h == [n \in 0 .. m |-> IF n = m THEN g[<<m, f[m - 1]>>] ELSE f[n]]
<1>6. h \in [0 .. m -> A]
  <2>1. f[m - 1] \in A
    BY <1>4
  <2>2. g[<<m, f[m - 1]>>] \in A
    BY <2>1, <1>4 DEF IsTurn
  <2> QED BY <2>2, <1>4
<1>7. h[0] = a
  BY <1>3, <1>4, <1>5 DEF Turned
<1>8. ASSUME NEW n \in 1 .. m PROVE h[n] = g[<<n, h[n - 1]>>]
  <2>0. m \in Nat /\ n - 1 \in 0 .. m - 1 /\ (n # m => n \in 1 .. m - 1)
    BY <1>4
  <2>1. h[n - 1] = f[n - 1]
    BY <2>0
  <2>2. CASE n = m
    <3>1. n \in 0 .. m /\ h[n] = g[<<m, f[m - 1]>>]
      BY <2>0, <2>2
    <3> QED BY <2>1, <2>2, <3>1
  <2>3. CASE n # m
    BY <2>0, <2>1, <2>3, <1>5 DEF Turned
  <2> QED BY <2>2, <2>3
<1>9. Good(m)
  <2> HIDE DEF h
  <2> QED BY <1>6, <1>7, <1>8 DEF Turned
<1> QED BY <1>2, <1>9

\* What every turn keeps, the last leaves; f may be any function that takes
\* its values from the turns before, so what a LET of the model chooses.
LEMMA TurnsKeep ==
  ASSUME NEW A, NEW f, NEW k \in Nat, f[0] \in A,
         \A n \in 1 .. k : f[n - 1] \in A => f[n] \in A
  PROVE  \A n \in 0 .. k : f[n] \in A
<1> DEFINE bad == {n \in 0 .. k : f[n] \notin A}
<1>1. ASSUME NEW n \in bad, \A m \in bad : n <= m PROVE FALSE
  <2>1. n # 0
    OBVIOUS
  <2>2. n - 1 \in 0 .. k /\ n \in 1 .. k /\ n - 1 < n
    BY <2>1
  <2>3. f[n - 1] \in A
    BY <2>2, <1>1
  <2> QED BY <2>2, <2>3
<1>2. bad \in SUBSET Nat
  OBVIOUS
<1> HIDE DEF bad
<1>3. bad = {}
  BY <1>1, <1>2, Smallest
<1> QED BY <1>3 DEF bad

\* strip_complete_sse_comments is one comment after the other.
LEMMA StripTurns ==
  ASSUME NEW T, NEW text \in T, Len(text) \in Nat,
         \A t \in T : Sse!StripComment(t) \in T
  PROVE  \E s : /\ s[0] = text
                /\ \A n \in 1 .. Len(text) : s[n] = Sse!StripComment(s[n - 1])
                /\ Sse!StripCompleteComments(text) = s[Len(text) \div 3]
<1> DEFINE g == [x \in Nat \X T |-> Sse!StripComment(x[2])]
           k == Len(text)
           Is(s) == s = [n \in 0 .. k |-> IF n = 0 THEN text ELSE Sse!StripComment(s[n - 1])]
           strip == CHOOSE s : Is(s)
<1>0. k \in Nat
  OBVIOUS
<1>1. IsTurn(g, T)
  BY DEF IsTurn
<1>2. PICK f \in [0 .. k -> T] : Turned(f, text, g, k)
  <2> HIDE DEF g, k
  <2> QED BY <1>0, <1>1, Turns
<1>3. Is(f)
  <2>1. ASSUME NEW n \in 0 .. k
        PROVE  f[n] = IF n = 0 THEN text ELSE Sse!StripComment(f[n - 1])
    <3>1. CASE n # 0
      <4>1. n - 1 \in 0 .. k /\ n \in Nat /\ n \in 1 .. k
        BY <3>1, <1>0
      <4>2. f[n] = g[<<n, f[n - 1]>>] /\ f[n - 1] \in T
        BY <4>1, <1>2 DEF Turned
      <4> QED BY <4>1, <4>2, <3>1
    <3> QED BY <3>1, <1>2 DEF Turned
  <2> HIDE DEF k
  <2> QED BY <1>2, <2>1
<1>4. Is(strip)
  <2> HIDE DEF Is
  <2> QED BY <1>3
<1>5. strip[0] = text /\ \A n \in 1 .. k : strip[n] = Sse!StripComment(strip[n - 1])
  <2> HIDE DEF strip, k
  <2> QED BY <1>0, <1>4
<1>6. Sse!StripCompleteComments(text) = strip[k \div 3]
  BY DEF Sse!StripCompleteComments
<1> HIDE DEF strip
<1> QED BY <1>5, <1>6

\* What stripping one comment keeps, stripping all keeps.
LEMMA StripClosed ==
  ASSUME NEW T, NEW text \in T, Len(text) \in Nat,
         \A t \in T : Sse!StripComment(t) \in T
  PROVE  Sse!StripCompleteComments(text) \in T
<1>1. PICK s : /\ s[0] = text
               /\ \A n \in 1 .. Len(text) : s[n] = Sse!StripComment(s[n - 1])
               /\ Sse!StripCompleteComments(text) = s[Len(text) \div 3]
  BY StripTurns
<1>2. \A n \in 0 .. Len(text) : s[n] \in T
  BY <1>1, TurnsKeep
<1>3. Len(text) \div 3 \in 0 .. Len(text)
  OBVIOUS
<1> QED BY <1>1, <1>2, <1>3

\* One turn of the drain is one of its function, and the same for its closure.
LEMMA DrainTurns ==
  ASSUME NEW D, NEW text, Len(text) \in Nat,
         [frames |-> <<>>, rest |-> Sse!StripCompleteComments(text)] \in D,
         \A d \in D : Sse!DrainFrame(d) \in D
  PROVE  \E s : /\ s[0] = [frames |-> <<>>, rest |-> Sse!StripCompleteComments(text)]
                /\ \A n \in 1 .. Len(text) : s[n] = Sse!DrainFrame(s[n - 1])
                /\ Sse!Drain(text) = s[Len(text) \div 2]
<1> DEFINE g == [x \in Nat \X D |-> Sse!DrainFrame(x[2])]
           k == Len(text)
           base == [frames |-> <<>>, rest |-> Sse!StripCompleteComments(text)]
           Is(s) == s = [n \in 0 .. k |-> IF n = 0 THEN base ELSE Sse!DrainFrame(s[n - 1])]
           drained == CHOOSE s : Is(s)
<1>0. k \in Nat /\ base \in D
  OBVIOUS
<1>6. Sse!Drain(text) = drained[k \div 2]
  BY DEF Sse!Drain
<1> HIDE DEF base
<1>1. IsTurn(g, D)
  BY DEF IsTurn
<1>2. PICK f \in [0 .. k -> D] : Turned(f, base, g, k)
  <2> HIDE DEF g, k
  <2> QED BY <1>0, <1>1, Turns
<1>3. Is(f)
  <2>1. ASSUME NEW n \in 0 .. k
        PROVE  f[n] = IF n = 0 THEN base ELSE Sse!DrainFrame(f[n - 1])
    <3>1. CASE n # 0
      <4>1. n - 1 \in 0 .. k /\ n \in Nat /\ n \in 1 .. k
        BY <3>1, <1>0
      <4>2. f[n] = g[<<n, f[n - 1]>>] /\ f[n - 1] \in D
        BY <4>1, <1>2 DEF Turned
      <4> QED BY <4>1, <4>2, <3>1
    <3> QED BY <3>1, <1>2 DEF Turned
  <2> HIDE DEF k
  <2> QED BY <1>2, <2>1
<1>4. Is(drained)
  <2> HIDE DEF Is
  <2> QED BY <1>3
<1>5. drained[0] = base /\ \A n \in 1 .. k : drained[n] = Sse!DrainFrame(drained[n - 1])
  <2> HIDE DEF drained, k
  <2> QED BY <1>0, <1>4
<1> HIDE DEF drained
<1> QED BY <1>5, <1>6 DEF base

LEMMA DrainClosed ==
  ASSUME NEW D, NEW text, Len(text) \in Nat,
         [frames |-> <<>>, rest |-> Sse!StripCompleteComments(text)] \in D,
         \A d \in D : Sse!DrainFrame(d) \in D
  PROVE  Sse!Drain(text) \in D
<1>1. PICK s : /\ s[0] = [frames |-> <<>>, rest |-> Sse!StripCompleteComments(text)]
               /\ \A n \in 1 .. Len(text) : s[n] = Sse!DrainFrame(s[n - 1])
               /\ Sse!Drain(text) = s[Len(text) \div 2]
  BY DrainTurns
<1>2. \A n \in 0 .. Len(text) : s[n] \in D
  BY <1>1, TurnsKeep
<1>3. Len(text) \div 2 \in 0 .. Len(text)
  OBVIOUS
<1> QED BY <1>1, <1>2, <1>3

-----------------------------------------------------------------------------
(* Tokens and texts *)

Token == {"data:", ":", "cr", "lf", "head", "tail", "{"} \X Int
Text == Seq(Token)

\* Tokens of different kinds differ.
LEMMA Tokens ==
  /\ {Sse!Data, Sse!Comment, Sse!Cr, Sse!Lf} \subseteq Token
  /\ Sse!Data # Sse!Comment /\ Sse!Data # Sse!Cr /\ Sse!Data # Sse!Lf
  /\ Sse!Comment # Sse!Cr /\ Sse!Comment # Sse!Lf /\ Sse!Cr # Sse!Lf
  /\ \A n \in Int :
       /\ {Sse!BlobHead(n), Sse!BlobTail(n), Sse!Json(n)} \subseteq Token
       /\ \A x \in {Sse!BlobHead(n), Sse!BlobTail(n), Sse!Json(n)} :
            /\ x \notin {Sse!Data, Sse!Comment, Sse!Cr, Sse!Lf}
            /\ ~Sse!Blank(x)
       /\ Sse!Piece(Sse!BlobHead(n)) /\ Sse!Piece(Sse!BlobTail(n))
       /\ ~Sse!Piece(Sse!Json(n))
  /\ ~Sse!Blank(Sse!Data) /\ ~Sse!Blank(Sse!Comment)
  /\ Sse!Blank(Sse!Cr) /\ Sse!Blank(Sse!Lf)
  /\ \A x \in {Sse!Data, Sse!Comment, Sse!Cr, Sse!Lf} : ~Sse!Piece(x)
<1>1. /\ Sse!Data[1] = "data:" /\ Sse!Comment[1] = ":"
      /\ Sse!Cr[1] = "cr" /\ Sse!Lf[1] = "lf"
  BY DEF Sse!Data, Sse!Comment, Sse!Cr, Sse!Lf
<1>2. ASSUME NEW n \in Int
      PROVE  /\ Sse!BlobHead(n)[1] = "head" /\ Sse!BlobTail(n)[1] = "tail"
             /\ Sse!Json(n)[1] = "{"
  BY DEF Sse!BlobHead, Sse!BlobTail, Sse!Json
<1>3. {Sse!Data, Sse!Comment, Sse!Cr, Sse!Lf} \subseteq Token
  <2>1. \A n \in Int : /\ <<"data:", n>> \in Token /\ <<":", n>> \in Token
                      /\ <<"cr", n>> \in Token /\ <<"lf", n>> \in Token
    BY DEF Token
  <2> QED BY <2>1 DEF Sse!Data, Sse!Comment, Sse!Cr, Sse!Lf
<1>4. ASSUME NEW n \in Int
      PROVE  {Sse!BlobHead(n), Sse!BlobTail(n), Sse!Json(n)} \subseteq Token
  <2>1. <<"head", n>> \in Token /\ <<"tail", n>> \in Token /\ <<"{", n>> \in Token
    BY DEF Token
  <2> QED BY <2>1 DEF Sse!BlobHead, Sse!BlobTail, Sse!Json
<1>5. \A x : Sse!Blank(x) <=> x = Sse!Cr \/ x = Sse!Lf
  BY DEF Sse!Blank
<1>6. ASSUME NEW n \in Int, NEW x \in {Sse!BlobHead(n), Sse!BlobTail(n), Sse!Json(n)}
      PROVE  x \notin {Sse!Data, Sse!Comment, Sse!Cr, Sse!Lf} /\ ~Sse!Blank(x)
  <2>1. x[1] \in {"head", "tail", "{"}
    BY <1>2
  <2>2. x \notin {Sse!Data, Sse!Comment, Sse!Cr, Sse!Lf}
    BY <2>1, <1>1
  <2> QED BY <2>2, <1>5
<1>7. ASSUME NEW n \in Int
      PROVE  /\ Sse!Piece(Sse!BlobHead(n)) /\ Sse!Piece(Sse!BlobTail(n))
             /\ ~Sse!Piece(Sse!Json(n))
  BY <1>2 DEF Sse!Piece
<1>8. \A x \in {Sse!Data, Sse!Comment, Sse!Cr, Sse!Lf} : ~Sse!Piece(x)
  BY <1>1 DEF Sse!Piece
<1>9. /\ Sse!Data # Sse!Comment /\ Sse!Data # Sse!Cr /\ Sse!Data # Sse!Lf
      /\ Sse!Comment # Sse!Cr /\ Sse!Comment # Sse!Lf /\ Sse!Cr # Sse!Lf
  BY <1>1
<1>10. /\ ~Sse!Blank(Sse!Data) /\ ~Sse!Blank(Sse!Comment)
       /\ Sse!Blank(Sse!Cr) /\ Sse!Blank(Sse!Lf)
  BY <1>5, <1>9
<1> QED BY <1>3, <1>4, <1>6, <1>7, <1>8, <1>9, <1>10

LEMMA Texts ==
  ASSUME NEW t \in Text
  PROVE  /\ Len(t) \in Nat /\ DOMAIN t = 1 .. Len(t)
         /\ \A i \in 1 .. Len(t) : t[i] \in Token
BY LenProperties DEF Text

\* A text without its tokens a .. b.
Without(t, a, b) == SubSeq(t, 1, a - 1) \o SubSeq(t, b + 1, Len(t))

\* What is left when a part is cut out.
LEMMA WithoutIs ==
  ASSUME NEW t \in Text, NEW a \in 1 .. Len(t), NEW b \in a .. Len(t)
  PROVE  /\ Without(t, a, b) \in Text
         /\ Len(Without(t, a, b)) = Len(t) - (b - a + 1)
         /\ \A i \in 1 .. Len(t) - (b - a + 1) :
              Without(t, a, b)[i] = IF i < a THEN t[i] ELSE t[i + (b - a + 1)]
<1> DEFINE u == SubSeq(t, 1, a - 1)
           v == SubSeq(t, b + 1, Len(t))
<1>0. Len(t) \in Nat /\ a \in Nat /\ b \in Nat /\ a <= b /\ b <= Len(t) /\ 1 <= a
      /\ \A i \in 1 .. Len(t) : t[i] \in Token
  BY Texts
<1>1. /\ u \in Text /\ Len(u) = a - 1 /\ \A i \in 1 .. a - 1 : u[i] = t[i]
  <2>1. \A i \in 1 .. a - 1 : t[i] \in Token
    BY <1>0
  <2>2. /\ u \in Seq(Token) /\ Len(u) = IF 1 <= a - 1 THEN a - 1 - 1 + 1 ELSE 0
        /\ \A i \in 1 .. a - 1 - 1 + 1 : u[i] = t[1 + i - 1]
    BY <2>1, <1>0, SubSeqProperties
  <2> HIDE DEF u
  <2> QED BY <2>2, <1>0 DEF Text
<1>2. /\ v \in Text /\ Len(v) = Len(t) - b /\ \A i \in 1 .. Len(t) - b : v[i] = t[b + i]
  <2>1. \A i \in b + 1 .. Len(t) : t[i] \in Token
    BY <1>0
  <2>2. /\ v \in Seq(Token)
        /\ Len(v) = IF b + 1 <= Len(t) THEN Len(t) - (b + 1) + 1 ELSE 0
        /\ \A i \in 1 .. Len(t) - (b + 1) + 1 : v[i] = t[b + 1 + i - 1]
    BY <2>1, <1>0, SubSeqProperties
  <2> HIDE DEF v
  <2> QED BY <2>2, <1>0 DEF Text
<1> HIDE DEF u, v
<1>3. /\ u \o v \in Text /\ Len(u \o v) = Len(u) + Len(v)
      /\ \A i \in 1 .. Len(u) + Len(v) : (u \o v)[i] = IF i <= Len(u) THEN u[i] ELSE v[i - Len(u)]
  BY <1>1, <1>2, ConcatProperties DEF Text
<1>4. ASSUME NEW i \in 1 .. Len(t) - (b - a + 1)
      PROVE  (u \o v)[i] = IF i < a THEN t[i] ELSE t[i + (b - a + 1)]
  <2>0. i \in Int /\ 1 <= i /\ i <= Len(t) - (b - a + 1)
    BY <1>0
  <2>1. CASE i < a
    <3>1. i <= Len(u) /\ i \in 1 .. a - 1 /\ i \in 1 .. Len(u) + Len(v)
      BY <2>0, <2>1, <1>0, <1>1, <1>2
    <3> QED BY <3>1, <2>1, <1>1, <1>3
  <2>2. CASE ~(i < a)
    <3>1. (u \o v)[i] = v[i - (a - 1)] /\ i - (a - 1) \in 1 .. Len(t) - b
      BY <2>2, <1>0, <1>1, <1>2, <1>3
    <3>2. v[i - (a - 1)] = t[b + (i - (a - 1))]
      BY <3>1, <1>2
    <3>3. b + (i - (a - 1)) = i + (b - a + 1) /\ ~(i < a)
      BY <2>2, <1>0
    <3> QED BY <3>1, <3>2, <3>3
  <2> QED BY <2>1, <2>2
<1>5. Without(t, a, b) = u \o v
  BY DEF Without, u, v
<1>6. Len(u \o v) = Len(t) - (b - a + 1)
  BY <1>0, <1>1, <1>2, <1>3
<1> QED BY <1>3, <1>4, <1>5, <1>6

\* Where a separator is.
CrlfAt(t, i) == /\ i + 3 <= Len(t) /\ t[i] = Sse!Cr /\ t[i + 1] = Sse!Lf
                /\ t[i + 2] = Sse!Cr /\ t[i + 3] = Sse!Lf
LfAt(t, i) == i + 1 <= Len(t) /\ t[i] = Sse!Lf /\ t[i + 1] = Sse!Lf

\* Hits finds the separators.
LEMMA HitsAre ==
  ASSUME NEW t \in Text, NEW p \in Nat \ {0}
  PROVE  /\ Sse!Hits(t, Sse!CrlfTwice, p) = {i \in p .. Len(t) : CrlfAt(t, i)}
         /\ Sse!Hits(t, Sse!LfTwice, p) = {i \in p .. Len(t) : LfAt(t, i)}
<1> USE Texts, Tokens
<1>1. Len(Sse!CrlfTwice) = 4 /\ Len(Sse!LfTwice) = 2
  BY DEF Sse!CrlfTwice, Sse!LfTwice
<1>2. ASSUME NEW i \in p .. Len(t) - 4 + 1
      PROVE  SubSeq(t, i, i + 4 - 1) = Sse!CrlfTwice <=> CrlfAt(t, i)
  <2> DEFINE u == SubSeq(t, i, i + 4 - 1)
  <2>0. i \in Nat /\ i >= 1 /\ i + 3 <= Len(t)
    OBVIOUS
  <2>1. \A j \in i .. i + 4 - 1 : t[j] \in Token
    BY <2>0
  <2>2. u \in Seq(Token) /\ Len(u) = 4 /\ \A j \in 1 .. 4 : u[j] = t[i + j - 1]
    <3>1. /\ u \in Seq(Token) /\ Len(u) = IF i <= i + 4 - 1 THEN i + 4 - 1 - i + 1 ELSE 0
          /\ \A j \in 1 .. i + 4 - 1 - i + 1 : u[j] = t[i + j - 1]
      BY <2>0, <2>1, SubSeqProperties
    <3> HIDE DEF u
    <3> QED BY <3>1, <2>0
  <2>3. Sse!CrlfTwice \in Seq(Token)
    BY DEF Sse!CrlfTwice
  <2> HIDE DEF u
  <2>4. u = Sse!CrlfTwice <=> \A j \in 1 .. 4 : u[j] = Sse!CrlfTwice[j]
    BY <2>2, <2>3, <1>1, SeqEqual
  <2>5. (\A j \in 1 .. 4 : u[j] = Sse!CrlfTwice[j]) <=>
          u[1] = Sse!Cr /\ u[2] = Sse!Lf /\ u[3] = Sse!Cr /\ u[4] = Sse!Lf
    BY DEF Sse!CrlfTwice
  <2>6. u[1] = t[i] /\ u[2] = t[i + 1] /\ u[3] = t[i + 2] /\ u[4] = t[i + 3]
    <3>1. u[1] = t[i + 1 - 1] /\ u[2] = t[i + 2 - 1] /\ u[3] = t[i + 3 - 1]
          /\ u[4] = t[i + 4 - 1]
      BY <2>2
    <3> QED BY <3>1, <2>0
  <2> QED BY <2>0, <2>4, <2>5, <2>6 DEF CrlfAt, u
<1>3. ASSUME NEW i \in p .. Len(t) - 2 + 1
      PROVE  SubSeq(t, i, i + 2 - 1) = Sse!LfTwice <=> LfAt(t, i)
  <2> DEFINE u == SubSeq(t, i, i + 2 - 1)
  <2>0. i \in Nat /\ i >= 1 /\ i + 1 <= Len(t)
    OBVIOUS
  <2>1. \A j \in i .. i + 2 - 1 : t[j] \in Token
    BY <2>0
  <2>2. u \in Seq(Token) /\ Len(u) = 2 /\ \A j \in 1 .. 2 : u[j] = t[i + j - 1]
    <3>1. /\ u \in Seq(Token) /\ Len(u) = IF i <= i + 2 - 1 THEN i + 2 - 1 - i + 1 ELSE 0
          /\ \A j \in 1 .. i + 2 - 1 - i + 1 : u[j] = t[i + j - 1]
      BY <2>0, <2>1, SubSeqProperties
    <3> HIDE DEF u
    <3> QED BY <3>1, <2>0
  <2>3. Sse!LfTwice \in Seq(Token)
    BY DEF Sse!LfTwice
  <2> HIDE DEF u
  <2>4. u = Sse!LfTwice <=> \A j \in 1 .. 2 : u[j] = Sse!LfTwice[j]
    BY <2>2, <2>3, <1>1, SeqEqual
  <2>5. (\A j \in 1 .. 2 : u[j] = Sse!LfTwice[j]) <=> u[1] = Sse!Lf /\ u[2] = Sse!Lf
    BY DEF Sse!LfTwice
  <2>6. u[1] = t[i] /\ u[2] = t[i + 1]
    <3>1. u[1] = t[i + 1 - 1] /\ u[2] = t[i + 2 - 1]
      BY <2>2
    <3> QED BY <3>1, <2>0
  <2> QED BY <2>0, <2>4, <2>5, <2>6 DEF LfAt, u
<1>4. \A i \in p .. Len(t) : CrlfAt(t, i) => i \in p .. Len(t) - 4 + 1
  BY DEF CrlfAt
<1>5. \A i \in p .. Len(t) : LfAt(t, i) => i \in p .. Len(t) - 2 + 1
  BY DEF LfAt
<1>6. \A i \in p .. Len(t) - 4 + 1 : i \in p .. Len(t)
  OBVIOUS
<1>7. \A i \in p .. Len(t) - 2 + 1 : i \in p .. Len(t)
  OBVIOUS
<1> QED BY <1>1, <1>2, <1>3, <1>4, <1>5, <1>6, <1>7 DEF Sse!Hits

\* First finds the smallest position, if there is one.
LEMMA FirstIs ==
  ASSUME NEW S \in SUBSET Nat
  PROVE  /\ S # {} => Sse!First(S) # {}
         /\ \A i \in Sse!First(S) : i \in S /\ \A j \in S : i <= j
BY Smallest DEF Sse!First

-----------------------------------------------------------------------------
(* Comments *)

\* A comment that starts a line at a and is complete with b.
SpanOf(t, a, b) ==
  /\ t[a] = Sse!Comment /\ Sse!LineStart(t, a)
  /\ \E i \in a .. Len(t) : (CrlfAt(t, i) /\ b = i + 3) \/ (LfAt(t, i) /\ b = i + 1)

\* A complete comment starts a line and reaches to a separator.
LEMMA CommentIs ==
  ASSUME NEW t \in Text, NEW span \in Sse!NextCompleteComment(t)
  PROVE  \E a \in 1 .. Len(t), b \in 1 .. Len(t) :
           span = <<a, b>> /\ SpanOf(t, a, b) /\ a + 2 <= b
<1> USE Texts, Tokens
<1> DEFINE starts == {i \in DOMAIN t : t[i] = Sse!Comment /\ Sse!LineStart(t, i)}
           crlf(a) == Sse!First(Sse!Hits(t, Sse!CrlfTwice, a))
           lf(a) == Sse!First(Sse!Hits(t, Sse!LfTwice, a))
<1>1. PICK a \in Sse!First(starts) :
        span \in IF crlf(a) # {} THEN {<<a, i + 3>> : i \in crlf(a)}
                 ELSE {<<a, i + 1>> : i \in lf(a)}
  BY DEF Sse!NextCompleteComment
<1>2. starts \in SUBSET Nat
  OBVIOUS
<1>3. a \in starts
  <2> HIDE DEF starts
  <2> QED BY <1>1, <1>2, FirstIs
<1>4. a \in Nat \ {0} /\ a \in 1 .. Len(t) /\ t[a] = Sse!Comment /\ Sse!LineStart(t, a)
  BY <1>3
<1>5. /\ Sse!Hits(t, Sse!CrlfTwice, a) = {i \in a .. Len(t) : CrlfAt(t, i)}
      /\ Sse!Hits(t, Sse!LfTwice, a) = {i \in a .. Len(t) : LfAt(t, i)}
  BY <1>4, HitsAre
<1>6. /\ {i \in a .. Len(t) : CrlfAt(t, i)} \in SUBSET Nat
      /\ {i \in a .. Len(t) : LfAt(t, i)} \in SUBSET Nat
  BY <1>4
<1>7. /\ \A i \in crlf(a) : i \in a .. Len(t) /\ CrlfAt(t, i)
      /\ \A i \in lf(a) : i \in a .. Len(t) /\ LfAt(t, i)
  BY <1>5, <1>6, FirstIs
<1>8. \/ \E i \in crlf(a) : span = <<a, i + 3>>
      \/ \E i \in lf(a) : span = <<a, i + 1>>
  <2> HIDE DEF crlf, lf
  <2> QED BY <1>1
<1> HIDE DEF crlf, lf, starts
<1>9. CASE \E i \in crlf(a) : span = <<a, i + 3>>
  <2>1. PICK i \in crlf(a) : span = <<a, i + 3>>
    BY <1>9
  <2>2. i \in a .. Len(t) /\ CrlfAt(t, i)
    BY <1>7
  <2>3. i # a
    BY <1>4, <2>2 DEF CrlfAt
  <2>4. i + 3 \in 1 .. Len(t) /\ a + 2 <= i + 3
    BY <1>4, <2>2, <2>3 DEF CrlfAt
  <2>5. SpanOf(t, a, i + 3)
    <3> DEFINE b == i + 3
    <3>1. CrlfAt(t, i) /\ b = i + 3
      BY <2>2
    <3> HIDE DEF b
    <3>2. SpanOf(t, a, b)
      BY <1>4, <2>2, <3>1 DEF SpanOf
    <3> QED BY <3>2 DEF b
  <2> QED BY <2>1, <2>4, <2>5, <1>4
<1>10. CASE \E i \in lf(a) : span = <<a, i + 1>>
  <2>1. PICK i \in lf(a) : span = <<a, i + 1>>
    BY <1>10
  <2>2. i \in a .. Len(t) /\ LfAt(t, i)
    BY <1>7
  <2>3. i # a
    BY <1>4, <2>2 DEF LfAt
  <2>4. i + 1 \in 1 .. Len(t) /\ a + 2 <= i + 1
    BY <1>4, <2>2, <2>3 DEF LfAt
  <2>5. SpanOf(t, a, i + 1)
    BY <1>4, <2>2 DEF SpanOf
  <2> QED BY <2>1, <2>4, <2>5, <1>4
<1> QED BY <1>8, <1>9, <1>10

\* The first comment of a text is found, once a separator is behind it.
LEMMA CommentThere ==
  ASSUME NEW t \in Text, NEW a \in 1 .. Len(t), t[a] = Sse!Comment, Sse!LineStart(t, a),
         \A c \in 1 .. a - 1 : t[c] # Sse!Comment,
         NEW i \in a .. Len(t), CrlfAt(t, i) \/ LfAt(t, i)
  PROVE  Sse!NextCompleteComment(t) # {}
<1> USE Texts
<1> DEFINE starts == {c \in DOMAIN t : t[c] = Sse!Comment /\ Sse!LineStart(t, c)}
           crlf == Sse!First(Sse!Hits(t, Sse!CrlfTwice, a))
           lf == Sse!First(Sse!Hits(t, Sse!LfTwice, a))
<1>1. a \in Sse!First(starts)
  <2>1. a \in starts
    OBVIOUS
  <2>2. \A c \in starts : a <= c
    OBVIOUS
  <2> QED BY <2>1, <2>2 DEF Sse!First
<1>2. /\ Sse!Hits(t, Sse!CrlfTwice, a) = {c \in a .. Len(t) : CrlfAt(t, c)}
      /\ Sse!Hits(t, Sse!LfTwice, a) = {c \in a .. Len(t) : LfAt(t, c)}
  BY HitsAre
<1>3. /\ {c \in a .. Len(t) : CrlfAt(t, c)} \in SUBSET Nat
      /\ {c \in a .. Len(t) : LfAt(t, c)} \in SUBSET Nat
  OBVIOUS
<1>4. crlf # {} \/ lf # {}
  <2>1. CASE CrlfAt(t, i)
    BY <2>1, <1>2, <1>3, FirstIs
  <2>2. CASE LfAt(t, i)
    BY <2>2, <1>2, <1>3, FirstIs
  <2> QED BY <2>1, <2>2
<1>5. (IF crlf # {} THEN {<<a, c + 3>> : c \in crlf} ELSE {<<a, c + 1>> : c \in lf}) # {}
  <2> HIDE DEF crlf, lf
  <2> QED BY <1>4
<1> DEFINE spans(c) == LET ends == Sse!First(Sse!Hits(t, Sse!CrlfTwice, c))
                       IN IF ends # {} THEN {<<c, j + 3>> : j \in ends}
                          ELSE {<<c, j + 1>> : j \in Sse!First(Sse!Hits(t, Sse!LfTwice, c))}
<1>6. Sse!NextCompleteComment(t) = UNION {spans(c) : c \in Sse!First(starts)}
  BY DEF Sse!NextCompleteComment
<1>7. spans(a) # {}
  BY <1>5
<1> HIDE DEF spans, starts
<1> QED BY <1>1, <1>6, <1>7

\* One comment is cut out, or there is none.
LEMMA StripCommentIs ==
  ASSUME NEW t \in Text
  PROVE  \/ Sse!NextCompleteComment(t) = {} /\ Sse!StripComment(t) = t
         \/ \E a \in 1 .. Len(t), b \in 1 .. Len(t) :
              /\ SpanOf(t, a, b) /\ a + 2 <= b
              /\ Sse!StripComment(t) = Without(t, a, b)
<1> DEFINE cutOut(span) == SubSeq(t, 1, span[1] - 1) \o SubSeq(t, span[2] + 1, Len(t))
           stripped == {cutOut(span) : span \in Sse!NextCompleteComment(t)}
<1>0. Sse!StripComment(t) = IF stripped = {} THEN t ELSE CHOOSE u \in stripped : TRUE
  BY DEF Sse!StripComment
<1>1. CASE Sse!NextCompleteComment(t) = {}
  BY <1>0, <1>1
<1>2. CASE Sse!NextCompleteComment(t) # {}
  <2>1. stripped # {}
    BY <1>2
  <2>2. Sse!StripComment(t) \in stripped
    <3> HIDE DEF stripped
    <3> QED BY <1>0, <2>1
  <2> HIDE DEF cutOut
  <2>3. PICK span \in Sse!NextCompleteComment(t) : Sse!StripComment(t) = cutOut(span)
    BY <2>2
  <2>4. PICK a \in 1 .. Len(t), b \in 1 .. Len(t) :
          span = <<a, b>> /\ SpanOf(t, a, b) /\ a + 2 <= b
    BY CommentIs
  <2>5. cutOut(span) = Without(t, a, b)
    BY <2>4 DEF cutOut, Without
  <2> QED BY <2>3, <2>4, <2>5
<1> QED BY <1>1, <1>2

LEMMA StripCommentNone ==
  ASSUME NEW t, Sse!NextCompleteComment(t) = {}
  PROVE  Sse!StripComment(t) = t
BY DEF Sse!StripComment

\* A comment that is cut out takes three tokens at least.
LEMMA StripCommentType ==
  ASSUME NEW t \in Text
  PROVE  /\ Sse!StripComment(t) \in Text
         /\ Len(Sse!StripComment(t)) <= Len(t)
         /\ \/ Sse!NextCompleteComment(t) = {} /\ Sse!StripComment(t) = t
            \/ Len(Sse!StripComment(t)) + 3 <= Len(t)
<1>1. Len(t) \in Nat
  BY Texts
<1>2. CASE Sse!NextCompleteComment(t) = {} /\ Sse!StripComment(t) = t
  BY <1>1, <1>2
<1>3. ASSUME NEW a \in 1 .. Len(t), NEW b \in 1 .. Len(t), a + 2 <= b,
             Sse!StripComment(t) = Without(t, a, b)
      PROVE  Sse!StripComment(t) \in Text /\ Len(Sse!StripComment(t)) + 3 <= Len(t)
  <2>1. b \in a .. Len(t)
    BY <1>1, <1>3
  <2>2. Without(t, a, b) \in Text /\ Len(Without(t, a, b)) = Len(t) - (b - a + 1)
    BY <2>1, WithoutIs
  <2> QED BY <2>2, <1>1, <1>3
<1>4. ASSUME Sse!StripComment(t) \in Text, Len(Sse!StripComment(t)) + 3 <= Len(t)
      PROVE  Len(Sse!StripComment(t)) <= Len(t)
  BY <1>1, <1>4, Texts
<1> QED BY <1>2, <1>3, <1>4, StripCommentIs

\* No comment is left.
LEMMA StripType ==
  ASSUME NEW t \in Text
  PROVE  /\ Sse!StripCompleteComments(t) \in Text
         /\ Len(Sse!StripCompleteComments(t)) <= Len(t)
         /\ Sse!NextCompleteComment(Sse!StripCompleteComments(t)) = {}
<1> DEFINE k == Len(t)
<1>1. k \in Nat /\ \A u \in Text : Sse!StripComment(u) \in Text
  BY Texts, StripCommentType
<1>2. PICK s : /\ s[0] = t
               /\ \A n \in 1 .. k : s[n] = Sse!StripComment(s[n - 1])
               /\ Sse!StripCompleteComments(t) = s[k \div 3]
  BY <1>1, StripTurns
<1> HIDE DEF k
<1> DEFINE f == [n \in 0 .. k |-> <<n, s[n]>>]
           A == {x \in Nat \X Text : /\ Len(x[2]) <= k
                                     /\ \/ Sse!NextCompleteComment(x[2]) = {}
                                        \/ Len(x[2]) + 3 * x[1] <= k}
<1>3. f[0] \in A
  <2>1. f[0] = <<0, t>> /\ Len(t) = k
    BY <1>1, <1>2 DEF k
  <2> QED BY <2>1, <1>1
<1>4. ASSUME NEW n \in 1 .. k, f[n - 1] \in A PROVE f[n] \in A
  <2>1. n - 1 \in 0 .. k /\ n \in 0 .. k /\ n \in Nat
    BY <1>1
  <2>2. f[n - 1] = <<n - 1, s[n - 1]>> /\ f[n] = <<n, s[n]>>
    BY <2>1
  <2>3. /\ s[n - 1] \in Text /\ Len(s[n - 1]) <= k
        /\ \/ Sse!NextCompleteComment(s[n - 1]) = {}
           \/ Len(s[n - 1]) + 3 * (n - 1) <= k
    <3>1. <<n - 1, s[n - 1]>> \in A
      BY <2>2, <1>4
    <3> HIDE DEF f
    <3> QED BY <3>1
  <2>4. s[n] = Sse!StripComment(s[n - 1])
    BY <1>2
  <2>5. /\ s[n] \in Text /\ Len(s[n]) <= Len(s[n - 1])
        /\ \/ Sse!NextCompleteComment(s[n - 1]) = {} /\ s[n] = s[n - 1]
           \/ Len(s[n]) + 3 <= Len(s[n - 1])
    BY <2>3, <2>4, StripCommentType
  <2>6. Len(s[n]) \in Nat /\ Len(s[n - 1]) \in Nat
    BY <2>3, <2>5, Texts
  <2>7. Len(s[n]) <= k
    BY <2>3, <2>5, <2>6, <1>1
  <2>8. Sse!NextCompleteComment(s[n]) = {} \/ Len(s[n]) + 3 * n <= k
    <3>1. ASSUME Len(s[n]) + 3 <= Len(s[n - 1]), Len(s[n - 1]) + 3 * (n - 1) <= k
          PROVE  Len(s[n]) + 3 * n <= k
      <4> DEFINE x == Len(s[n])
                 y == Len(s[n - 1])
      <4>1. x \in Int /\ y \in Int /\ n \in Int /\ k \in Int
        BY <2>1, <2>6, <1>1
      <4>2. x + 3 <= y /\ y + 3 * (n - 1) <= k
        BY <3>1
      <4> HIDE DEF f, A, x, y
      <4>3. x + 3 * n <= k
        BY <4>1, <4>2
      <4> QED BY <4>3 DEF x
    <3>2. CASE Sse!NextCompleteComment(s[n - 1]) = {} /\ s[n] = s[n - 1]
      <4>1. Sse!NextCompleteComment(s[n]) = {}
        BY <3>2
      <4> QED BY <4>1
    <3>3. CASE Len(s[n]) + 3 <= Len(s[n - 1])
      <4>1. CASE Len(s[n - 1]) + 3 * (n - 1) <= k
        BY <3>1, <3>3, <4>1
      <4>2. CASE Sse!NextCompleteComment(s[n - 1]) = {}
        BY <4>2, <2>4, <3>3, <2>6, StripCommentNone
      <4> QED BY <4>1, <4>2, <2>3
    <3> QED BY <3>2, <3>3, <2>5
  <2>9. <<n, s[n]>> \in Nat \X Text
    BY <2>1, <2>5
  <2>10. <<n, s[n]>>[1] = n /\ <<n, s[n]>>[2] = s[n]
    OBVIOUS
  <2>11. <<n, s[n]>> \in A
    <3> DEFINE x == <<n, s[n]>>
    <3> HIDE DEF f, x
    <3> QED BY <2>7, <2>8, <2>9, <2>10 DEF x
  <2> HIDE DEF A
  <2> QED BY <2>2, <2>11
<1>5. \A n \in 0 .. k : f[n] \in A
  <2> HIDE DEF f, A
  <2> QED BY <1>1, <1>3, <1>4, TurnsKeep
<1>6. k \div 3 \in 0 .. k /\ 3 * (k \div 3) >= k - 2
  BY <1>1
<1> DEFINE u == s[k \div 3]
<1>7. u \in Text /\ Len(u) <= k /\ (Sse!NextCompleteComment(u) = {} \/ Len(u) + 3 * (k \div 3) <= k)
  <2>1. f[k \div 3] = <<k \div 3, u>> /\ f[k \div 3] \in A
    BY <1>5, <1>6
  <2> HIDE DEF f, u
  <2> QED BY <2>1
<1>8. Sse!NextCompleteComment(u) = {}
  <2> HIDE DEF u
  <2>1. ASSUME Len(u) + 3 * (k \div 3) <= k, NEW span \in Sse!NextCompleteComment(u) PROVE FALSE
    <3>1. Len(u) \in Nat /\ Len(u) <= 2
      BY <1>1, <1>6, <1>7, <2>1, Texts
    <3>2. PICK a \in 1 .. Len(u), b \in 1 .. Len(u) : a + 2 <= b
      BY <1>7, CommentIs
    <3> QED BY <3>1, <3>2
  <2> QED BY <1>7, <2>1
<1> QED BY <1>2, <1>7, <1>8 DEF k

\* Without a colon there is no comment.
LEMMA CommentFreeIs ==
  ASSUME NEW t \in Text, \A i \in 1 .. Len(t) : t[i] # Sse!Comment
  PROVE  Sse!NextCompleteComment(t) = {}
<1>1. ASSUME NEW span \in Sse!NextCompleteComment(t) PROVE FALSE
  <2>1. PICK a \in 1 .. Len(t), b \in 1 .. Len(t) :
          span = <<a, b>> /\ SpanOf(t, a, b) /\ a + 2 <= b
    BY CommentIs
  <2> QED BY <2>1 DEF SpanOf
<1> QED BY <1>1

LEMMA TailIs ==
  ASSUME NEW t \in Text, NEW b \in 1 .. Len(t)
  PROVE  SubSeq(t, b + 1, Len(t)) = Without(t, 1, b)
<1> DEFINE v == SubSeq(t, b + 1, Len(t))
<1>1. Len(t) \in Nat /\ \A i \in b + 1 .. Len(t) : t[i] \in Token
  BY Texts
<1>2. v \in Seq(Token)
  BY <1>1, SubSeqProperties
<1>3. SubSeq(t, 1, 1 - 1) = <<>>
  BY SubSeqEmpty
<1>4. Without(t, 1, b) = <<>> \o v
  BY <1>3 DEF Without
<1> HIDE DEF v
<1>5. <<>> \o v = v
  BY <1>2, ConcatEmptySeq
<1> QED BY <1>4, <1>5 DEF v

-----------------------------------------------------------------------------
(* The end of a frame *)

\* Where find_frame_end finds one.
Hit(t, i) == CrlfAt(t, i) \/ (LfAt(t, i) /\ ~Sse!PendingAes(t))

\* A frame ends with the first separator that counts.
LEMMA FrameEndIs ==
  ASSUME NEW t \in Text
  PROVE  /\ \A e \in Sse!FrameEnd(t) :
              /\ \E i \in 1 .. Len(t) :
                   \/ CrlfAt(t, i) /\ e = <<i, 4>>
                   \/ LfAt(t, i) /\ ~Sse!PendingAes(t) /\ e = <<i, 2>>
              /\ \A j \in 1 .. Len(t) : Hit(t, j) => e[1] <= j
         /\ (\E j \in 1 .. Len(t) : Hit(t, j)) => Sse!FrameEnd(t) # {}
<1> DEFINE ends == {<<i, 4>> : i \in Sse!Hits(t, Sse!CrlfTwice, 1)} \cup
                     {<<i, 2>> : i \in {j \in Sse!Hits(t, Sse!LfTwice, 1) : ~Sse!PendingAes(t)}}
           S == {j \in 1 .. Len(t) : Hit(t, j)}
<1>0. Len(t) \in Nat
  BY Texts
<1>1. Sse!FrameEnd(t) = {e \in ends : \A f \in ends : e[1] <= f[1]}
  BY DEF Sse!FrameEnd
<1>2. /\ Sse!Hits(t, Sse!CrlfTwice, 1) = {i \in 1 .. Len(t) : CrlfAt(t, i)}
      /\ Sse!Hits(t, Sse!LfTwice, 1) = {i \in 1 .. Len(t) : LfAt(t, i)}
  BY HitsAre
<1>3. ASSUME NEW e \in ends
      PROVE  \E i \in 1 .. Len(t) :
               \/ CrlfAt(t, i) /\ e = <<i, 4>>
               \/ LfAt(t, i) /\ ~Sse!PendingAes(t) /\ e = <<i, 2>>
  BY <1>2
<1>4. ASSUME NEW j \in 1 .. Len(t), Hit(t, j)
      PROVE  \E f \in ends : f[1] = j
  <2>1. CASE CrlfAt(t, j)
    <3>1. <<j, 4>> \in ends /\ <<j, 4>>[1] = j
      BY <1>2, <2>1
    <3> HIDE DEF ends
    <3> QED BY <3>1
  <2>2. CASE LfAt(t, j) /\ ~Sse!PendingAes(t)
    <3>1. <<j, 2>> \in ends /\ <<j, 2>>[1] = j
      BY <1>2, <2>2
    <3> HIDE DEF ends
    <3> QED BY <3>1
  <2> QED BY <2>1, <2>2, <1>4 DEF Hit
<1> HIDE DEF ends
<1>5. ASSUME NEW e \in ends PROVE e[1] \in S
  <2>1. PICK i \in 1 .. Len(t) :
               \/ CrlfAt(t, i) /\ e = <<i, 4>>
               \/ LfAt(t, i) /\ ~Sse!PendingAes(t) /\ e = <<i, 2>>
    BY <1>3
  <2>2. e[1] = i /\ Hit(t, i)
    BY <2>1 DEF Hit
  <2> QED BY <2>2
<1>6. ASSUME NEW e \in Sse!FrameEnd(t)
      PROVE  /\ \E i \in 1 .. Len(t) :
                   \/ CrlfAt(t, i) /\ e = <<i, 4>>
                   \/ LfAt(t, i) /\ ~Sse!PendingAes(t) /\ e = <<i, 2>>
             /\ \A j \in 1 .. Len(t) : Hit(t, j) => e[1] <= j
  <2>1. e \in ends /\ \A f \in ends : e[1] <= f[1]
    BY <1>1
  <2>2. ASSUME NEW j \in 1 .. Len(t), Hit(t, j) PROVE e[1] <= j
    BY <2>1, <2>2, <1>4
  <2> QED BY <2>1, <2>2, <1>3
<1>7. ASSUME NEW j \in 1 .. Len(t), Hit(t, j) PROVE Sse!FrameEnd(t) # {}
  <2>1. j \in S /\ S \in SUBSET Nat
    BY <1>7, <1>0
  <2>2. PICK m \in S : \A l \in S : m <= l
    <3> HIDE DEF S
    <3> QED BY <2>1, Smallest
  <2>3. PICK f \in ends : f[1] = m
    BY <1>4, <2>2
  <2>4. \A g \in ends : f[1] <= g[1]
    BY <2>2, <2>3, <1>5
  <2> QED BY <1>1, <2>3, <2>4
<1> QED BY <1>6, <1>7

\* Without a separator there is nothing to find.
LEMMA NoHits ==
  ASSUME NEW t \in Text, \A i \in 1 .. Len(t) : ~CrlfAt(t, i) /\ ~LfAt(t, i)
  PROVE  Sse!FrameEnd(t) = {} /\ Sse!NextCompleteComment(t) = {}
<1>1. ASSUME NEW e \in Sse!FrameEnd(t) PROVE FALSE
  BY FrameEndIs
<1>2. ASSUME NEW span \in Sse!NextCompleteComment(t) PROVE FALSE
  <2>1. PICK a \in 1 .. Len(t), b \in 1 .. Len(t) :
          span = <<a, b>> /\ SpanOf(t, a, b) /\ a + 2 <= b
    BY CommentIs
  <2>2. PICK i \in a .. Len(t) : CrlfAt(t, i) \/ LfAt(t, i)
    BY <2>1 DEF SpanOf
  <2>3. i \in 1 .. Len(t)
    BY <2>2, Texts
  <2> QED BY <2>2, <2>3
<1> QED BY <1>1, <1>2

\* Frames are what a drain may hand on.
Frames == (Text \cup {Sse!Payload(b) : b \in Text}) \ {<<>>}

\* A block gives a frame or nothing.
LEMMA ExtractedType ==
  ASSUME NEW b \in Text
  PROVE  Sse!Extracted(b) \in Seq(Frames)
<1>1. CASE Sse!Recognised(Sse!Payload(b))
  <2>1. Sse!Payload(b) # <<>>
    <3>1. Len(<<>>) # 1
      OBVIOUS
    <3> QED BY <1>1, <3>1 DEF Sse!Recognised
  <2>2. Sse!Payload(b) \in Frames
    BY <2>1 DEF Frames
  <2> HIDE DEF Frames
  <2>3. Sse!Extracted(b) = <<Sse!Payload(b)>>
    BY <1>1 DEF Sse!Extracted
  <2> QED BY <2>2, <2>3
<1>2. CASE ~Sse!Recognised(Sse!Payload(b))
  BY <1>2, EmptySeq DEF Sse!Extracted
<1> QED BY <1>1, <1>2

\* What a turn at end e leaves of d.
Turn(d, e) ==
  [frames |-> d.frames \o Sse!Extracted(SubSeq(d.rest, 1, e[1] - 1)),
   rest |-> Sse!StripCompleteComments(Without(d.rest, 1, e[1] + e[2] - 1))]

\* A turn of the loop of drain_sse_armors.
LEMMA DrainFrameIs ==
  ASSUME NEW d, d.rest \in Text
  PROVE  \/ Sse!FrameEnd(d.rest) = {} /\ Sse!DrainFrame(d) = d
         \/ \E e \in Sse!FrameEnd(d.rest) : Sse!DrainFrame(d) = Turn(d, e)
<1> DEFINE turnAt(e) == [frames |-> d.frames \o Sse!Extracted(SubSeq(d.rest, 1, e[1] - 1)),
                         rest |-> Sse!StripCompleteComments(
                                    SubSeq(d.rest, e[1] + e[2], Len(d.rest)))]
           turn == {turnAt(e) : e \in Sse!FrameEnd(d.rest)}
<1>1. Sse!DrainFrame(d) = IF turn = {} THEN d ELSE CHOOSE x \in turn : TRUE
  BY DEF Sse!DrainFrame
<1>2. CASE Sse!FrameEnd(d.rest) = {}
  BY <1>1, <1>2
<1>3. CASE Sse!FrameEnd(d.rest) # {}
  <2>1. Sse!DrainFrame(d) \in turn
    <3>1. turn # {}
      BY <1>3
    <3> HIDE DEF turn
    <3> QED BY <1>1, <3>1
  <2> HIDE DEF turnAt
  <2>2. PICK e \in Sse!FrameEnd(d.rest) : Sse!DrainFrame(d) = turnAt(e)
    BY <2>1
  <2>3. e[1] + e[2] - 1 \in 1 .. Len(d.rest) /\ e[1] + e[2] = e[1] + e[2] - 1 + 1
    <3>1. PICK i \in 1 .. Len(d.rest) :
            \/ CrlfAt(d.rest, i) /\ e = <<i, 4>>
            \/ LfAt(d.rest, i) /\ e = <<i, 2>>
      BY FrameEndIs
    <3> QED BY <3>1, Texts DEF CrlfAt, LfAt
  <2>4. SubSeq(d.rest, e[1] + e[2], Len(d.rest)) = Without(d.rest, 1, e[1] + e[2] - 1)
    <3> DEFINE b == e[1] + e[2] - 1
    <3>1. b \in 1 .. Len(d.rest) /\ e[1] + e[2] = b + 1
      BY <2>3
    <3> HIDE DEF b
    <3>2. SubSeq(d.rest, b + 1, Len(d.rest)) = Without(d.rest, 1, b)
      BY <3>1, TailIs
    <3> QED BY <3>1, <3>2 DEF b
  <2> QED BY <2>2, <2>4 DEF turnAt, Turn
<1> QED BY <1>2, <1>3

Drained == [frames : Seq(Frames), rest : Text]

\* A turn shortens the buffer and adds to the frames.
LEMMA TurnType ==
  ASSUME NEW d \in Drained, NEW e \in Sse!FrameEnd(d.rest)
  PROVE  /\ Turn(d, e) \in Drained
         /\ Sse!NextCompleteComment(Turn(d, e).rest) = {}
         /\ Len(Turn(d, e).rest) + 2 <= Len(d.rest)
         /\ \E g \in Seq(Frames) : Turn(d, e).frames = d.frames \o g
<1> DEFINE t == d.rest
<1>0. t \in Text /\ d.frames \in Seq(Frames) /\ Len(t) \in Nat
  BY Texts DEF Drained
<1>1. PICK i \in 1 .. Len(t) :
        \/ CrlfAt(t, i) /\ e = <<i, 4>>
        \/ LfAt(t, i) /\ e = <<i, 2>>
  BY <1>0, FrameEndIs
<1> DEFINE b == e[1] + e[2] - 1
           u == Without(t, 1, b)
           w == Sse!StripCompleteComments(u)
           block == SubSeq(t, 1, e[1] - 1)
<1>2. e[1] = i /\ b \in 1 .. Len(t) /\ b >= 2
  BY <1>0, <1>1 DEF CrlfAt, LfAt
<1>3. u \in Text /\ Len(u) = Len(t) - b
  <2> HIDE DEF b, t
  <2>1. b \in 1 .. Len(t) /\ 1 \in 1 .. Len(t)
    BY <1>2, <1>0
  <2>2. u \in Text /\ Len(u) = Len(t) - (b - 1 + 1)
    BY <2>1, <1>0, WithoutIs
  <2> QED BY <2>1, <2>2, <1>0
<1>4. w \in Text /\ Len(w) <= Len(u) /\ Sse!NextCompleteComment(w) = {}
  <2> HIDE DEF u
  <2> QED BY <1>3, StripType
<1>5. block \in Text
  <2>1. \A j \in 1 .. i - 1 : t[j] \in Token
    BY <1>0, Texts
  <2>2. SubSeq(t, 1, i - 1) \in Seq(Token)
    BY <2>1, SubSeqProperties
  <2> QED BY <2>2, <1>2 DEF Text
<1>6. d.frames \o Sse!Extracted(block) \in Seq(Frames)
  <2> DEFINE x == Sse!Extracted(block)
             y == d.frames
  <2>1. x \in Seq(Frames) /\ y \in Seq(Frames)
    BY <1>0, <1>5, ExtractedType
  <2> HIDE DEF x, y
  <2>2. y \o x \in Seq(Frames)
    BY <2>1, ConcatProperties
  <2> QED BY <2>2 DEF x, y
<1>7. Turn(d, e) = [frames |-> d.frames \o Sse!Extracted(block), rest |-> w]
  BY DEF Turn
<1>8. Len(w) + 2 <= Len(t)
  <2>1. Len(w) \in Nat /\ Len(u) \in Nat
    BY <1>3, <1>4, Texts
  <2>2. \A x, y, l, m \in Nat : x <= y /\ y = l - m /\ m >= 2 => x + 2 <= l
    OBVIOUS
  <2>3. b \in Nat
    BY <1>0, <1>2
  <2> HIDE DEF w, u, t, b
  <2> QED BY <2>1, <2>2, <2>3, <1>0, <1>2, <1>3, <1>4
<1>10. Sse!Extracted(block) \in Seq(Frames)
  BY <1>5, ExtractedType
<1> HIDE DEF w, block, t
<1>9. Turn(d, e).rest = w /\ Turn(d, e) \in Drained
  BY <1>4, <1>6, <1>7 DEF Drained
<1>11. Turn(d, e).frames = d.frames \o Sse!Extracted(block)
  BY <1>7
<1> QED BY <1>4, <1>8, <1>9, <1>10, <1>11 DEF t

\* A drain leaves neither a complete frame nor a complete comment.
LEMMA DrainType ==
  ASSUME NEW t \in Text
  PROVE  /\ Sse!Drain(t) \in Drained
         /\ Sse!FrameEnd(Sse!Drain(t).rest) = {}
         /\ Sse!NextCompleteComment(Sse!Drain(t).rest) = {}
<1> DEFINE k == Len(t)
           base == [frames |-> <<>>, rest |-> Sse!StripCompleteComments(t)]
           D == {d \in Drained : Sse!NextCompleteComment(d.rest) = {}}
<1>1. k \in Nat
  BY Texts
<1>2. /\ base \in D /\ Len(base.rest) <= k
      /\ base.rest = Sse!StripCompleteComments(t)
  <2>1. <<>> \in Seq(Frames)
    BY EmptySeq
  <2>2. /\ Sse!StripCompleteComments(t) \in Text
        /\ Len(Sse!StripCompleteComments(t)) <= k
        /\ Sse!NextCompleteComment(Sse!StripCompleteComments(t)) = {}
    BY StripType
  <2> QED BY <2>1, <2>2 DEF Drained
<1> HIDE DEF base, k
<1>3. ASSUME NEW d \in D
      PROVE  /\ Sse!DrainFrame(d) \in D
             /\ \/ Sse!FrameEnd(d.rest) = {} /\ Sse!DrainFrame(d) = d
                \/ Len(Sse!DrainFrame(d).rest) + 2 <= Len(d.rest)
  <2>1. d \in Drained /\ d.rest \in Text
    BY DEF Drained
  <2>2. CASE Sse!FrameEnd(d.rest) = {} /\ Sse!DrainFrame(d) = d
    BY <2>2
  <2>3. CASE \E e \in Sse!FrameEnd(d.rest) : Sse!DrainFrame(d) = Turn(d, e)
    BY <2>1, <2>3, TurnType
  <2> QED BY <2>1, <2>2, <2>3, DrainFrameIs
<1>4. PICK s : /\ s[0] = base
               /\ \A n \in 1 .. k : s[n] = Sse!DrainFrame(s[n - 1])
               /\ Sse!Drain(t) = s[k \div 2]
  <2>1. \A d \in D : Sse!DrainFrame(d) \in D
    BY <1>3
  <2> HIDE DEF D
  <2> QED BY <1>1, <1>2, <2>1, DrainTurns DEF base, k
<1> DEFINE f == [n \in 0 .. k |-> <<n, s[n]>>]
           A == {x \in Nat \X D : /\ Len(x[2].rest) <= k
                                  /\ \/ Sse!FrameEnd(x[2].rest) = {}
                                     \/ Len(x[2].rest) + 2 * x[1] <= k}
<1>5. \A d \in D : Len(d.rest) \in Nat
  BY Texts DEF Drained
<1>6. \A n \in Nat, d \in D : <<n, d>> \in A <=> /\ Len(d.rest) <= k
                                                /\ \/ Sse!FrameEnd(d.rest) = {}
                                                   \/ Len(d.rest) + 2 * n <= k
  <2> HIDE DEF D
  <2> QED OBVIOUS
<1>7. f[0] \in A
  <2>1. f[0] = <<0, base>>
    BY <1>1, <1>4
  <2>2. Len(base.rest) + 2 * 0 <= k /\ Len(base.rest) <= k
    BY <1>1, <1>2, <1>5
  <2>3. <<0, base>> \in A
    <3> HIDE DEF D, A
    <3> QED BY <2>2, <1>2, <1>6
  <2> QED BY <2>1, <2>3
<1>8. ASSUME NEW n \in 1 .. k, f[n - 1] \in A PROVE f[n] \in A
  <2>1. n - 1 \in 0 .. k /\ n \in 0 .. k /\ n \in Nat /\ n - 1 \in Nat
    BY <1>1
  <2>2. f[n - 1] = <<n - 1, s[n - 1]>> /\ f[n] = <<n, s[n]>>
    BY <2>1
  <2>3. <<n - 1, s[n - 1]>> \in A
    BY <2>2, <1>8
  <2>4. s[n - 1] \in D
    <3> HIDE DEF D, f
    <3> QED BY <2>3
  <2>5. s[n] = Sse!DrainFrame(s[n - 1])
    BY <1>4
  <2>6. /\ s[n] \in D
        /\ \/ Sse!FrameEnd(s[n - 1].rest) = {} /\ s[n] = s[n - 1]
           \/ Len(s[n].rest) + 2 <= Len(s[n - 1].rest)
    <3> HIDE DEF D
    <3> QED BY <2>4, <2>5, <1>3
  <2> HIDE DEF D, A, f
  <2>7. /\ Len(s[n - 1].rest) <= k
        /\ \/ Sse!FrameEnd(s[n - 1].rest) = {}
           \/ Len(s[n - 1].rest) + 2 * (n - 1) <= k
    BY <2>1, <2>3, <2>4, <1>6
  <2>8. /\ Len(s[n].rest) <= k
        /\ Sse!FrameEnd(s[n].rest) = {} \/ Len(s[n].rest) + 2 * n <= k
    <3> DEFINE x == Len(s[n].rest)
               y == Len(s[n - 1].rest)
    <3>0. x \in Nat /\ y \in Nat
      BY <2>4, <2>6, <1>5
    <3>1. CASE Sse!FrameEnd(s[n - 1].rest) = {} /\ s[n] = s[n - 1]
      <4>1. Sse!FrameEnd(s[n].rest) = {} /\ Len(s[n].rest) <= k
        BY <3>1, <2>7
      <4> QED BY <4>1
    <3>2. CASE x + 2 <= y /\ Sse!FrameEnd(s[n - 1].rest) # {}
      <4>1. y + 2 * (n - 1) <= k
        BY <3>2, <2>7
      <4> HIDE DEF x, y
      <4>2. x + 2 * n <= k /\ x <= k
        BY <3>0, <3>2, <4>1, <2>1, <1>1
      <4> QED BY <4>2 DEF x
    <3>3. CASE x + 2 <= y /\ Sse!FrameEnd(s[n - 1].rest) = {}
      <4>1. s[n - 1].rest \in Text
        BY <2>4 DEF D, Drained
      <4>2. s[n] = s[n - 1]
        BY <3>3, <4>1, <2>5, DrainFrameIs
      <4>3. Sse!FrameEnd(s[n].rest) = {} /\ Len(s[n].rest) <= k
        BY <3>3, <4>2, <2>7
      <4> QED BY <4>3
    <3> QED BY <3>1, <3>2, <3>3, <2>6
  <2>9. <<n, s[n]>> \in A
    BY <2>1, <2>6, <2>8, <1>6
  <2> QED BY <2>2, <2>9
<1>9. \A n \in 0 .. k : f[n] \in A
  <2> HIDE DEF f, A
  <2> QED BY <1>1, <1>7, <1>8, TurnsKeep
<1>10. k \div 2 \in 0 .. k /\ 2 * (k \div 2) >= k - 1 /\ k \div 2 \in Nat
  BY <1>1
<1> DEFINE r == s[k \div 2]
<1>11. <<k \div 2, r>> \in A
  <2>1. f[k \div 2] = <<k \div 2, r>> /\ f[k \div 2] \in A
    BY <1>9, <1>10
  <2> HIDE DEF f, r
  <2> QED BY <2>1
<1>12. r \in D
  <2> HIDE DEF D, r
  <2> QED BY <1>11
<1>13. Sse!FrameEnd(r.rest) = {} \/ Len(r.rest) + 2 * (k \div 2) <= k
  <2> HIDE DEF D, A, r
  <2> QED BY <1>6, <1>10, <1>11, <1>12
<1>14. Sse!FrameEnd(r.rest) = {}
  <2>0. r.rest \in Text
    BY <1>12 DEF Drained
  <2> HIDE DEF D, r
  <2>1. ASSUME Len(r.rest) + 2 * (k \div 2) <= k, NEW e \in Sse!FrameEnd(r.rest)
        PROVE  FALSE
    <3>1. Len(r.rest) \in Nat /\ Len(r.rest) <= 1
      <4> DEFINE l == Len(r.rest)
                 h == k \div 2
      <4>1. l \in Nat /\ h \in Nat /\ 2 * h >= k - 1 /\ l + 2 * h <= k
        BY <2>0, <2>1, <1>10, Texts
      <4> HIDE DEF l, h
      <4>2. l \in Nat /\ l <= 1
        BY <4>1, <1>1
      <4> QED BY <4>2 DEF l
    <3>2. PICK i \in 1 .. Len(r.rest) : CrlfAt(r.rest, i) \/ LfAt(r.rest, i)
      BY <2>0, FrameEndIs
    <3> QED BY <3>1, <3>2 DEF CrlfAt, LfAt
  <2> QED BY <1>13, <2>1
<1> QED BY <1>4, <1>12, <1>14

\* The model's own copies of two operators of the library.
LEMMA Counting ==
  /\ \A x : Sse!Cardinality({x}) = 1
  /\ \A x, y : x # y => Sse!Cardinality({x, y}) = 2
<1>1. ASSUME NEW S PROVE Sse!Cardinality(S) = Cardinality(S)
  BY DEF Sse!Cardinality, Cardinality
<1>2. ASSUME NEW x PROVE Cardinality({x}) = 1
  BY FS_Singleton
<1>3. ASSUME NEW x, NEW y, x # y PROVE Cardinality({x, y}) = 2
  <2>1. IsFiniteSet({x}) /\ y \notin {x}
    BY <1>3, FS_Singleton
  <2>2. Cardinality({x} \cup {y}) = Cardinality({x}) + 1
    BY <2>1, FS_AddElement
  <2>3. {x} \cup {y} = {x, y}
    OBVIOUS
  <2> QED BY <2>2, <2>3, <1>2
<1> QED BY <1>1, <1>2, <1>3

\* Min and Max of a set of integers.
LEMMA Extremes ==
  ASSUME NEW S \in SUBSET Int, NEW m \in S
  PROVE  /\ (\A n \in S : m <= n) => Sse!Min(S) = m
         /\ (\A n \in S : n <= m) => Sse!Max(S) = m
<1>1. ASSUME \A n \in S : m <= n PROVE Sse!Min(S) = m
  <2>1. Sse!Min(S) \in S /\ \A n \in S : Sse!Min(S) <= n
    BY <1>1 DEF Sse!Min
  <2> DEFINE x == Sse!Min(S)
  <2>2. x \in Int /\ m \in Int /\ x <= m /\ m <= x
    BY <1>1, <2>1
  <2> HIDE DEF x
  <2>3. x = m
    BY <2>2
  <2> QED BY <2>3 DEF x
<1>2. ASSUME \A n \in S : n <= m PROVE Sse!Max(S) = m
  <2>1. Sse!Max(S) \in S /\ \A n \in S : n <= Sse!Max(S)
    BY <1>2 DEF Sse!Max
  <2> DEFINE x == Sse!Max(S)
  <2>2. x \in Int /\ m \in Int /\ x <= m /\ m <= x
    BY <1>2, <2>1
  <2> HIDE DEF x
  <2>3. x = m
    BY <2>2
  <2> QED BY <2>3 DEF x
<1> QED BY <1>1, <1>2

\* A text that ends in ink on both sides is not trimmed.
LEMMA TrimInked ==
  ASSUME NEW u \in Text, u # <<>>, ~Sse!Blank(u[1]), ~Sse!Blank(u[Len(u)])
  PROVE  Sse!Trim(u) = u
<1> DEFINE inked == {i \in DOMAIN u : ~Sse!Blank(u[i])}
<1>1. Len(u) \in Nat \ {0} /\ DOMAIN u = 1 .. Len(u)
  BY Texts, EmptySeq DEF Text
<1>2. 1 \in inked /\ Len(u) \in inked /\ inked \in SUBSET Int
      /\ \A i \in inked : 1 <= i /\ i <= Len(u)
  BY <1>1
<1>3. Sse!Trim(u) = IF inked = {} THEN <<>> ELSE SubSeq(u, Sse!Min(inked), Sse!Max(inked))
  BY DEF Sse!Trim
<1> HIDE DEF inked
<1>4. Sse!Min(inked) = 1 /\ Sse!Max(inked) = Len(u)
  BY <1>2, Extremes
<1>5. SubSeq(u, 1, Len(u)) = u
  BY SubSeqFull DEF Text
<1> QED BY <1>2, <1>3, <1>4, <1>5

\* A token that is neither white space nor a prefix of a line.
Ink == {x \in Token : x \notin {Sse!Data, Sse!Comment} /\ ~Sse!Blank(x)}

LEMMA KeptOne ==
  ASSUME NEW b, NEW x \in Int, b[x] \in Ink
  PROVE  Sse!Kept(b, {x}) = <<b[x]>>
<1> DEFINE nth(k) == CHOOSE i \in {x} : Sse!Cardinality({j \in {x} : j <= i}) = k
           u == [k \in 1 .. Sse!Cardinality({x}) |-> b[nth(k)]]
<1>1. Sse!Kept(b, {x}) = Sse!Trim(u)
  BY DEF Sse!Kept
<1>2. Sse!Cardinality({x}) = 1
  BY Counting
<1>3. nth(1) = x
  <2>1. {j \in {x} : j <= x} = {x}
    OBVIOUS
  <2> QED BY <2>1, <1>2
<1> HIDE DEF nth
<1>4. u = <<b[x]>>
  BY <1>2, <1>3
<1>5. <<b[x]>> \in Text /\ ~Sse!Blank(<<b[x]>>[1]) /\ <<b[x]>> # <<>> /\ Len(<<b[x]>>) = 1
  BY DEF Ink, Text
<1>6. Sse!Trim(<<b[x]>>) = <<b[x]>>
  BY <1>5, TrimInked
<1> QED BY <1>1, <1>4, <1>6

LEMMA KeptTwo ==
  ASSUME NEW b, NEW x \in Int, NEW y \in Int, x < y, b[x] \in Ink, b[y] \in Ink
  PROVE  Sse!Kept(b, {x, y}) = <<b[x], b[y]>>
<1> DEFINE P == {x, y}
           nth(k) == CHOOSE i \in P : Sse!Cardinality({j \in P : j <= i}) = k
           u == [k \in 1 .. Sse!Cardinality(P) |-> b[nth(k)]]
<1>1. Sse!Kept(b, P) = Sse!Trim(u)
  BY DEF Sse!Kept
<1>2. Sse!Cardinality(P) = 2 /\ Sse!Cardinality({x}) = 1
  <2>1. x # y
    OBVIOUS
  <2> QED BY <2>1, Counting
<1>3. {j \in P : j <= x} = {x} /\ {j \in P : j <= y} = P
  <2>1. (x <= x) /\ (x <= y) /\ (y <= y) /\ ~(y <= x)
    OBVIOUS
  <2>2. \A j : j \in P <=> j = x \/ j = y
    OBVIOUS
  <2> HIDE DEF P
  <2>3. \A j : j \in P /\ (j <= x) <=> j = x
    BY <2>1, <2>2
  <2>4. \A j \in P : j <= y
    BY <2>1, <2>2
  <2>5. {j \in P : j <= x} = {x}
    BY <2>3
  <2> QED BY <2>4, <2>5
<1>4. nth(1) = x
  <2>1. \A i \in P : Sse!Cardinality({j \in P : j <= i}) = 1 <=> i = x
    BY <1>2, <1>3
  <2> QED BY <2>1
<1>5. nth(2) = y
  <2>1. \A i \in P : Sse!Cardinality({j \in P : j <= i}) = 2 <=> i = y
    BY <1>2, <1>3
  <2> QED BY <2>1
<1> HIDE DEF nth, P
<1>6. u = <<b[x], b[y]>>
  BY <1>2, <1>4, <1>5
<1>7. /\ <<b[x], b[y]>> \in Text /\ <<b[x], b[y]>> # <<>> /\ Len(<<b[x], b[y]>>) = 2
      /\ ~Sse!Blank(<<b[x], b[y]>>[1]) /\ ~Sse!Blank(<<b[x], b[y]>>[2])
  BY DEF Ink, Text
<1>8. Sse!Trim(<<b[x], b[y]>>) = <<b[x], b[y]>>
  BY <1>7, TrimInked
<1> QED BY <1>1, <1>6, <1>8 DEF P

LEMMA Inks ==
  /\ \A n \in Int : {Sse!BlobHead(n), Sse!BlobTail(n), Sse!Json(n)} \subseteq Ink
  /\ \A x \in Ink : /\ x \in Token /\ x \notin {Sse!Data, Sse!Comment, Sse!Cr, Sse!Lf}
                    /\ ~Sse!Blank(x)
  /\ Ink \subseteq Token
<1>1. ASSUME NEW n \in Int, NEW x \in {Sse!BlobHead(n), Sse!BlobTail(n), Sse!Json(n)}
      PROVE  x \in Ink
  <2>1. x \in Token /\ x \notin {Sse!Data, Sse!Comment, Sse!Cr, Sse!Lf} /\ ~Sse!Blank(x)
    BY Tokens
  <2> QED BY <2>1 DEF Ink
<1>2. ASSUME NEW x \in Ink
      PROVE  x \in Token /\ x \notin {Sse!Data, Sse!Comment, Sse!Cr, Sse!Lf} /\ ~Sse!Blank(x)
  <2>1. x \in Token /\ x \notin {Sse!Data, Sse!Comment} /\ ~Sse!Blank(x)
    BY DEF Ink
  <2>2. x # Sse!Cr /\ x # Sse!Lf
    BY <2>1, Tokens
  <2> QED BY <2>1, <2>2
<1> QED BY <1>1, <1>2 DEF Ink

-----------------------------------------------------------------------------
(* The payloads of the four kinds of block *)

\* A Chat frame, a line without data:.
LEMMA PayloadBare ==
  ASSUME NEW h \in Ink
  PROVE  Sse!Payload(<<h>>) = <<h>>
<1> DEFINE b == <<h>>
<1>1. h # Sse!Data /\ ~Sse!Blank(h) /\ h \in Token
  BY Inks
<1>2. DOMAIN b = {1} /\ b[1] = h
  OBVIOUS
<1>3. Sse!DataLines(b) = {}
  BY <1>1, <1>2 DEF Sse!DataLines, Sse!BlockLines
<1>4. Sse!Payload(b) = Sse!Trim(b)
  BY <1>3 DEF Sse!Payload
<1>5. b \in Text /\ b # <<>> /\ Len(b) = 1
  BY <1>1 DEF Text
<1> QED BY <1>1, <1>2, <1>4, <1>5, TrimInked

\* A block of one line that starts with data:.
LEMMA OneLine ==
  ASSUME NEW b \in Text, Len(b) \in 2 .. 3, b[1] = Sse!Data, \A i \in 2 .. Len(b) : b[i] \in Ink
  PROVE  Sse!Payload(b) = Sse!Kept(b, 2 .. Len(b))
<1> DEFINE k == Len(b)
<1>1. DOMAIN b = 1 .. k /\ k \in 2 .. 3
  BY Texts
<1>2. \A i \in 1 .. k : Sse!LineStart(b, i) <=> i = 1
  <2>1. ASSUME NEW i \in 2 .. k PROVE ~Sse!LineStart(b, i)
    <3>1. b[i - 1] = Sse!Data \/ b[i - 1] \in Ink
      BY <1>1
    <3>2. b[i - 1] # Sse!Lf
      BY <3>1, Inks, Tokens
    <3> QED BY <3>2 DEF Sse!LineStart
  <2>2. Sse!LineStart(b, 1)
    BY DEF Sse!LineStart
  <2> QED BY <2>1, <2>2, <1>1
<1> HIDE DEF k
<1>3. Sse!BlockLines(b) = {1} /\ Sse!DataLines(b) = {1}
  <2>1. ~Sse!Blank(b[1]) /\ b[1] # Sse!Comment
    BY Tokens
  <2>2. Sse!BlockLines(b) = {1}
    BY <2>1, <1>1, <1>2 DEF Sse!BlockLines
  <2> QED BY <2>2 DEF Sse!DataLines
<1>4. Sse!Min({1}) = 1
  BY Extremes
<1>5. Sse!Payload(b) = Sse!Kept(b, Sse!Content(b))
  BY <1>3 DEF Sse!Payload
<1>6. Sse!Content(b) = 2 .. k
  <2> DEFINE top(i) == Sse!Max({0} \cup {j \in 1 .. i : Sse!LineStart(b, j)})
  <2>1. ASSUME NEW i \in 1 .. k PROVE top(i) = 1
    <3>1. {0} \cup {j \in 1 .. i : Sse!LineStart(b, j)} = {0, 1}
      BY <1>1, <1>2
    <3>2. Sse!Max({0, 1}) = 1
      BY Extremes
    <3> QED BY <3>1, <3>2
  <2>2. \A i \in 2 .. k : b[i] # Sse!Cr
    BY Inks DEF k
  <2>3. {i \in Sse!BlockLines(b) : i >= Sse!Min(Sse!DataLines(b))} = {1}
    BY <1>3, <1>4
  <2>4. Sse!Content(b) = {i \in DOMAIN b \ Sse!DataLines(b) : top(i) \in {1} /\ b[i] # Sse!Cr}
    BY <2>3 DEF Sse!Content
  <2> HIDE DEF top
  <2>5. DOMAIN b \ Sse!DataLines(b) = 2 .. k
    BY <1>1, <1>3
  <2> QED BY <2>1, <2>2, <2>4, <2>5, <1>1
<1> QED BY <1>5, <1>6 DEF k

\* A JSON frame.
LEMMA PayloadData ==
  ASSUME NEW h \in Ink
  PROVE  Sse!Payload(<<Sse!Data, h>>) = <<h>>
<1> DEFINE b == <<Sse!Data, h>>
<1>1. b \in Text /\ Len(b) = 2 /\ b[1] = Sse!Data /\ b[2] = h
  BY Inks, Tokens DEF Text
<1> HIDE DEF b
<1>2. Sse!Payload(b) = Sse!Kept(b, 2 .. 2)
  <2>1. Len(b) \in 2 .. 3 /\ \A i \in 2 .. Len(b) : b[i] \in Ink
    BY <1>1
  <2>2. Sse!Payload(b) = Sse!Kept(b, 2 .. Len(b))
    BY <1>1, <2>1, OneLine
  <2> QED BY <1>1, <2>2
<1>3. 2 .. 2 = {2}
  OBVIOUS
<1>4. Sse!Kept(b, {2}) = <<h>>
  BY <1>1, KeptOne
<1> QED BY <1>2, <1>3, <1>4 DEF b

\* An AES blob.
LEMMA PayloadBlob ==
  ASSUME NEW h \in Ink, NEW g \in Ink
  PROVE  Sse!Payload(<<Sse!Data, h, g>>) = <<h, g>>
<1> DEFINE b == <<Sse!Data, h, g>>
<1>1. b \in Text /\ Len(b) = 3 /\ b[1] = Sse!Data /\ b[2] = h /\ b[3] = g
  BY Inks, Tokens DEF Text
<1> HIDE DEF b
<1>2. Sse!Payload(b) = Sse!Kept(b, 2 .. 3)
  <2>1. Len(b) \in 2 .. 3 /\ \A i \in 2 .. Len(b) : b[i] \in Ink
    BY <1>1
  <2>2. Sse!Payload(b) = Sse!Kept(b, 2 .. Len(b))
    BY <1>1, <2>1, OneLine
  <2> QED BY <1>1, <2>2
<1>3. 2 .. 3 = {2, 3}
  OBVIOUS
<1>4. Sse!Kept(b, {2, 3}) = <<h, g>>
  BY <1>1, KeptTwo
<1> QED BY <1>2, <1>3, <1>4 DEF b

\* An AES blob that a comment interrupted: its halves are joined.
LEMMA PayloadCut ==
  ASSUME NEW h \in Ink, NEW g \in Ink
  PROVE  Sse!Payload(<<Sse!Data, h, Sse!Lf, g>>) = <<h, g>>
<1> DEFINE b == <<Sse!Data, h, Sse!Lf, g>>
<1>1. /\ b \in Text /\ DOMAIN b = {1, 2, 3, 4}
      /\ b[1] = Sse!Data /\ b[2] = h /\ b[3] = Sse!Lf /\ b[4] = g
  <2>1. b \in Text
    BY Inks, Tokens DEF Text
  <2> QED BY <2>1
<1>0. /\ h # Sse!Lf /\ h # Sse!Cr /\ g # Sse!Cr /\ g # Sse!Lf /\ Sse!Lf # Sse!Cr
      /\ h # Sse!Data /\ g # Sse!Data /\ Sse!Lf # Sse!Data /\ Sse!Data # Sse!Lf
      /\ ~Sse!Blank(g) /\ g # Sse!Comment
      /\ ~Sse!Blank(Sse!Data) /\ Sse!Data # Sse!Comment
  BY Inks, Tokens
<1> HIDE DEF b
<1>2. \A i \in {1, 2, 3, 4} : Sse!LineStart(b, i) <=> i \in {1, 4}
  <2>1. b[2 - 1] # Sse!Lf /\ b[3 - 1] # Sse!Lf /\ b[4 - 1] = Sse!Lf
    BY <1>0, <1>1
  <2> QED BY <2>1 DEF Sse!LineStart
<1>3. Sse!BlockLines(b) = {1, 4} /\ Sse!DataLines(b) = {1}
  <2>1. Sse!BlockLines(b) = {1, 4}
    BY <1>0, <1>1, <1>2 DEF Sse!BlockLines
  <2> QED BY <2>1, <1>0, <1>1 DEF Sse!DataLines
<1>4. Sse!Min({1}) = 1
  BY Extremes
<1>5. Sse!Payload(b) = Sse!Kept(b, {i \in Sse!Content(b) : b[i] # Sse!Lf})
  <2>1. \E i \in Sse!BlockLines(b) \ Sse!DataLines(b) : i > Sse!Min(Sse!DataLines(b))
    BY <1>3, <1>4
  <2>2. Sse!DataLines(b) # {}
    BY <1>3
  <2> QED BY <2>1, <2>2 DEF Sse!Payload
<1>6. Sse!Content(b) = {2, 3, 4}
  <2> DEFINE top(i) == Sse!Max({0} \cup {j \in 1 .. i : Sse!LineStart(b, j)})
  <2>1. ASSUME NEW i \in {2, 3} PROVE top(i) = 1
    <3>1. {0} \cup {j \in 1 .. i : Sse!LineStart(b, j)} = {0, 1}
      BY <1>2
    <3>2. Sse!Max({0, 1}) = 1
      BY Extremes
    <3> QED BY <3>1, <3>2
  <2>2. top(4) = 4
    <3>1. {0} \cup {j \in 1 .. 4 : Sse!LineStart(b, j)} = {0, 1, 4}
      BY <1>2
    <3>2. Sse!Max({0, 1, 4}) = 4
      BY Extremes
    <3> QED BY <3>1, <3>2
  <2>3. {i \in Sse!BlockLines(b) : i >= Sse!Min(Sse!DataLines(b))} = {1, 4}
    BY <1>3, <1>4
  <2>4. Sse!Content(b) = {i \in DOMAIN b \ Sse!DataLines(b) : top(i) \in {1, 4} /\ b[i] # Sse!Cr}
    BY <2>3 DEF Sse!Content
  <2> HIDE DEF top
  <2>5. DOMAIN b \ Sse!DataLines(b) = {2, 3, 4}
    BY <1>1, <1>3
  <2>6. b[2] # Sse!Cr /\ b[3] # Sse!Cr /\ b[4] # Sse!Cr
    BY <1>0, <1>1
  <2> QED BY <2>1, <2>2, <2>4, <2>5, <2>6
<1>7. {i \in Sse!Content(b) : b[i] # Sse!Lf} = {2, 4}
  BY <1>0, <1>1, <1>6
<1>8. Sse!Kept(b, {2, 4}) = <<h, g>>
  BY <1>1, KeptTwo
<1> QED BY <1>5, <1>7, <1>8 DEF b

-----------------------------------------------------------------------------
(* The writes *)

\* The kinds a frame is complete with, and those of them that are one line.
Framed == {"aes", "json", "chat", "rest"}
Lead == {"aes", "json", "chat"}

\* A write with what waits in the buffer for it: the first half of the line
\* whose other half it is.
Whole(form, n) ==
  IF form = "rest" THEN <<Sse!Data, Sse!BlobHead(n - 1), Sse!Lf, Sse!BlobTail(n - 1),
                          Sse!Cr, Sse!Lf, Sse!Cr, Sse!Lf>>
  ELSE Sse!WriteOf(form, n)

LEMMA KindsAre ==
  Sse!WriteKinds = Framed \cup {"comment", "cut"} /\ Lead \subseteq Framed
BY DEF Sse!WriteKinds, Framed, Lead

LEMMA WholeIs ==
  ASSUME NEW n
  PROVE  /\ Whole("aes", n) = <<Sse!Data, Sse!BlobHead(n), Sse!BlobTail(n),
                               Sse!Cr, Sse!Lf, Sse!Cr, Sse!Lf>>
         /\ Whole("json", n) = <<Sse!Data, Sse!Json(n), Sse!Cr, Sse!Lf, Sse!Cr, Sse!Lf>>
         /\ Whole("chat", n) = <<Sse!Json(n), Sse!Lf, Sse!Lf>>
         /\ Whole("comment", n) = <<Sse!Comment, Sse!Lf, Sse!Lf>>
         /\ Whole("cut", n) = <<Sse!Data, Sse!BlobHead(n), Sse!Lf, Sse!Comment, Sse!Lf, Sse!Lf>>
         /\ Whole("rest", n) = <<Sse!Data, Sse!BlobHead(n - 1), Sse!Lf, Sse!BlobTail(n - 1),
                                Sse!Cr, Sse!Lf, Sse!Cr, Sse!Lf>>
         /\ Sse!WriteOf("rest", n) = <<Sse!BlobTail(n - 1), Sse!Cr, Sse!Lf, Sse!Cr, Sse!Lf>>
         /\ \A form : form # "rest" => Whole(form, n) = Sse!WriteOf(form, n)
BY DEF Whole, Sse!WriteOf

LEMMA FramesAre ==
  ASSUME NEW n
  PROVE  /\ Sse!FrameOf("aes", n) = <<Sse!BlobHead(n), Sse!BlobTail(n)>>
         /\ Sse!FrameOf("rest", n) = <<Sse!BlobHead(n - 1), Sse!BlobTail(n - 1)>>
         /\ Sse!FrameOf("json", n) = <<Sse!Json(n)>>
         /\ Sse!FrameOf("chat", n) = <<Sse!Json(n)>>
         /\ Sse!FrameOf("comment", n) = <<>>
         /\ Sse!FrameOf("cut", n) = <<>>
BY DEF Sse!FrameOf

LEMMA Tuples ==
  /\ \A a \in Token : <<a>> \in Text /\ <<a>> # <<>>
  /\ \A a, b \in Token : <<a, b>> \in Text /\ <<a, b>> # <<>>
  /\ \A a, b, c \in Token : <<a, b, c>> \in Text /\ <<a, b, c>> # <<>>
  /\ \A a, b, c, d, e \in Token : <<a, b, c, d, e>> \in Text /\ <<a, b, c, d, e>> # <<>>
  /\ \A a, b, c, d, e, f \in Token : <<a, b, c, d, e, f>> \in Text /\ <<a, b, c, d, e, f>> # <<>>
  /\ \A a, b, c, d, e, f, g \in Token : <<a, b, c, d, e, f, g>> \in Text /\ <<a, b, c, d, e, f, g>> # <<>>
  /\ \A a, b, c, d, e, f, g, h \in Token : <<a, b, c, d, e, f, g, h>> \in Text /\ <<a, b, c, d, e, f, g, h>> # <<>>
BY DEF Text

LEMMA WholeType ==
  ASSUME NEW form \in Sse!WriteKinds, NEW n \in Int
  PROVE  /\ Whole(form, n) \in Text /\ Whole(form, n) # <<>>
         /\ Sse!WriteOf(form, n) \in Text /\ Sse!WriteOf(form, n) # <<>>
<1>1. n - 1 \in Int
  OBVIOUS
<1>2. /\ Sse!Data \in Token /\ Sse!Comment \in Token /\ Sse!Cr \in Token /\ Sse!Lf \in Token
      /\ Sse!BlobHead(n) \in Token /\ Sse!BlobTail(n) \in Token /\ Sse!Json(n) \in Token
      /\ Sse!BlobHead(n - 1) \in Token /\ Sse!BlobTail(n - 1) \in Token
  BY <1>1, Tokens
<1>3. \A k \in Sse!WriteKinds : Whole(k, n) \in Text /\ Whole(k, n) # <<>>
  <2>1. Whole("aes", n) \in Text /\ Whole("aes", n) # <<>>
    <3> DEFINE w == <<Sse!Data, Sse!BlobHead(n), Sse!BlobTail(n),
              Sse!Cr, Sse!Lf, Sse!Cr, Sse!Lf>>
    <3>1. w \in Text /\ w # <<>>
      BY <1>2, Tuples
    <3> HIDE DEF w
    <3>2. Whole("aes", n) = w
      BY WholeIs DEF w
    <3> QED BY <3>1, <3>2
  <2>2. Whole("json", n) \in Text /\ Whole("json", n) # <<>>
    <3> DEFINE w == <<Sse!Data, Sse!Json(n), Sse!Cr, Sse!Lf, Sse!Cr, Sse!Lf>>
    <3>1. w \in Text /\ w # <<>>
      BY <1>2, Tuples
    <3> HIDE DEF w
    <3>2. Whole("json", n) = w
      BY WholeIs DEF w
    <3> QED BY <3>1, <3>2
  <2>3. Whole("chat", n) \in Text /\ Whole("chat", n) # <<>>
    <3> DEFINE w == <<Sse!Json(n), Sse!Lf, Sse!Lf>>
    <3>1. w \in Text /\ w # <<>>
      BY <1>2, Tuples
    <3> HIDE DEF w
    <3>2. Whole("chat", n) = w
      BY WholeIs DEF w
    <3> QED BY <3>1, <3>2
  <2>4. Whole("comment", n) \in Text /\ Whole("comment", n) # <<>>
    <3> DEFINE w == <<Sse!Comment, Sse!Lf, Sse!Lf>>
    <3>1. w \in Text /\ w # <<>>
      BY <1>2, Tuples
    <3> HIDE DEF w
    <3>2. Whole("comment", n) = w
      BY WholeIs DEF w
    <3> QED BY <3>1, <3>2
  <2>5. Whole("cut", n) \in Text /\ Whole("cut", n) # <<>>
    <3> DEFINE w == <<Sse!Data, Sse!BlobHead(n), Sse!Lf, Sse!Comment, Sse!Lf, Sse!Lf>>
    <3>1. w \in Text /\ w # <<>>
      BY <1>2, Tuples
    <3> HIDE DEF w
    <3>2. Whole("cut", n) = w
      BY WholeIs DEF w
    <3> QED BY <3>1, <3>2
  <2>6. Whole("rest", n) \in Text /\ Whole("rest", n) # <<>>
    <3> DEFINE w == <<Sse!Data, Sse!BlobHead(n - 1), Sse!Lf, Sse!BlobTail(n - 1),
              Sse!Cr, Sse!Lf, Sse!Cr, Sse!Lf>>
    <3>1. w \in Text /\ w # <<>>
      BY <1>2, Tuples
    <3> HIDE DEF w
    <3>2. Whole("rest", n) = w
      BY WholeIs DEF w
    <3> QED BY <3>1, <3>2
  <2> QED BY <2>1, <2>2, <2>3, <2>4, <2>5, <2>6, KindsAre DEF Framed
<1>4. Sse!WriteOf("rest", n) \in Text /\ Sse!WriteOf("rest", n) # <<>>
  <2> DEFINE w == <<Sse!BlobTail(n - 1), Sse!Cr, Sse!Lf, Sse!Cr, Sse!Lf>>
  <2>1. w \in Text /\ w # <<>>
    BY <1>2, Tuples
  <2> HIDE DEF w
  <2>2. Sse!WriteOf("rest", n) = w
    BY WholeIs DEF w
  <2> QED BY <2>1, <2>2
<1>5. CASE form = "rest"
  BY <1>3, <1>4, <1>5
<1>6. CASE form # "rest"
  BY <1>3, <1>6, WholeIs
<1> QED BY <1>5, <1>6

LEMMA FrameType ==
  ASSUME NEW form \in Framed, NEW n \in Int
  PROVE  Sse!FrameOf(form, n) \in Frames
<1>2. n - 1 \in Int
  OBVIOUS
<1>1. /\ Sse!BlobHead(n) \in Token /\ Sse!BlobTail(n) \in Token /\ Sse!Json(n) \in Token
      /\ Sse!BlobHead(n - 1) \in Token /\ Sse!BlobTail(n - 1) \in Token
  BY <1>2, Tokens
<1>3. \A k \in Framed : Sse!FrameOf(k, n) \in Text /\ Sse!FrameOf(k, n) # <<>>
  <2>1. Sse!FrameOf("aes", n) \in Text /\ Sse!FrameOf("aes", n) # <<>>
    <3> DEFINE w == <<Sse!BlobHead(n), Sse!BlobTail(n)>>
    <3>1. w \in Text /\ w # <<>>
      BY <1>1, Tuples
    <3> HIDE DEF w
    <3>2. Sse!FrameOf("aes", n) = w
      BY FramesAre DEF w
    <3> QED BY <3>1, <3>2
  <2>2. Sse!FrameOf("rest", n) \in Text /\ Sse!FrameOf("rest", n) # <<>>
    <3> DEFINE w == <<Sse!BlobHead(n - 1), Sse!BlobTail(n - 1)>>
    <3>1. w \in Text /\ w # <<>>
      BY <1>1, Tuples
    <3> HIDE DEF w
    <3>2. Sse!FrameOf("rest", n) = w
      BY FramesAre DEF w
    <3> QED BY <3>1, <3>2
  <2>3. Sse!FrameOf("json", n) \in Text /\ Sse!FrameOf("json", n) # <<>>
    BY <1>1, FramesAre, Tuples
  <2>4. Sse!FrameOf("chat", n) \in Text /\ Sse!FrameOf("chat", n) # <<>>
    BY <1>1, FramesAre, Tuples
  <2> QED BY <2>1, <2>2, <2>3, <2>4 DEF Framed
<1> QED BY <1>3 DEF Frames

-----------------------------------------------------------------------------
(* A turn on a buffer that starts with a whole frame *)

\* Where a turn of the drain finds the end of a frame.
LEMMA TurnAt ==
  ASSUME NEW d \in Drained, NEW q \in 1 .. Len(d.rest), NEW z \in {2, 4},
         \A i \in 1 .. q - 1 : ~CrlfAt(d.rest, i) /\ ~LfAt(d.rest, i),
         \/ z = 4 /\ CrlfAt(d.rest, q)
         \/ z = 2 /\ LfAt(d.rest, q) /\ ~Sse!PendingAes(d.rest)
  PROVE  Sse!FrameEnd(d.rest) # {} /\ Sse!DrainFrame(d) = Turn(d, <<q, z>>)
<1> DEFINE t == d.rest
<1>0. t \in Text /\ Len(t) \in Nat
  BY Texts DEF Drained
<1>1. Hit(t, q)
  BY DEF Hit
<1>2. Sse!FrameEnd(t) # {}
  BY <1>0, <1>1, FrameEndIs
<1>3. ASSUME NEW e \in Sse!FrameEnd(t) PROVE e = <<q, z>>
  <2>1. PICK i \in 1 .. Len(t) :
           \/ CrlfAt(t, i) /\ e = <<i, 4>>
           \/ LfAt(t, i) /\ ~Sse!PendingAes(t) /\ e = <<i, 2>>
    BY <1>0, FrameEndIs
  <2>2. e[1] <= q
    BY <1>0, <1>1, FrameEndIs
  <2>3. i \notin 1 .. q - 1 /\ i <= q
    BY <2>1, <2>2
  <2>4. i = q
    BY <2>3, <1>0
  <2>5. ~(CrlfAt(t, q) /\ LfAt(t, q))
    BY Tokens DEF CrlfAt, LfAt
  <2> QED BY <2>1, <2>4, <2>5
<1>4. PICK e \in Sse!FrameEnd(t) : Sse!DrainFrame(d) = Turn(d, e)
  BY <1>0, <1>2, DrainFrameIs
<1> QED BY <1>2, <1>3, <1>4

LEMMA PrefixIs ==
  ASSUME NEW t \in Text, NEW w \in Text, Len(w) <= Len(t), \A i \in 1 .. Len(w) : t[i] = w[i]
  PROVE  SubSeq(t, 1, Len(w)) = w
<1> DEFINE u == SubSeq(t, 1, Len(w))
<1>1. Len(w) \in Nat /\ \A i \in 1 .. Len(w) : t[i] \in Token
  BY Texts
<1>2. u \in Seq(Token) /\ Len(u) = Len(w) /\ \A i \in 1 .. Len(w) : u[i] = t[i]
  <2>1. /\ u \in Seq(Token) /\ Len(u) = IF 1 <= Len(w) THEN Len(w) - 1 + 1 ELSE 0
        /\ \A i \in 1 .. Len(w) - 1 + 1 : u[i] = t[1 + i - 1]
    BY <1>1, SubSeqProperties
  <2> HIDE DEF u
  <2> QED BY <2>1, <1>1
<1> HIDE DEF u
<1>3. u = w
  BY <1>2, SeqEqual DEF Text
<1> QED BY <1>3 DEF u

\* The text starts with the whole of a write.
StartsWith(t, w) == Len(w) <= Len(t) /\ \A i \in 1 .. Len(w) : t[i] = w[i]

LEMMA ExtractedBlob ==
  ASSUME NEW n \in Int, NEW b, Sse!Payload(b) = <<Sse!BlobHead(n), Sse!BlobTail(n)>>
  PROVE  Sse!Extracted(b) = <<Sse!Payload(b)>>
<1>1. Sse!Piece(Sse!BlobHead(n)) /\ Sse!Piece(Sse!BlobTail(n))
  BY Tokens
<1> DEFINE p == <<Sse!BlobHead(n), Sse!BlobTail(n)>>
<1>2. p # <<>> /\ DOMAIN p = {1, 2} /\ p[1] = Sse!BlobHead(n) /\ p[2] = Sse!BlobTail(n)
  OBVIOUS
<1>3. p # <<>> /\ \A i \in DOMAIN p : Sse!Piece(p[i])
  BY <1>1, <1>2
<1>4. Sse!Recognised(p)
  <2> HIDE DEF p
  <2> QED BY <1>3 DEF Sse!Recognised
<1> QED BY <1>4 DEF Sse!Extracted

LEMMA ExtractedJson ==
  ASSUME NEW n \in Int, NEW b, Sse!Payload(b) = <<Sse!Json(n)>>
  PROVE  Sse!Extracted(b) = <<Sse!Payload(b)>>
<1>1. Sse!Recognised(<<Sse!Json(n)>>)
  BY DEF Sse!Recognised, Sse!Json
<1> QED BY <1>1 DEF Sse!Extracted

\* And what it hands on.
LEMMA BlockTurnAt ==
  ASSUME NEW d \in Drained, NEW b \in Text, NEW f, Sse!Extracted(b) = <<f>>,
         NEW q \in 1 .. Len(d.rest), NEW z \in {2, 4}, Len(b) = q - 1,
         \A i \in 1 .. q - 1 : d.rest[i] = b[i],
         \A i \in 1 .. q - 1 : ~CrlfAt(d.rest, i) /\ ~LfAt(d.rest, i),
         \/ z = 4 /\ CrlfAt(d.rest, q)
         \/ z = 2 /\ LfAt(d.rest, q) /\ ~Sse!PendingAes(d.rest)
  PROVE  /\ Sse!FrameEnd(d.rest) # {}
         /\ Sse!DrainFrame(d) =
              [frames |-> d.frames \o <<f>>,
               rest |-> Sse!StripCompleteComments(Without(d.rest, 1, q + z - 1))]
<1>1. d.rest \in Text /\ Len(d.rest) \in Nat
  BY Texts DEF Drained
<1>2. Sse!FrameEnd(d.rest) # {} /\ Sse!DrainFrame(d) = Turn(d, <<q, z>>)
  BY TurnAt
<1>3. SubSeq(d.rest, 1, q - 1) = b
  <2>1. Len(b) <= Len(d.rest) /\ \A i \in 1 .. Len(b) : d.rest[i] = b[i]
    BY <1>1
  <2>2. SubSeq(d.rest, 1, Len(b)) = b
    BY <1>1, <2>1, PrefixIs
  <2> QED BY <2>2
<1>4. <<q, z>>[1] = q /\ <<q, z>>[2] = z
  OBVIOUS
<1> QED BY <1>2, <1>3, <1>4 DEF Turn

\* A blob at the start of the buffer is handed on, with what is behind it left.
LEMMA AesTurn ==
  ASSUME NEW d \in Drained, NEW n \in Int, StartsWith(d.rest, Whole("aes", n))
  PROVE  /\ Sse!FrameEnd(d.rest) # {}
         /\ Sse!DrainFrame(d) =
              [frames |-> d.frames \o <<Sse!FrameOf("aes", n)>>,
               rest |-> Sse!StripCompleteComments(Without(d.rest, 1, 7))]
<1> DEFINE t == d.rest
           h == Sse!BlobHead(n)
           g == Sse!BlobTail(n)
           b == <<Sse!Data, h, g>>
<1>1. Len(Whole("aes", n)) = 7 /\ Len(t) \in Nat /\ t \in Text
  BY WholeIs, Texts DEF Drained
<1>2. /\ Len(t) >= 7 /\ t[1] = Sse!Data /\ t[2] = h /\ t[3] = g
      /\ t[4] = Sse!Cr /\ t[5] = Sse!Lf /\ t[6] = Sse!Cr /\ t[7] = Sse!Lf
  <2>1. 7 <= Len(t) /\ \A i \in 1 .. 7 : t[i] = Whole("aes", n)[i]
    BY <1>1 DEF StartsWith
  <2> HIDE DEF t
  <2>2. \A i \in {1, 2, 3, 4, 5, 6, 7} : t[i] = Whole("aes", n)[i]
    BY <2>1
  <2> QED BY <2>1, <2>2, WholeIs
<1>3. h \in Ink /\ g \in Ink
  BY Inks
<1>4. /\ h # Sse!Lf /\ g # Sse!Lf /\ Sse!Data # Sse!Lf
      /\ h # Sse!Cr /\ g # Sse!Cr /\ Sse!Data # Sse!Cr
  BY <1>3, Inks, Tokens
<1> HIDE DEF h, g
<1>5. Sse!Payload(b) = <<h, g>> /\ b \in Text
  BY <1>3, PayloadBlob, Tokens, Inks, Tuples
<1>6. Sse!Extracted(b) = <<Sse!FrameOf("aes", n)>>
  <2> HIDE DEF b
  <2>1. Sse!Extracted(b) = <<Sse!Payload(b)>>
    BY <1>5, ExtractedBlob DEF h, g
  <2> QED BY <2>1, <1>5, FramesAre DEF h, g
<1>7. Len(b) = 3 /\ b[1] = Sse!Data /\ b[2] = h /\ b[3] = g
  OBVIOUS
<1> HIDE DEF b, t
<1>8. \A i \in 1 .. 4 - 1 : t[i] = b[i] /\ ~CrlfAt(t, i) /\ ~LfAt(t, i)
  BY <1>2, <1>4, <1>7 DEF CrlfAt, LfAt
<1>9. CrlfAt(t, 4)
  BY <1>1, <1>2 DEF CrlfAt
<1>10. 4 \in 1 .. Len(t) /\ Len(b) = 4 - 1
  BY <1>1, <1>2, <1>7
<1>11. /\ Sse!FrameEnd(t) # {}
       /\ Sse!DrainFrame(d) =
            [frames |-> d.frames \o <<Sse!FrameOf("aes", n)>>,
             rest |-> Sse!StripCompleteComments(Without(t, 1, 4 + 4 - 1))]
  BY <1>5, <1>6, <1>8, <1>9, <1>10, BlockTurnAt DEF t
<1>12. 4 + 4 - 1 = 7
  OBVIOUS
<1> QED BY <1>11, <1>12 DEF t

\* The same of a JSON frame.
LEMMA JsonTurn ==
  ASSUME NEW d \in Drained, NEW n \in Int, StartsWith(d.rest, Whole("json", n))
  PROVE  /\ Sse!FrameEnd(d.rest) # {}
         /\ Sse!DrainFrame(d) =
              [frames |-> d.frames \o <<Sse!FrameOf("json", n)>>,
               rest |-> Sse!StripCompleteComments(Without(d.rest, 1, 6))]
<1> DEFINE t == d.rest
           h == Sse!Json(n)
           b == <<Sse!Data, h>>
<1>1. Len(Whole("json", n)) = 6 /\ Len(t) \in Nat /\ t \in Text
  BY WholeIs, Texts DEF Drained
<1>2. /\ Len(t) >= 6 /\ t[1] = Sse!Data /\ t[2] = h
      /\ t[3] = Sse!Cr /\ t[4] = Sse!Lf /\ t[5] = Sse!Cr /\ t[6] = Sse!Lf
  <2>1. 6 <= Len(t) /\ \A i \in 1 .. 6 : t[i] = Whole("json", n)[i]
    BY <1>1 DEF StartsWith
  <2> HIDE DEF t
  <2>2. \A i \in {1, 2, 3, 4, 5, 6} : t[i] = Whole("json", n)[i]
    BY <2>1
  <2> QED BY <2>1, <2>2, WholeIs
<1>3. h \in Ink
  BY Inks
<1>4. h # Sse!Lf /\ Sse!Data # Sse!Lf /\ h # Sse!Cr /\ Sse!Data # Sse!Cr
  BY <1>3, Inks, Tokens
<1> HIDE DEF h
<1>5. Sse!Payload(b) = <<h>> /\ b \in Text
  BY <1>3, PayloadData, Tokens, Inks, Tuples
<1>6. Sse!Extracted(b) = <<Sse!FrameOf("json", n)>>
  <2> HIDE DEF b
  <2>1. Sse!Extracted(b) = <<Sse!Payload(b)>>
    BY <1>5, ExtractedJson DEF h
  <2> QED BY <2>1, <1>5, FramesAre DEF h
<1>7. Len(b) = 2 /\ b[1] = Sse!Data /\ b[2] = h
  OBVIOUS
<1> HIDE DEF b, t
<1>8. \A i \in 1 .. 3 - 1 : t[i] = b[i] /\ ~CrlfAt(t, i) /\ ~LfAt(t, i)
  BY <1>2, <1>4, <1>7 DEF CrlfAt, LfAt
<1>9. CrlfAt(t, 3)
  BY <1>1, <1>2 DEF CrlfAt
<1>10. 3 \in 1 .. Len(t) /\ Len(b) = 3 - 1
  BY <1>1, <1>2, <1>7
<1>11. /\ Sse!FrameEnd(t) # {}
       /\ Sse!DrainFrame(d) =
            [frames |-> d.frames \o <<Sse!FrameOf("json", n)>>,
             rest |-> Sse!StripCompleteComments(Without(t, 1, 3 + 4 - 1))]
  BY <1>5, <1>6, <1>8, <1>9, <1>10, BlockTurnAt DEF t
<1>12. 3 + 4 - 1 = 6
  OBVIOUS
<1> QED BY <1>11, <1>12 DEF t

\* A text that starts with JSON is no blob in the making.
LEMMA JsonFirst ==
  ASSUME NEW t \in Text, NEW n \in Int, t[1] = Sse!Json(n)
  PROVE  ~Sse!PendingAes(t)
<1>1. ~Sse!Piece(t[1]) /\ ~Sse!Blank(t[1]) /\ t[1] # Sse!Data
  BY Tokens
<1>2. ASSUME NEW i \in DOMAIN t, Sse!Piece(t[i]),
             \A j \in 1 .. i - 1 : Sse!Blank(t[j]) \/ t[j] = Sse!Data
      PROVE  FALSE
  <2>1. i \in Nat /\ i # 1 /\ i >= 1
    BY <1>1, <1>2, Texts
  <2>2. 1 \in 1 .. i - 1
    BY <2>1
  <2> QED BY <1>1, <1>2, <2>2
<1> QED BY <1>2 DEF Sse!PendingAes

\* The same of a Chat frame: it starts with JSON, so that LF LF ends it.
LEMMA ChatTurn ==
  ASSUME NEW d \in Drained, NEW n \in Int, StartsWith(d.rest, Whole("chat", n))
  PROVE  /\ Sse!FrameEnd(d.rest) # {}
         /\ Sse!DrainFrame(d) =
              [frames |-> d.frames \o <<Sse!FrameOf("chat", n)>>,
               rest |-> Sse!StripCompleteComments(Without(d.rest, 1, 3))]
<1> DEFINE t == d.rest
           h == Sse!Json(n)
           b == <<h>>
<1>1. Len(Whole("chat", n)) = 3 /\ Len(t) \in Nat /\ t \in Text
  BY WholeIs, Texts DEF Drained
<1>2. Len(t) >= 3 /\ t[1] = h /\ t[2] = Sse!Lf /\ t[3] = Sse!Lf
  <2>1. 3 <= Len(t) /\ \A i \in 1 .. 3 : t[i] = Whole("chat", n)[i]
    BY <1>1 DEF StartsWith
  <2> HIDE DEF t
  <2>2. \A i \in {1, 2, 3} : t[i] = Whole("chat", n)[i]
    BY <2>1
  <2> QED BY <2>1, <2>2, WholeIs
<1>3. h \in Ink
  BY Inks
<1>4. h # Sse!Lf /\ h # Sse!Cr
  BY <1>3, Inks, Tokens
<1>0. ~Sse!PendingAes(t)
  BY <1>1, <1>2, JsonFirst
<1> HIDE DEF h
<1>5. Sse!Payload(b) = <<h>> /\ b \in Text
  BY <1>3, PayloadBare, Tokens, Inks, Tuples
<1>6. Sse!Extracted(b) = <<Sse!FrameOf("chat", n)>>
  <2> HIDE DEF b
  <2>1. Sse!Extracted(b) = <<Sse!Payload(b)>>
    BY <1>5, ExtractedJson DEF h
  <2> QED BY <2>1, <1>5, FramesAre DEF h
<1>7. Len(b) = 1 /\ b[1] = h
  OBVIOUS
<1> HIDE DEF b, t
<1>8. \A i \in 1 .. 2 - 1 : t[i] = b[i] /\ ~CrlfAt(t, i) /\ ~LfAt(t, i)
  BY <1>2, <1>4, <1>7 DEF CrlfAt, LfAt
<1>9. LfAt(t, 2)
  BY <1>1, <1>2 DEF LfAt
<1>10. 2 \in 1 .. Len(t) /\ Len(b) = 2 - 1
  BY <1>1, <1>2, <1>7
<1>11. /\ Sse!FrameEnd(t) # {}
       /\ Sse!DrainFrame(d) =
            [frames |-> d.frames \o <<Sse!FrameOf("chat", n)>>,
             rest |-> Sse!StripCompleteComments(Without(t, 1, 2 + 2 - 1))]
  BY <1>0, <1>5, <1>6, <1>8, <1>9, <1>10, BlockTurnAt DEF t
<1>12. 2 + 2 - 1 = 3
  OBVIOUS
<1> QED BY <1>11, <1>12 DEF t

\* The same of a blob that was interrupted, once the comment is out.
LEMMA RestTurn ==
  ASSUME NEW d \in Drained, NEW n \in Int, StartsWith(d.rest, Whole("rest", n))
  PROVE  /\ Sse!FrameEnd(d.rest) # {}
         /\ Sse!DrainFrame(d) =
              [frames |-> d.frames \o <<Sse!FrameOf("rest", n)>>,
               rest |-> Sse!StripCompleteComments(Without(d.rest, 1, 8))]
<1> DEFINE t == d.rest
           h == Sse!BlobHead(n - 1)
           g == Sse!BlobTail(n - 1)
           b == <<Sse!Data, h, Sse!Lf, g>>
<1>1. Len(Whole("rest", n)) = 8 /\ Len(t) \in Nat /\ t \in Text
  BY WholeIs, Texts DEF Drained
<1>2. /\ Len(t) >= 8 /\ t[1] = Sse!Data /\ t[2] = h /\ t[3] = Sse!Lf /\ t[4] = g
      /\ t[5] = Sse!Cr /\ t[6] = Sse!Lf /\ t[7] = Sse!Cr /\ t[8] = Sse!Lf
  <2>1. 8 <= Len(t) /\ \A i \in 1 .. 8 : t[i] = Whole("rest", n)[i]
    BY <1>1 DEF StartsWith
  <2> HIDE DEF t
  <2>2. \A i \in {1, 2, 3, 4, 5, 6, 7, 8} : t[i] = Whole("rest", n)[i]
    BY <2>1
  <2> QED BY <2>1, <2>2, WholeIs
<1>3. h \in Ink /\ g \in Ink /\ n - 1 \in Int
  BY Inks
<1>4. /\ h # Sse!Lf /\ g # Sse!Lf /\ Sse!Data # Sse!Lf /\ Sse!Lf # Sse!Cr
      /\ h # Sse!Cr /\ g # Sse!Cr /\ Sse!Data # Sse!Cr
  BY <1>3, Inks, Tokens
<1> HIDE DEF h, g
<1>5. Sse!Payload(b) = <<h, g>> /\ b \in Text
  <2>1. Sse!Data \in Token /\ Sse!Lf \in Token /\ h \in Token /\ g \in Token
    BY <1>3, Tokens, Inks
  <2>2. b \in Text
    BY <2>1 DEF Text
  <2> QED BY <2>2, <1>3, PayloadCut
<1>6. Sse!Extracted(b) = <<Sse!FrameOf("rest", n)>>
  <2> HIDE DEF b
  <2>1. Sse!Extracted(b) = <<Sse!Payload(b)>>
    BY <1>3, <1>5, ExtractedBlob DEF h, g
  <2> QED BY <2>1, <1>5, FramesAre DEF h, g
<1>7. Len(b) = 4 /\ b[1] = Sse!Data /\ b[2] = h /\ b[3] = Sse!Lf /\ b[4] = g
  OBVIOUS
<1> HIDE DEF b, t
<1>8. \A i \in 1 .. 5 - 1 : t[i] = b[i] /\ ~CrlfAt(t, i) /\ ~LfAt(t, i)
  BY <1>2, <1>4, <1>7 DEF CrlfAt, LfAt
<1>9. CrlfAt(t, 5)
  BY <1>1, <1>2 DEF CrlfAt
<1>10. 5 \in 1 .. Len(t) /\ Len(b) = 5 - 1
  BY <1>1, <1>2, <1>7
<1>11. /\ Sse!FrameEnd(t) # {}
       /\ Sse!DrainFrame(d) =
            [frames |-> d.frames \o <<Sse!FrameOf("rest", n)>>,
             rest |-> Sse!StripCompleteComments(Without(t, 1, 5 + 4 - 1))]
  BY <1>5, <1>6, <1>8, <1>9, <1>10, BlockTurnAt DEF t
<1>12. 5 + 4 - 1 = 8
  OBVIOUS
<1> QED BY <1>11, <1>12 DEF t

\* A turn on a buffer that starts with a whole frame hands that frame on.
LEMMA BlockTurn ==
  ASSUME NEW d \in Drained, NEW form \in Framed, NEW n \in Int,
         StartsWith(d.rest, Whole(form, n))
  PROVE  /\ Sse!FrameEnd(d.rest) # {}
         /\ Sse!DrainFrame(d) =
              [frames |-> d.frames \o <<Sse!FrameOf(form, n)>>,
               rest |-> Sse!StripCompleteComments(Without(d.rest, 1, Len(Whole(form, n))))]
<1>1. /\ Len(Whole("aes", n)) = 7 /\ Len(Whole("json", n)) = 6
      /\ Len(Whole("chat", n)) = 3 /\ Len(Whole("rest", n)) = 8
  BY WholeIs
<1>2. CASE form = "aes"
  BY <1>1, <1>2, AesTurn
<1>3. CASE form = "json"
  BY <1>1, <1>3, JsonTurn
<1>4. CASE form = "chat"
  BY <1>1, <1>4, ChatTurn
<1>5. CASE form = "rest"
  BY <1>1, <1>5, RestTurn
<1> QED BY <1>2, <1>3, <1>4, <1>5 DEF Framed

-----------------------------------------------------------------------------
(* Draining a buffer with one write in it *)

LEMMA EmptyText ==
  <<>> \in Text /\ Len(<<>>) = 0 /\ Sse!FrameEnd(<<>>) = {} /\ Sse!NextCompleteComment(<<>>) = {}
<1>1. <<>> \in Text /\ Len(<<>>) = 0
  BY EmptySeq DEF Text
<1>2. \A i \in 1 .. Len(<<>>) : ~CrlfAt(<<>>, i) /\ ~LfAt(<<>>, i)
  BY <1>1
<1> QED BY <1>1, <1>2, NoHits

\* Nothing to strip.
LEMMA StripStill ==
  ASSUME NEW t \in Text, Sse!NextCompleteComment(t) = {}
  PROVE  Sse!StripCompleteComments(t) = t
<1>1. \A u \in {t} : Sse!StripComment(u) \in {t}
  BY StripCommentNone
<1>2. Sse!StripCompleteComments(t) \in {t}
  BY <1>1, Texts, StripClosed
<1> QED BY <1>2

\* Nothing to drain.
LEMMA DrainStill ==
  ASSUME NEW t \in Text, Sse!FrameEnd(t) = {}, Sse!NextCompleteComment(t) = {}
  PROVE  Sse!Drain(t) = [frames |-> <<>>, rest |-> t]
<1> DEFINE d == [frames |-> <<>>, rest |-> t]
<1>1. d = [frames |-> <<>>, rest |-> Sse!StripCompleteComments(t)]
  BY StripStill
<1>2. d.rest = t
  OBVIOUS
<1> HIDE DEF d
<1>3. Sse!DrainFrame(d) = d
  BY <1>2, DrainFrameIs
<1>4. Sse!Drain(t) \in {d}
  <2>1. \A x \in {d} : Sse!DrainFrame(x) \in {d}
    BY <1>3
  <2> QED BY <1>1, <2>1, Texts, DrainClosed
<1> QED BY <1>4 DEF d

\* A write of which something is missing holds no end of a frame or comment.
LEMMA PartIs ==
  ASSUME NEW form \in Sse!WriteKinds, NEW n \in Int, NEW t \in Text,
         Len(t) < Len(Whole(form, n)), \A i \in 1 .. Len(t) : t[i] = Whole(form, n)[i]
  PROVE  Sse!FrameEnd(t) = {} /\ Sse!NextCompleteComment(t) = {}
<1> DEFINE h == Sse!BlobHead(n)
           g == Sse!BlobTail(n)
           j == Sse!Json(n)
           x == Sse!BlobHead(n - 1)
           y == Sse!BlobTail(n - 1)
<1>1. /\ {h, g, j, x, y} \subseteq Ink /\ Len(t) \in Nat
  <2>1. n - 1 \in Int
    OBVIOUS
  <2> QED BY <2>1, Inks, Texts
<1>2. /\ \A z \in {h, g, j, x, y, Sse!Data, Sse!Comment} : z # Sse!Cr /\ z # Sse!Lf
      /\ Sse!Cr # Sse!Lf
  BY <1>1, Inks, Tokens
<1> HIDE DEF h, g, j, x, y
<1>3. ASSUME NEW i \in 1 .. Len(t) PROVE ~CrlfAt(t, i) /\ ~LfAt(t, i)
  <2>1. CASE form = "aes"
    <3>1. /\ Whole(form, n) = <<Sse!Data, h, g, Sse!Cr, Sse!Lf, Sse!Cr, Sse!Lf>>
      BY <2>1, WholeIs DEF h, g
    <3>2. Len(t) <= 6 /\ \A l \in {1, 2, 3, 4, 5, 6} : l <= Len(t) => t[l] = Whole(form, n)[l]
      BY <3>1, <1>1
    <3>3. /\ 1 <= Len(t) => t[1] = Sse!Data
          /\ 2 <= Len(t) => t[2] = h
          /\ 3 <= Len(t) => t[3] = g
          /\ 4 <= Len(t) => t[4] = Sse!Cr
          /\ 5 <= Len(t) => t[5] = Sse!Lf
          /\ 6 <= Len(t) => t[6] = Sse!Cr
      BY <3>1, <3>2
    <3> QED BY <3>2, <3>3, <1>1, <1>2, SMTT(30) DEF CrlfAt, LfAt
  <2>2. CASE form = "json"
    <3>1. /\ Whole(form, n) = <<Sse!Data, j, Sse!Cr, Sse!Lf, Sse!Cr, Sse!Lf>>
      BY <2>2, WholeIs DEF j
    <3>2. Len(t) <= 5 /\ \A l \in {1, 2, 3, 4, 5} : l <= Len(t) => t[l] = Whole(form, n)[l]
      BY <3>1, <1>1
    <3>3. /\ 1 <= Len(t) => t[1] = Sse!Data
          /\ 2 <= Len(t) => t[2] = j
          /\ 3 <= Len(t) => t[3] = Sse!Cr
          /\ 4 <= Len(t) => t[4] = Sse!Lf
          /\ 5 <= Len(t) => t[5] = Sse!Cr
      BY <3>1, <3>2
    <3> QED BY <3>2, <3>3, <1>1, <1>2 DEF CrlfAt, LfAt
  <2>3. CASE form = "chat"
    <3>1. /\ Whole(form, n) = <<j, Sse!Lf, Sse!Lf>>
      BY <2>3, WholeIs DEF j
    <3>2. Len(t) <= 2 /\ \A l \in {1, 2} : l <= Len(t) => t[l] = Whole(form, n)[l]
      BY <3>1, <1>1
    <3>3. /\ 1 <= Len(t) => t[1] = j
          /\ 2 <= Len(t) => t[2] = Sse!Lf
      BY <3>1, <3>2
    <3> QED BY <3>2, <3>3, <1>1, <1>2 DEF CrlfAt, LfAt
  <2>4. CASE form = "comment"
    <3>1. /\ Whole(form, n) = <<Sse!Comment, Sse!Lf, Sse!Lf>>
      BY <2>4, WholeIs
    <3>2. Len(t) <= 2 /\ \A l \in {1, 2} : l <= Len(t) => t[l] = Whole(form, n)[l]
      BY <3>1, <1>1
    <3>3. /\ 1 <= Len(t) => t[1] = Sse!Comment
          /\ 2 <= Len(t) => t[2] = Sse!Lf
      BY <3>1, <3>2
    <3> QED BY <3>2, <3>3, <1>1, <1>2 DEF CrlfAt, LfAt
  <2>5. CASE form = "cut"
    <3>1. /\ Whole(form, n) = <<Sse!Data, h, Sse!Lf, Sse!Comment, Sse!Lf, Sse!Lf>>
      BY <2>5, WholeIs DEF h
    <3>2. Len(t) <= 5 /\ \A l \in {1, 2, 3, 4, 5} : l <= Len(t) => t[l] = Whole(form, n)[l]
      BY <3>1, <1>1
    <3>3. /\ 1 <= Len(t) => t[1] = Sse!Data
          /\ 2 <= Len(t) => t[2] = h
          /\ 3 <= Len(t) => t[3] = Sse!Lf
          /\ 4 <= Len(t) => t[4] = Sse!Comment
          /\ 5 <= Len(t) => t[5] = Sse!Lf
      BY <3>1, <3>2
    <3> QED BY <3>2, <3>3, <1>1, <1>2 DEF CrlfAt, LfAt
  <2>6. CASE form = "rest"
    <3>1. /\ Whole(form, n) = <<Sse!Data, x, Sse!Lf, y, Sse!Cr, Sse!Lf, Sse!Cr, Sse!Lf>>
      BY <2>6, WholeIs DEF x, y
    <3>2. Len(t) <= 7 /\ \A l \in {1, 2, 3, 4, 5, 6, 7} : l <= Len(t) => t[l] = Whole(form, n)[l]
      BY <3>1, <1>1
    <3>3. /\ 1 <= Len(t) => t[1] = Sse!Data
          /\ 2 <= Len(t) => t[2] = x
          /\ 3 <= Len(t) => t[3] = Sse!Lf
          /\ 4 <= Len(t) => t[4] = y
          /\ 5 <= Len(t) => t[5] = Sse!Cr
          /\ 6 <= Len(t) => t[6] = Sse!Lf
          /\ 7 <= Len(t) => t[7] = Sse!Cr
      BY <3>1, <3>2
    <3> QED BY <3>2, <3>3, <1>1, <1>2, SMTT(30) DEF CrlfAt, LfAt
  <2> QED BY <2>1, <2>2, <2>3, <2>4, <2>5, <2>6, KindsAre DEF Framed
<1> QED BY <1>3, NoHits

\* No token of a frame's write starts a comment.
LEMMA FramedNoComment ==
  ASSUME NEW form \in Framed, NEW n \in Int, NEW i \in 1 .. Len(Whole(form, n))
  PROVE  Whole(form, n)[i] # Sse!Comment
<1>1. n - 1 \in Int
  OBVIOUS
<1>2. /\ Sse!BlobHead(n) # Sse!Comment /\ Sse!BlobTail(n) # Sse!Comment
      /\ Sse!Json(n) # Sse!Comment
      /\ Sse!BlobHead(n - 1) # Sse!Comment /\ Sse!BlobTail(n - 1) # Sse!Comment
      /\ Sse!Data # Sse!Comment /\ Sse!Cr # Sse!Comment /\ Sse!Lf # Sse!Comment
  BY <1>1, Tokens
<1>3. CASE form = "aes"
  <2>1. Whole(form, n) = <<Sse!Data, Sse!BlobHead(n), Sse!BlobTail(n),
                       Sse!Cr, Sse!Lf, Sse!Cr, Sse!Lf>>
    BY <1>3, WholeIs
  <2>2. i \in {1, 2, 3, 4, 5, 6, 7}
    BY <2>1
  <2> QED BY <1>2, <2>1, <2>2
<1>4. CASE form = "json"
  <2>1. Whole(form, n) = <<Sse!Data, Sse!Json(n), Sse!Cr, Sse!Lf, Sse!Cr, Sse!Lf>>
    BY <1>4, WholeIs
  <2>2. i \in {1, 2, 3, 4, 5, 6}
    BY <2>1
  <2> QED BY <1>2, <2>1, <2>2
<1>5. CASE form = "chat"
  <2>1. Whole(form, n) = <<Sse!Json(n), Sse!Lf, Sse!Lf>>
    BY <1>5, WholeIs
  <2>2. i \in {1, 2, 3}
    BY <2>1
  <2> QED BY <1>2, <2>1, <2>2
<1>6. CASE form = "rest"
  <2>1. Whole(form, n) = <<Sse!Data, Sse!BlobHead(n - 1), Sse!Lf, Sse!BlobTail(n - 1),
                       Sse!Cr, Sse!Lf, Sse!Cr, Sse!Lf>>
    BY <1>6, WholeIs
  <2>2. i \in {1, 2, 3, 4, 5, 6, 7, 8}
    BY <2>1
  <2> QED BY <1>2, <2>1, <2>2
<1> QED BY <1>3, <1>4, <1>5, <1>6 DEF Framed

LEMMA WithoutAll ==
  ASSUME NEW t \in Text, t # <<>>
  PROVE  Without(t, 1, Len(t)) = <<>>
<1>1. Len(t) \in Nat \ {0}
  BY EmptySeq DEF Text
<1>2. 1 \in 1 .. Len(t) /\ Len(t) \in 1 .. Len(t)
  BY <1>1
<1>3. /\ Without(t, 1, Len(t)) \in Text
      /\ Len(Without(t, 1, Len(t))) = Len(t) - (Len(t) - 1 + 1)
  BY <1>2, WithoutIs
<1>4. Len(Without(t, 1, Len(t))) = 0
  BY <1>1, <1>3
<1> HIDE DEF Without
<1> DEFINE w == Without(t, 1, Len(t))
<1> HIDE DEF w
<1>5. w \in Seq(Token) /\ Len(w) = 0
  BY <1>3, <1>4 DEF w, Text
<1>6. w = <<>>
  BY <1>5, EmptySeq
<1> QED BY <1>6 DEF w

\* What a write hands on, and what it leaves in the buffer.
Handed(form, n) == IF Sse!FrameOf(form, n) = <<>> THEN <<>> ELSE <<Sse!FrameOf(form, n)>>
Left(form, n) == IF form = "cut" THEN <<Sse!Data, Sse!BlobHead(n), Sse!Lf>> ELSE <<>>

\* A whole frame alone in the buffer is handed on.
LEMMA DrainFramed ==
  ASSUME NEW form \in Framed, NEW n \in Int
  PROVE  Sse!Drain(Whole(form, n)) = [frames |-> <<Sse!FrameOf(form, n)>>, rest |-> <<>>]
<1> DEFINE t == Whole(form, n)
           f == Sse!FrameOf(form, n)
           d == [frames |-> <<>>, rest |-> t]
           e == [frames |-> <<f>>, rest |-> <<>>]
<1>1. t \in Text /\ t # <<>> /\ Len(t) \in Nat
  BY WholeType, Texts, KindsAre
<1>2. Sse!NextCompleteComment(t) = {}
  BY <1>1, FramedNoComment, CommentFreeIs
<1>3. d = [frames |-> <<>>, rest |-> Sse!StripCompleteComments(t)]
  BY <1>1, <1>2, StripStill
<1>4. d \in Drained /\ d.rest = t /\ d.frames = <<>>
  BY <1>1, EmptySeq DEF Drained
<1>5. StartsWith(t, t)
  BY <1>1 DEF StartsWith
<1>6. e.rest = <<>> /\ e.frames = <<f>>
  OBVIOUS
<1> HIDE DEF d, e
<1>7. Sse!FrameEnd(t) # {} /\ Sse!DrainFrame(d) = e
  <2>1. /\ Sse!FrameEnd(d.rest) # {}
        /\ Sse!DrainFrame(d) =
             [frames |-> d.frames \o <<f>>,
              rest |-> Sse!StripCompleteComments(Without(d.rest, 1, Len(t)))]
    BY <1>4, <1>5, BlockTurn
  <2>2. Without(t, 1, Len(t)) = <<>>
    BY <1>1, WithoutAll
  <2>3. Sse!StripCompleteComments(<<>>) = <<>>
    BY EmptyText, StripStill
  <2>4. <<>> \o <<f>> = <<f>>
    OBVIOUS
  <2> QED BY <2>1, <2>2, <2>3, <2>4, <1>4 DEF e
<1>8. Sse!DrainFrame(e) = e
  BY <1>6, EmptyText, DrainFrameIs
<1>9. Sse!Drain(t) \in {d, e}
  <2>1. \A x \in {d, e} : Sse!DrainFrame(x) \in {d, e}
    BY <1>7, <1>8
  <2>2. [frames |-> <<>>, rest |-> Sse!StripCompleteComments(t)] \in {d, e}
    BY <1>3
  <2> HIDE DEF t
  <2> QED BY <1>1, <2>1, <2>2, DrainClosed
<1>10. Sse!FrameEnd(Sse!Drain(t).rest) = {}
  BY <1>1, DrainType
<1>11. Sse!Drain(t) # d
  BY <1>4, <1>7, <1>10
<1> QED BY <1>9, <1>11 DEF e

\* A whole comment is dropped.
LEMMA DrainComment ==
  ASSUME NEW n \in Int
  PROVE  Sse!Drain(Whole("comment", n)) = [frames |-> <<>>, rest |-> <<>>]
<1> DEFINE t == Whole("comment", n)
           d == [frames |-> <<>>, rest |-> <<>>]
<1>1. t \in Text /\ t # <<>>
  BY WholeType, KindsAre
<1>2. Len(t) = 3 /\ t[1] = Sse!Comment /\ t[2] = Sse!Lf /\ t[3] = Sse!Lf
  BY WholeIs
<1> HIDE DEF t
<1>3. Sse!NextCompleteComment(t) # {}
  <2>1. Sse!LineStart(t, 1)
    BY DEF Sse!LineStart
  <2>2. LfAt(t, 2) /\ 2 \in 1 .. Len(t) /\ 1 \in 1 .. Len(t)
    BY <1>2 DEF LfAt
  <2>3. \A c \in 1 .. 1 - 1 : t[c] # Sse!Comment
    OBVIOUS
  <2> QED BY <1>1, <1>2, <2>1, <2>2, <2>3, CommentThere
<1>4. Sse!StripComment(t) = <<>>
  <2>1. PICK a \in 1 .. Len(t), b \in 1 .. Len(t) :
          a + 2 <= b /\ Sse!StripComment(t) = Without(t, a, b)
    BY <1>1, <1>3, StripCommentIs
  <2>2. a = 1 /\ b = Len(t)
    BY <1>2, <2>1
  <2> QED BY <1>1, <2>1, <2>2, WithoutAll
<1>5. Sse!StripCompleteComments(t) = <<>>
  <2>1. \A u \in {t, <<>>} : Sse!StripComment(u) \in {t, <<>>}
    BY <1>4, EmptyText, StripCommentNone
  <2>2. Sse!StripCompleteComments(t) \in {t, <<>>}
    <3>1. t \in {t, <<>>} /\ Len(t) \in Nat
      BY <1>2
    <3> QED BY <2>1, <3>1, StripClosed
  <2>3. Sse!NextCompleteComment(Sse!StripCompleteComments(t)) = {}
    BY <1>1, StripType
  <2> QED BY <1>3, <2>2, <2>3
<1>6. d.rest = <<>> /\ d = [frames |-> <<>>, rest |-> Sse!StripCompleteComments(t)]
  BY <1>5
<1> HIDE DEF d
<1>7. Sse!DrainFrame(d) = d
  BY <1>6, EmptyText, DrainFrameIs
<1>8. Sse!Drain(t) \in {d}
  <2>1. \A x \in {d} : Sse!DrainFrame(x) \in {d}
    BY <1>7
  <2>2. [frames |-> <<>>, rest |-> Sse!StripCompleteComments(t)] \in {d} /\ Len(t) \in Nat
    BY <1>2, <1>6
  <2> QED BY <2>1, <2>2, DrainClosed
<1> QED BY <1>8 DEF d, t

\* The first half of a blob stays, without its comment.
LEMMA DrainCut ==
  ASSUME NEW n \in Int
  PROVE  Sse!Drain(Whole("cut", n)) = [frames |-> <<>>, rest |-> Left("cut", n)]
<1> DEFINE t == Whole("cut", n)
           h == Sse!BlobHead(n)
           v == <<Sse!Data, h, Sse!Lf>>
           d == [frames |-> <<>>, rest |-> v]
<1>1. t \in Text
  BY WholeType, KindsAre
<1>2. /\ Len(t) = 6 /\ t[1] = Sse!Data /\ t[2] = h /\ t[3] = Sse!Lf
      /\ t[4] = Sse!Comment /\ t[5] = Sse!Lf /\ t[6] = Sse!Lf
  BY WholeIs
<1>3. /\ h \in Token /\ h # Sse!Comment /\ h # Sse!Lf /\ h # Sse!Cr
      /\ Sse!Data # Sse!Comment /\ Sse!Data # Sse!Lf /\ Sse!Data # Sse!Cr
      /\ Sse!Lf # Sse!Comment /\ Sse!Lf # Sse!Cr /\ Sse!Comment # Sse!Cr
      /\ Sse!Data \in Token /\ Sse!Lf \in Token
  BY Tokens
<1> HIDE DEF h
<1>4. v \in Text /\ Len(v) = 3 /\ v[1] = Sse!Data /\ v[2] = h /\ v[3] = Sse!Lf
  BY <1>3, Tuples
<1>5. v = Left("cut", n)
  BY DEF Left, h
<1> HIDE DEF t, v
<1>6. Sse!NextCompleteComment(t) # {}
  <2>1. Sse!LineStart(t, 4)
    BY <1>2 DEF Sse!LineStart
  <2>2. LfAt(t, 5) /\ 5 \in 4 .. Len(t) /\ 4 \in 1 .. Len(t)
    BY <1>2 DEF LfAt
  <2>3. \A c \in 1 .. 4 - 1 : t[c] # Sse!Comment
    BY <1>2, <1>3
  <2> QED BY <1>1, <1>2, <2>1, <2>2, <2>3, CommentThere
<1>7. Sse!StripComment(t) = v
  <2>1. PICK a \in 1 .. Len(t), b \in 1 .. Len(t) :
          SpanOf(t, a, b) /\ Sse!StripComment(t) = Without(t, a, b)
    BY <1>1, <1>6, StripCommentIs
  <2>2. a = 4
    BY <1>2, <1>3, <2>1 DEF SpanOf
  <2>3. b = 6
    <3>1. PICK i \in 4 .. Len(t) : (CrlfAt(t, i) /\ b = i + 3) \/ (LfAt(t, i) /\ b = i + 1)
      BY <2>1, <2>2 DEF SpanOf
    <3>2. i \in {4, 5, 6}
      BY <3>1, <1>2
    <3>3. ~CrlfAt(t, i) /\ (LfAt(t, i) => i = 5)
      BY <3>2, <1>2, <1>3 DEF CrlfAt, LfAt
    <3> QED BY <3>1, <3>3
  <2> DEFINE w == Without(t, 4, 6)
  <2>4. /\ w \in Text /\ Len(w) = 6 - (6 - 4 + 1)
        /\ \A i \in 1 .. 6 - (6 - 4 + 1) : w[i] = IF i < 4 THEN t[i] ELSE t[i + (6 - 4 + 1)]
    <3>1. 4 \in 1 .. Len(t) /\ 6 \in 4 .. Len(t)
      BY <1>2
    <3>2. /\ Without(t, 4, 6) \in Text /\ Len(Without(t, 4, 6)) = Len(t) - (6 - 4 + 1)
          /\ \A i \in 1 .. Len(t) - (6 - 4 + 1) :
               Without(t, 4, 6)[i] = IF i < 4 THEN t[i] ELSE t[i + (6 - 4 + 1)]
      BY <1>1, <3>1, WithoutIs
    <3> QED BY <3>2, <1>2
  <2> HIDE DEF w
  <2>5. Len(w) = 3 /\ \A i \in 1 .. 3 : w[i] = v[i]
    <3>1. Len(w) = 3 /\ \A i \in 1 .. 3 : w[i] = t[i]
      BY <2>4
    <3>2. \A i \in {1, 2, 3} : t[i] = v[i]
      BY <1>2, <1>4
    <3> QED BY <3>1, <3>2
  <2>6. w = v
    BY <2>4, <2>5, <1>4, SeqEqual DEF Text
  <2> QED BY <2>1, <2>2, <2>3, <2>6 DEF w
<1>8. Sse!NextCompleteComment(v) = {} /\ Sse!FrameEnd(v) = {}
  <2>1. \A i \in 1 .. Len(v) : ~CrlfAt(v, i) /\ ~LfAt(v, i)
    BY <1>3, <1>4 DEF CrlfAt, LfAt
  <2> QED BY <1>4, <2>1, NoHits
<1>9. Sse!StripCompleteComments(t) = v
  <2>1. \A u \in {t, v} : Sse!StripComment(u) \in {t, v}
    BY <1>7, <1>8, StripCommentNone
  <2>2. Sse!StripCompleteComments(t) \in {t, v}
    <3>1. t \in {t, v} /\ Len(t) \in Nat
      BY <1>2
    <3> QED BY <2>1, <3>1, StripClosed
  <2>3. Sse!NextCompleteComment(Sse!StripCompleteComments(t)) = {}
    BY <1>1, StripType
  <2> QED BY <1>6, <2>2, <2>3
<1>10. d.rest = v /\ d = [frames |-> <<>>, rest |-> Sse!StripCompleteComments(t)]
  BY <1>9
<1> HIDE DEF d
<1>11. Sse!DrainFrame(d) = d
  BY <1>4, <1>8, <1>10, DrainFrameIs
<1>12. Sse!Drain(t) \in {d}
  <2>1. \A x \in {d} : Sse!DrainFrame(x) \in {d}
    BY <1>11
  <2>2. [frames |-> <<>>, rest |-> Sse!StripCompleteComments(t)] \in {d} /\ Len(t) \in Nat
    BY <1>2, <1>10
  <2> QED BY <2>1, <2>2, DrainClosed
<1> QED BY <1>5, <1>12 DEF d, t

\* A write alone in the buffer is handed on as soon as it is complete.
LEMMA DrainWhole ==
  ASSUME NEW form \in Sse!WriteKinds, NEW n \in Int
  PROVE  Sse!Drain(Whole(form, n)) = [frames |-> Handed(form, n), rest |-> Left(form, n)]
<1>1. CASE form \in Framed
  <2>1. Sse!FrameOf(form, n) # <<>>
    BY <1>1, FrameType DEF Frames
  <2>2. Handed(form, n) = <<Sse!FrameOf(form, n)>> /\ Left(form, n) = <<>>
    BY <1>1, <2>1 DEF Handed, Left, Framed
  <2> QED BY <1>1, <2>2, DrainFramed
<1>2. CASE form = "comment"
  <2>1. Handed(form, n) = <<>> /\ Left(form, n) = <<>>
    BY <1>2, FramesAre DEF Handed, Left
  <2> QED BY <1>2, <2>1, DrainComment
<1>3. CASE form = "cut"
  <2>1. Handed(form, n) = <<>>
    BY <1>3, FramesAre DEF Handed
  <2> QED BY <1>3, <2>1, DrainCut
<1> QED BY <1>1, <1>2, <1>3, KindsAre

-----------------------------------------------------------------------------
(* The frames of the first writes *)

Writes == Seq(Sse!WriteKinds)

LEMMA WritesLen ==
  ASSUME NEW s \in Writes
  PROVE  Len(s) \in Nat /\ DOMAIN s = 1 .. Len(s) /\ \A n \in 1 .. Len(s) : s[n] \in Sse!WriteKinds
BY LenProperties DEF Writes

LEMMA HandedType ==
  ASSUME NEW form \in Sse!WriteKinds, NEW n \in Int
  PROVE  Handed(form, n) \in Seq(Frames)
<1>1. CASE form \in Framed
  <2>1. Sse!FrameOf(form, n) \in Frames
    BY <1>1, FrameType
  <2>2. <<Sse!FrameOf(form, n)>> \in Seq(Frames)
    BY <2>1
  <2> QED BY <2>2, EmptySeq DEF Handed
<1>2. CASE form \in {"comment", "cut"}
  BY <1>2, FramesAre, EmptySeq DEF Handed
<1> QED BY <1>1, <1>2, KindsAre

\* f[n] is what the first n of the writes s hand on.
Summed(f, s, k) == f[0] = <<>> /\ \A n \in 1 .. k : f[n] = f[n - 1] \o Handed(s[n], n)

\* The frames of some writes are those of the writes before, and one.
LEMMA FramesTurns ==
  ASSUME NEW s \in Writes
  PROVE  \E f \in [0 .. Len(s) -> Seq(Frames)] :
           Summed(f, s, Len(s)) /\ Sse!FramesOf(s) = f[Len(s)]
<1> DEFINE k == Len(s)
           A == Seq(Frames)
           g == [x \in Nat \X A |-> IF x[1] \in 1 .. k THEN x[2] \o Handed(s[x[1]], x[1]) ELSE x[2]]
           Is(f) == f = [n \in 0 .. k |-> IF n = 0 THEN <<>>
                                          ELSE f[n - 1] \o (IF Sse!FrameOf(s[n], n) = <<>> THEN <<>>
                                                             ELSE <<Sse!FrameOf(s[n], n)>>)]
           frames == CHOOSE f : Is(f)
<1>0. k \in Nat /\ <<>> \in A
  BY WritesLen, EmptySeq
<1>9. \A n \in 1 .. k : s[n] \in Sse!WriteKinds
  BY WritesLen
<1>1. ASSUME NEW n \in Nat, NEW x \in A PROVE g[<<n, x>>] \in A
  <2>1. g[<<n, x>>] = IF n \in 1 .. k THEN x \o Handed(s[n], n) ELSE x
    <3> HIDE DEF A, k
    <3> QED OBVIOUS
  <2>2. ASSUME n \in 1 .. k PROVE x \o Handed(s[n], n) \in A
    <3>1. Handed(s[n], n) \in A
      BY <1>9, <2>2, HandedType
    <3> DEFINE y == Handed(s[n], n)
    <3> HIDE DEF y
    <3> QED BY <3>1, ConcatProperties DEF y
  <2> HIDE DEF A, g, k
  <2> QED BY <2>1, <2>2
<1>2. PICK f \in [0 .. k -> A] : Turned(f, <<>>, g, k)
  <2>1. IsTurn(g, A)
    <3> HIDE DEF g, A
    <3> QED BY <1>1 DEF IsTurn
  <2> HIDE DEF g, k, A
  <2> QED BY <1>0, <2>1, Turns
<1>3. ASSUME NEW n \in 1 .. k PROVE f[n] = f[n - 1] \o Handed(s[n], n) /\ n - 1 \in 0 .. k
  <2>1. n - 1 \in 0 .. k /\ n \in Nat
    BY <1>0
  <2>2. f[n] = g[<<n, f[n - 1]>>] /\ f[n - 1] \in A
    BY <2>1, <1>2 DEF Turned
  <2>3. g[<<n, f[n - 1]>>] = f[n - 1] \o Handed(s[n], n)
    <3> HIDE DEF A, k
    <3> QED BY <2>1, <2>2
  <2> QED BY <2>1, <2>2, <2>3
<1>4. f[0] = <<>>
  BY <1>2 DEF Turned
<1>5. Is(f)
  <2>1. ASSUME NEW n \in 0 .. k
        PROVE  f[n] = IF n = 0 THEN <<>>
                      ELSE f[n - 1] \o (IF Sse!FrameOf(s[n], n) = <<>> THEN <<>>
                                         ELSE <<Sse!FrameOf(s[n], n)>>)
    <3>1. CASE n = 0
      BY <3>1, <1>4
    <3>2. CASE n # 0
      <4>1. n \in 1 .. k
        BY <3>2, <1>0
      <4> QED BY <4>1, <3>2, <1>3 DEF Handed
    <3> QED BY <3>1, <3>2
  <2> HIDE DEF k, A
  <2> QED BY <1>2, <2>1
<1>6. Is(frames)
  <2> HIDE DEF Is
  <2> QED BY <1>5
<1>7. Sse!FramesOf(s) = frames[k]
  BY DEF Sse!FramesOf
<1>8. Summed(frames, s, k) /\ frames \in [0 .. k -> A]
  <2>1. frames[0] = <<>>
    <3> HIDE DEF frames, k
    <3> QED BY <1>0, <1>6
  <2>2. ASSUME NEW n \in 1 .. k PROVE frames[n] = frames[n - 1] \o Handed(s[n], n)
    <3>1. n \in 0 .. k /\ n # 0
      BY <1>0
    <3> HIDE DEF frames, k
    <3> QED BY <1>6, <3>1 DEF Handed
  <2>3. DOMAIN frames = 0 .. k /\ frames = [n \in 0 .. k |-> frames[n]]
    <3> HIDE DEF frames, k
    <3> QED BY <1>6
  <2>4. \A n \in 0 .. k : frames[n] \in A
    <3>1. ASSUME NEW n \in 1 .. k, frames[n - 1] \in A PROVE frames[n] \in A
      <4>1. Handed(s[n], n) \in A
        BY <1>9, <3>1, HandedType
      <4> DEFINE x == frames[n - 1]
                 y == Handed(s[n], n)
      <4> HIDE DEF x, y
      <4>2. x \o y \in A
        BY <4>1, <3>1, ConcatProperties DEF x, y
      <4> QED BY <4>2, <2>2 DEF x, y
    <3> HIDE DEF frames, k, A
    <3> QED BY <1>0, <2>1, <3>1, TurnsKeep
  <2> HIDE DEF frames, k, A
  <2> QED BY <2>1, <2>2, <2>3, <2>4 DEF Summed
<1> HIDE DEF frames
<1> QED BY <1>7, <1>8

LEMMA SummedLess ==
  ASSUME NEW k \in Nat, NEW n \in 0 .. k, NEW f, NEW s, Summed(f, s, k)
  PROVE  Summed(f, s, n)
<1>1. \A i \in 1 .. n : i \in 1 .. k
  OBVIOUS
<1> QED BY <1>1 DEF Summed

LEMMA SummedAgree ==
  ASSUME NEW k \in Nat, NEW f, NEW g, NEW s, NEW r,
         Summed(f, s, k), Summed(g, r, k), \A n \in 1 .. k : s[n] = r[n]
  PROVE  \A n \in 0 .. k : f[n] = g[n]
<1> DEFINE bad == {n \in 0 .. k : f[n] # g[n]}
<1>1. ASSUME NEW n \in bad, \A m \in bad : n <= m PROVE FALSE
  <2>1. n # 0
    BY DEF Summed
  <2>2. n - 1 \in 0 .. k /\ n \in 1 .. k /\ n - 1 < n
    BY <2>1
  <2>3. f[n - 1] = g[n - 1]
    BY <2>2, <1>1
  <2> QED BY <2>2, <2>3 DEF Summed
<1>2. bad \in SUBSET Nat
  OBVIOUS
<1> HIDE DEF bad
<1>3. bad = {}
  BY <1>1, <1>2, Smallest
<1> QED BY <1>3 DEF bad

UpTo(s, n) == Sse!FramesOf(SubSeq(s, 1, n))

LEMMA UpToSummed ==
  ASSUME NEW s \in Writes
  PROVE  \E f \in [0 .. Len(s) -> Seq(Frames)] :
           Summed(f, s, Len(s)) /\ \A n \in 0 .. Len(s) : UpTo(s, n) = f[n]
<1>1. PICK f \in [0 .. Len(s) -> Seq(Frames)] : Summed(f, s, Len(s))
  BY FramesTurns
<1>2. ASSUME NEW n \in 0 .. Len(s) PROVE UpTo(s, n) = f[n]
  <2> DEFINE r == SubSeq(s, 1, n)
  <2>1. Len(s) \in Nat /\ n \in Nat /\ n <= Len(s) /\ \A i \in 1 .. n : s[i] \in Sse!WriteKinds
    BY WritesLen
  <2>2. r \in Writes /\ Len(r) = n /\ \A i \in 1 .. n : r[i] = s[i]
    <3>1. /\ r \in Seq(Sse!WriteKinds) /\ Len(r) = IF 1 <= n THEN n - 1 + 1 ELSE 0
          /\ \A i \in 1 .. n - 1 + 1 : r[i] = s[1 + i - 1]
      BY <2>1, SubSeqProperties
    <3> HIDE DEF r
    <3> QED BY <3>1, <2>1 DEF Writes
  <2>3. UpTo(s, n) = Sse!FramesOf(r)
    BY DEF UpTo
  <2> HIDE DEF r
  <2>4. PICK g \in [0 .. Len(r) -> Seq(Frames)] :
          Summed(g, r, Len(r)) /\ Sse!FramesOf(r) = g[Len(r)]
    <3>1. r \in Writes
      BY <2>2
    <3> QED BY <3>1, FramesTurns, Zenon
  <2>5. Summed(f, s, n)
    BY <1>1, <2>1, SummedLess
  <2>6. f[n] = g[n]
    <3>1. \A i \in 1 .. n : s[i] = r[i]
      BY <2>2
    <3>2. Summed(g, r, n)
      BY <2>2, <2>4
    <3>3. \A i \in 0 .. n : f[i] = g[i]
      BY <3>1, <3>2, <2>1, <2>5, SummedAgree
    <3>4. n \in 0 .. n
      BY <2>1
    <3> QED BY <3>3, <3>4
  <2> QED BY <2>2, <2>3, <2>4, <2>6
<1> QED BY <1>1, <1>2

\* The frames of the first writes.
LEMMA UpToIs ==
  ASSUME NEW s \in Writes
  PROVE  /\ \A n \in 0 .. Len(s) : UpTo(s, n) \in Seq(Frames)
         /\ UpTo(s, 0) = <<>>
         /\ \A n \in 1 .. Len(s) : UpTo(s, n) = UpTo(s, n - 1) \o Handed(s[n], n)
         /\ UpTo(s, Len(s)) = Sse!FramesOf(s)
<1>1. PICK f \in [0 .. Len(s) -> Seq(Frames)] :
        Summed(f, s, Len(s)) /\ \A n \in 0 .. Len(s) : UpTo(s, n) = f[n]
  BY UpToSummed
<1>2. Len(s) \in Nat
  BY WritesLen
<1>3. \A n \in 0 .. Len(s) : UpTo(s, n) \in Seq(Frames)
  BY <1>1
<1>4. UpTo(s, 0) = <<>>
  BY <1>1, <1>2 DEF Summed
<1>5. ASSUME NEW n \in 1 .. Len(s) PROVE UpTo(s, n) = UpTo(s, n - 1) \o Handed(s[n], n)
  <2>1. n \in 0 .. Len(s) /\ n - 1 \in 0 .. Len(s)
    BY <1>2
  <2> QED BY <2>1, <1>1 DEF Summed
<1>6. SubSeq(s, 1, Len(s)) = s
  BY SubSeqFull DEF Writes
<1> QED BY <1>3, <1>4, <1>5, <1>6 DEF UpTo

LEMMA AppendWrite ==
  ASSUME NEW s \in Writes, NEW form \in Sse!WriteKinds
  PROVE  /\ Append(s, form) \in Writes /\ Len(Append(s, form)) = Len(s) + 1
         /\ \A n \in 1 .. Len(s) : Append(s, form)[n] = s[n]
         /\ Append(s, form)[Len(s) + 1] = form
<1>1. Len(s) \in Nat /\ s \in Seq(Sse!WriteKinds)
  BY WritesLen DEF Writes
<1> QED BY <1>1, AppendProperties DEF Writes

LEMMA UpToAppend ==
  ASSUME NEW s \in Writes, NEW form \in Sse!WriteKinds, NEW n \in 0 .. Len(s)
  PROVE  UpTo(Append(s, form), n) = UpTo(s, n)
<1> DEFINE r == Append(s, form)
<1>1. r \in Writes /\ Len(r) = Len(s) + 1 /\ \A i \in 1 .. Len(s) : r[i] = s[i]
  BY AppendWrite
<1>2. Len(s) \in Nat
  BY WritesLen
<1> HIDE DEF r
<1>3. PICK f : Summed(f, s, Len(s)) /\ \A m \in 0 .. Len(s) : UpTo(s, m) = f[m]
  BY UpToSummed
<1>4. PICK g \in [0 .. Len(r) -> Seq(Frames)] :
        Summed(g, r, Len(r)) /\ \A m \in 0 .. Len(r) : UpTo(r, m) = g[m]
  <2>1. r \in Writes
    BY <1>1
  <2> QED BY <2>1, UpToSummed, Zenon
<1>5. Summed(g, r, Len(s))
  <2>1. Len(r) \in Nat /\ Len(s) \in 0 .. Len(r) /\ Summed(g, r, Len(r))
    BY <1>1, <1>2, <1>4
  <2> QED BY <2>1, SummedLess
<1>6. f[n] = g[n]
  <2>1. \A i \in 1 .. Len(s) : s[i] = r[i]
    BY <1>1
  <2>2. Summed(f, s, Len(s))
    BY <1>3
  <2>3. \A i \in 0 .. Len(s) : f[i] = g[i]
    BY <2>1, <2>2, <1>2, <1>5, SummedAgree
  <2> QED BY <2>3
<1>7. n \in 0 .. Len(r)
  BY <1>1, <1>2
<1> QED BY <1>3, <1>4, <1>6, <1>7 DEF r

LEMMA Prefixes ==
  ASSUME NEW a \in Seq(Frames), NEW b \in Seq(Frames)
  PROVE  Sse!IsPrefix(a, b) <=> Len(a) <= Len(b) /\ \A i \in 1 .. Len(a) : a[i] = b[i]
<1>1. Len(a) \in Nat /\ Len(b) \in Nat
  BY LenProperties
<1>2. SubSeq(a, 1, Len(a)) = a
  BY SubSeqFull
<1>3. ASSUME Len(a) <= Len(b)
      PROVE  SubSeq(b, 1, Len(a)) = a <=> \A i \in 1 .. Len(a) : a[i] = b[i]
  <2> DEFINE u == SubSeq(b, 1, Len(a))
  <2>1. \A i \in 1 .. Len(a) : b[i] \in Frames
    BY <1>1, <1>3, ElementOfSeq
  <2>2. u \in Seq(Frames) /\ Len(u) = Len(a) /\ \A i \in 1 .. Len(a) : u[i] = b[i]
    <3>1. /\ u \in Seq(Frames) /\ Len(u) = IF 1 <= Len(a) THEN Len(a) - 1 + 1 ELSE 0
          /\ \A i \in 1 .. Len(a) - 1 + 1 : u[i] = b[1 + i - 1]
      BY <2>1, <1>1, SubSeqProperties
    <3> HIDE DEF u
    <3> QED BY <3>1, <1>1
  <2> HIDE DEF u
  <2>3. (\A i \in 1 .. Len(a) : a[i] = b[i]) => u = a
    BY <2>2, SeqEqual
  <2> QED BY <2>2, <2>3 DEF u
<1> QED BY <1>2, <1>3 DEF Sse!IsPrefix

LEMMA PrefixConcat ==
  ASSUME NEW a \in Seq(Frames), NEW b \in Seq(Frames)
  PROVE  Sse!IsPrefix(a, a \o b) /\ a \o b \in Seq(Frames)
<1>1. Len(a) \in Nat /\ Len(b) \in Nat
  BY LenProperties
<1> DEFINE c == a \o b
<1>2. /\ c \in Seq(Frames) /\ Len(c) = Len(a) + Len(b)
      /\ \A i \in 1 .. Len(a) + Len(b) : c[i] = IF i <= Len(a) THEN a[i] ELSE b[i - Len(a)]
  BY ConcatProperties
<1> HIDE DEF c
<1>3. Len(a) <= Len(c) /\ \A i \in 1 .. Len(a) : a[i] = c[i]
  BY <1>1, <1>2
<1> QED BY <1>2, <1>3, Prefixes DEF c

LEMMA PrefixTrans ==
  ASSUME NEW a \in Seq(Frames), NEW b \in Seq(Frames), NEW c \in Seq(Frames),
         Sse!IsPrefix(a, b), Sse!IsPrefix(b, c)
  PROVE  Sse!IsPrefix(a, c)
<1>1. Len(a) \in Nat /\ Len(b) \in Nat /\ Len(c) \in Nat
  BY LenProperties
<1>2. /\ Len(a) <= Len(b) /\ \A i \in 1 .. Len(a) : a[i] = b[i]
      /\ Len(b) <= Len(c) /\ \A i \in 1 .. Len(b) : b[i] = c[i]
  BY Prefixes
<1>3. Len(a) <= Len(c) /\ \A i \in 1 .. Len(a) : a[i] = c[i]
  BY <1>1, <1>2
<1> QED BY <1>3, Prefixes

LEMMA PrefixSelf ==
  ASSUME NEW a \in Seq(Frames)
  PROVE  Sse!IsPrefix(a, a)
BY LenProperties, Prefixes

\* The frames of fewer writes are the first ones.
LEMMA UpToGrows ==
  ASSUME NEW s \in Writes, NEW m \in 0 .. Len(s), NEW n \in m .. Len(s)
  PROVE  Sse!IsPrefix(UpTo(s, m), UpTo(s, n))
<1> DEFINE bad == {l \in m .. Len(s) : ~Sse!IsPrefix(UpTo(s, m), UpTo(s, l))}
<1>0. Len(s) \in Nat
  BY WritesLen
<1>1. ASSUME NEW l \in bad, \A j \in bad : l <= j PROVE FALSE
  <2>0. UpTo(s, m) \in Seq(Frames)
    BY UpToIs
  <2>1. l # m
    BY <2>0, PrefixSelf
  <2>2. l - 1 \in m .. Len(s) /\ l \in 1 .. Len(s) /\ l - 1 \in 0 .. Len(s) /\ l - 1 < l
    BY <2>1, <1>0
  <2>3. Sse!IsPrefix(UpTo(s, m), UpTo(s, l - 1))
    BY <2>2, <1>1
  <2> DEFINE x == UpTo(s, m)
             y == UpTo(s, l - 1)
             h == Handed(s[l], l)
  <2>4. UpTo(s, l) = y \o h /\ y \in Seq(Frames) /\ x \in Seq(Frames)
    BY <2>2, UpToIs
  <2>5. h \in Seq(Frames)
    BY <2>2, WritesLen, HandedType
  <2> HIDE DEF x, y, h
  <2>6. Sse!IsPrefix(y, y \o h) /\ y \o h \in Seq(Frames)
    BY <2>4, <2>5, PrefixConcat
  <2>7. Sse!IsPrefix(x, y)
    BY <2>3 DEF x, y
  <2>8. Sse!IsPrefix(x, y \o h)
    <3> DEFINE z == y \o h
    <3>1. z \in Seq(Frames) /\ Sse!IsPrefix(y, z)
      BY <2>6
    <3> HIDE DEF z
    <3>2. Sse!IsPrefix(x, z)
      BY <2>4, <2>7, <3>1, PrefixTrans
    <3> QED BY <3>2 DEF z
  <2>9. Sse!IsPrefix(UpTo(s, m), UpTo(s, l))
    BY <2>4, <2>8 DEF x
  <2> QED BY <2>9
<1>2. bad \in SUBSET Nat
  BY <1>0
<1> HIDE DEF bad
<1>3. bad = {}
  BY <1>1, <1>2, Smallest
<1> QED BY <1>3 DEF bad

-----------------------------------------------------------------------------
(* Frames that were handed on whole and in order *)

\* The other half of a line follows its first half.
RestFollowsCut(s) == \A n \in 1 .. Len(s) : s[n] = "rest" => n > 1 /\ s[n - 1] = "cut"

\* The frames are some of those of the first lo writes, in order.
InOrder(frames, lo, s) ==
  /\ \A k \in 1 .. Len(frames) :
       \E n \in 1 .. lo : s[n] \in Framed /\ frames[k] = Sse!FrameOf(s[n], n)
  /\ \A j, k \in 1 .. Len(frames) : j < k => frames[j][1][2] < frames[k][1][2]

\* A frame is numbered by the write it starts with.
LEMMA FrameLabel ==
  ASSUME NEW form \in Framed, NEW n \in Int
  PROVE  Sse!FrameOf(form, n)[1][2] = IF form = "rest" THEN n - 1 ELSE n
<1>1. Sse!FrameOf("rest", n)[1][2] = n - 1
  <2>1. Sse!FrameOf("rest", n)[1] = Sse!BlobHead(n - 1)
    BY FramesAre
  <2>2. Sse!BlobHead(n - 1)[2] = n - 1
    BY DEF Sse!BlobHead
  <2> QED BY <2>1, <2>2
<1>2. Sse!FrameOf("aes", n)[1][2] = n
  <2>1. Sse!FrameOf("aes", n)[1] = Sse!BlobHead(n)
    BY FramesAre
  <2>2. Sse!BlobHead(n)[2] = n
    BY DEF Sse!BlobHead
  <2> QED BY <2>1, <2>2
<1>3. Sse!FrameOf("json", n)[1][2] = n
  <2>1. Sse!FrameOf("json", n)[1] = Sse!Json(n)
    BY FramesAre
  <2>2. Sse!Json(n)[2] = n
    BY DEF Sse!Json
  <2> QED BY <2>1, <2>2
<1>4. Sse!FrameOf("chat", n)[1][2] = n
  <2>1. Sse!FrameOf("chat", n)[1] = Sse!Json(n)
    BY FramesAre
  <2>2. Sse!Json(n)[2] = n
    BY DEF Sse!Json
  <2> QED BY <2>1, <2>2
<1> QED BY <1>1, <1>2, <1>3, <1>4 DEF Framed

\* A frame of a later write keeps the order: no two writes share a number.
LEMMA InOrderAppend ==
  ASSUME NEW s \in Writes, RestFollowsCut(s), NEW frames \in Seq(Frames), NEW lo \in Nat,
         InOrder(frames, lo, s), NEW n \in 1 .. Len(s), lo < n, s[n] \in Framed
  PROVE  InOrder(frames \o <<Sse!FrameOf(s[n], n)>>, n, s)
<1> DEFINE f == Sse!FrameOf(s[n], n)
           F == frames \o <<f>>
           label(k) == F[k][1][2]
<1>0. Len(frames) \in Nat /\ n \in Nat /\ Len(s) \in Nat
  BY LenProperties, WritesLen
<1>1. f \in Frames
  BY <1>0, FrameType
<1>2. /\ Len(F) = Len(frames) + 1
      /\ \A k \in 1 .. Len(frames) : F[k] = frames[k]
      /\ F[Len(frames) + 1] = f
  <2>1. <<f>> \in Seq(Frames) /\ Len(<<f>>) = 1 /\ <<f>>[1] = f
    BY <1>1
  <2> DEFINE o == <<f>>
  <2> HIDE DEF o
  <2>2. o \in Seq(Frames) /\ Len(o) = 1 /\ o[1] = f
    BY <2>1 DEF o
  <2> DEFINE G == frames \o o
  <2>3. /\ Len(G) = Len(frames) + Len(o)
        /\ \A k \in 1 .. Len(frames) + Len(o) :
             G[k] = IF k <= Len(frames) THEN frames[k] ELSE o[k - Len(frames)]
    BY <2>2, ConcatProperties
  <2> HIDE DEF G, f
  <2>4. Len(G) = Len(frames) + 1
    BY <2>2, <2>3
  <2>5. \A k \in 1 .. Len(frames) : G[k] = frames[k]
    BY <2>2, <2>3, <1>0
  <2>6. G[Len(frames) + 1] = f
    <3>1. Len(frames) + 1 \in 1 .. Len(frames) + Len(o) /\ ~(Len(frames) + 1 <= Len(frames))
          /\ Len(frames) + 1 - Len(frames) = 1
      BY <2>2, <1>0
    <3> QED BY <2>2, <2>3, <3>1
  <2> QED BY <2>4, <2>5, <2>6 DEF G, o
<1>3. \A k \in 1 .. Len(F) : \E m \in 1 .. n : s[m] \in Framed /\ F[k] = Sse!FrameOf(s[m], m)
  <2> HIDE DEF F
  <2>1. ASSUME NEW k \in 1 .. Len(frames)
        PROVE  \E m \in 1 .. n : s[m] \in Framed /\ F[k] = Sse!FrameOf(s[m], m)
    <3>1. PICK m \in 1 .. lo : s[m] \in Framed /\ frames[k] = Sse!FrameOf(s[m], m)
      BY DEF InOrder
    <3>2. m \in 1 .. n
      BY <1>0
    <3> QED BY <3>1, <3>2, <1>2
  <2>2. n \in 1 .. n
    BY <1>0
  <2> HIDE DEF f
  <2>3. \A k \in 1 .. Len(F) : k \in 1 .. Len(frames) \/ k = Len(frames) + 1
    BY <1>0, <1>2
  <2> QED BY <2>1, <2>2, <2>3, <1>2 DEF f
<1>4. ASSUME NEW j \in 1 .. Len(frames) PROVE frames[j][1][2] < f[1][2]
  <2>1. PICK m \in 1 .. lo : s[m] \in Framed /\ frames[j] = Sse!FrameOf(s[m], m)
    BY DEF InOrder
  <2>2. m \in Int /\ m < n /\ m \in 1 .. Len(s)
    BY <1>0
  <2>3. frames[j][1][2] = IF s[m] = "rest" THEN m - 1 ELSE m
    BY <2>1, <2>2, FrameLabel
  <2>4. f[1][2] = IF s[n] = "rest" THEN n - 1 ELSE n
    <3>1. n \in Int /\ s[n] \in Framed
      BY <1>0
    <3> QED BY <3>1, FrameLabel
  <2>5. s[n] = "rest" => m # n - 1
    <3>1. ASSUME s[n] = "rest", m = n - 1 PROVE FALSE
      <4>1. s[m] = "cut"
        BY <3>1, <1>0 DEF RestFollowsCut
      <4> QED BY <2>1, <4>1 DEF Framed
    <3> QED BY <3>1
  <2> HIDE DEF f
  <2> QED BY <2>2, <2>3, <2>4, <2>5, <1>0
<1> HIDE DEF F, f
<1>5. \A j, k \in 1 .. Len(F) : j < k => F[j][1][2] < F[k][1][2]
  <2>1. ASSUME NEW j \in 1 .. Len(F), NEW k \in 1 .. Len(F), j < k
        PROVE  F[j][1][2] < F[k][1][2]
    <3>1. j \in 1 .. Len(frames) /\ F[j] = frames[j]
      BY <1>0, <1>2, <2>1
    <3>2. CASE k \in 1 .. Len(frames)
      <4>1. F[k] = frames[k] /\ frames[j][1][2] < frames[k][1][2]
        BY <1>2, <2>1, <3>1, <3>2 DEF InOrder
      <4> QED BY <3>1, <4>1
    <3>3. CASE k = Len(frames) + 1
      BY <1>2, <1>4, <3>1, <3>3
    <3> QED BY <3>2, <3>3, <1>0, <1>2
  <2> QED BY <2>1
<1>6. InOrder(F, n, s)
  BY <1>3, <1>5 DEF InOrder
<1> QED BY <1>6 DEF F, f

LEMMA InOrderMore ==
  ASSUME NEW frames, NEW lo \in Nat, NEW hi \in Nat, lo <= hi, NEW s, NEW r,
         \A n \in 1 .. lo : r[n] = s[n], InOrder(frames, lo, s)
  PROVE  InOrder(frames, hi, r)
<1>1. ASSUME NEW k \in 1 .. Len(frames)
      PROVE  \E n \in 1 .. hi : r[n] \in Framed /\ frames[k] = Sse!FrameOf(r[n], n)
  <2>1. PICK m \in 1 .. lo : s[m] \in Framed /\ frames[k] = Sse!FrameOf(s[m], m)
    BY DEF InOrder
  <2>2. m \in 1 .. hi /\ r[m] = s[m]
    OBVIOUS
  <2> QED BY <2>1, <2>2
<1> QED BY <1>1 DEF InOrder

LEMMA InOrderNone ==
  ASSUME NEW lo, NEW s
  PROVE  InOrder(<<>>, lo, s)
BY DEF InOrder

\* Handing on a write's frame, if it has one.
LEMMA InOrderHanded ==
  ASSUME NEW s \in Writes, RestFollowsCut(s), NEW frames \in Seq(Frames), NEW lo \in Nat,
         InOrder(frames, lo, s), NEW n \in 1 .. Len(s), lo < n
  PROVE  InOrder(frames \o Handed(s[n], n), n, s)
<1>0. n \in Nat /\ s[n] \in Sse!WriteKinds /\ n \in Int
  BY WritesLen
<1>1. CASE s[n] \in Framed
  <2>1. Sse!FrameOf(s[n], n) # <<>>
    BY <1>0, <1>1, FrameType DEF Frames
  <2> QED BY <1>1, <2>1, InOrderAppend DEF Handed
<1>2. CASE s[n] \notin Framed
  <2>1. Handed(s[n], n) = <<>>
    BY <1>0, <1>2, KindsAre, FramesAre DEF Handed
  <2>2. frames \o <<>> = frames
    BY ConcatEmptySeq
  <2>3. lo <= n
    BY <1>0
  <2> QED BY <1>0, <2>1, <2>2, <2>3, InOrderMore
<1> QED BY <1>1, <1>2

-----------------------------------------------------------------------------
(* Where the tokens of a text come from *)

WriteAt(s, n) == Sse!WriteOf(s[n], n)

\* Token i of the text is token of[i] of write it[i], and what comes next is
\* the write's next token or the first token of a later write.
Comes(s, t, it, of, i) ==
  /\ it[i] <= Len(s) /\ of[i] <= Len(WriteAt(s, it[i]))
  /\ t[i] = WriteAt(s, it[i])[of[i]]
  /\ \/ of[i] < Len(WriteAt(s, it[i])) /\ it[i + 1] = it[i] /\ of[i + 1] = of[i] + 1
     \/ of[i] = Len(WriteAt(s, it[i])) /\ it[i + 1] > it[i] /\ of[i + 1] = 1

\* The first p tokens of the text are whole writes of s, in their order.
Labelled(s, t, p, it, of) ==
  /\ s \in Writes /\ t \in Text /\ p \in 0 .. Len(t)
  /\ it \in [1 .. p + 1 -> Nat \ {0}] /\ of \in [1 .. p + 1 -> Nat \ {0}]
  /\ of[1] = 1 /\ of[p + 1] = 1
  /\ \A i \in 1 .. p : Comes(s, t, it, of, i)

LEMMA LabelTypes ==
  ASSUME NEW s, NEW t, NEW p, NEW it, NEW of, Labelled(s, t, p, it, of)
  PROVE  /\ s \in Writes /\ t \in Text /\ Len(t) \in Nat /\ Len(s) \in Nat
         /\ p \in Nat /\ p <= Len(t)
         /\ \A i \in 1 .. p + 1 : /\ it[i] \in Nat /\ it[i] >= 1
                                  /\ of[i] \in Nat /\ of[i] >= 1
         /\ of[1] = 1 /\ of[p + 1] = 1
         /\ \A i \in 1 .. p : /\ it[i] \in 1 .. Len(s) /\ s[it[i]] \in Sse!WriteKinds
                              /\ WriteAt(s, it[i]) \in Text /\ Len(WriteAt(s, it[i])) \in Nat
                              /\ Comes(s, t, it, of, i)
<1>1. s \in Writes /\ t \in Text /\ Len(t) \in Nat /\ Len(s) \in Nat
  BY Texts, WritesLen DEF Labelled
<1>2. p \in Nat /\ p <= Len(t)
  BY <1>1 DEF Labelled
<1>3. \A i \in 1 .. p + 1 : it[i] \in Nat /\ it[i] >= 1 /\ of[i] \in Nat /\ of[i] >= 1
  <2>1. \A i \in 1 .. p + 1 : it[i] \in Nat \ {0} /\ of[i] \in Nat \ {0}
    BY DEF Labelled
  <2> QED BY <2>1
<1>4. ASSUME NEW i \in 1 .. p
      PROVE  /\ it[i] \in 1 .. Len(s) /\ s[it[i]] \in Sse!WriteKinds
             /\ WriteAt(s, it[i]) \in Text /\ Len(WriteAt(s, it[i])) \in Nat
             /\ Comes(s, t, it, of, i)
  <2>1. Comes(s, t, it, of, i)
    BY DEF Labelled
  <2>2. i \in 1 .. p + 1
    BY <1>2
  <2>3. it[i] \in 1 .. Len(s)
    BY <2>1, <2>2, <1>1, <1>3 DEF Comes
  <2>4. s[it[i]] \in Sse!WriteKinds /\ it[i] \in Int
    BY <2>3, <1>1, WritesLen
  <2>5. WriteAt(s, it[i]) \in Text
    BY <2>4, WholeType DEF WriteAt
  <2> QED BY <2>1, <2>3, <2>4, <2>5, Texts
<1>5. of[1] = 1 /\ of[p + 1] = 1
  BY DEF Labelled
<1> QED BY <1>1, <1>2, <1>3, <1>4, <1>5

\* Writes come in their order.
LEMMA LabelsRise ==
  ASSUME NEW s, NEW t, NEW p, NEW it, NEW of, Labelled(s, t, p, it, of),
         NEW i \in 1 .. p + 1, NEW j \in i .. p + 1
  PROVE  it[i] <= it[j]
<1> DEFINE bad == {l \in i .. p + 1 : ~(it[i] <= it[l])}
<1>0. /\ p \in Nat /\ \A l \in 1 .. p + 1 : it[l] \in Nat
      /\ \A l \in 1 .. p : Comes(s, t, it, of, l)
  BY LabelTypes
<1>1. ASSUME NEW l \in bad, \A m \in bad : l <= m PROVE FALSE
  <2>1. l # i
    BY <1>0
  <2>2. l - 1 \in i .. p + 1 /\ l - 1 \in 1 .. p /\ l - 1 < l /\ l - 1 + 1 = l /\ l \in 1 .. p + 1
    BY <2>1, <1>0
  <2>3. it[i] <= it[l - 1]
    BY <2>2, <1>1
  <2>4. it[l] = it[l - 1] \/ it[l] > it[l - 1]
    <3>1. Comes(s, t, it, of, l - 1)
      BY <2>2, <1>0
    <3> QED BY <3>1, <2>2 DEF Comes
  <2>5. it[l] \in Nat /\ it[l - 1] \in Nat /\ it[i] \in Nat /\ ~(it[i] <= it[l])
    BY <2>2, <1>0
  <2> HIDE DEF bad
  <2> QED BY <2>3, <2>4, <2>5
<1>2. bad \in SUBSET Nat
  BY <1>0
<1> HIDE DEF bad
<1>3. bad = {}
  BY <1>1, <1>2, Smallest
<1> QED BY <1>3 DEF bad

\* A later token starts a write: the one before it ends one.
LEMMA LabelBefore ==
  ASSUME NEW s, NEW t, NEW p, NEW it, NEW of, Labelled(s, t, p, it, of), NEW i \in 1 .. p
  PROVE  /\ of[i + 1] = 1 => of[i] = Len(WriteAt(s, it[i])) /\ it[i] < it[i + 1]
         /\ of[i + 1] # 1 => it[i] = it[i + 1] /\ of[i] = of[i + 1] - 1
<1>1. /\ Comes(s, t, it, of, i) /\ of[i] \in Nat /\ of[i] >= 1 /\ p \in Nat
      /\ it[i] \in Nat /\ it[i + 1] \in Nat
  <2>1. p \in Nat
    BY LabelTypes
  <2>2. i \in 1 .. p + 1 /\ i + 1 \in 1 .. p + 1
    BY <2>1
  <2> QED BY <2>1, <2>2, LabelTypes
<1> QED BY <1>1 DEF Comes

LEMMA LabelsBelow ==
  ASSUME NEW s, NEW t, NEW p, NEW it, NEW of, Labelled(s, t, p, it, of), NEW i \in 1 .. p
  PROVE  it[i] < it[p + 1]
<1>1. p \in Nat /\ of[p + 1] = 1 /\ \A l \in 1 .. p + 1 : it[l] \in Nat
  BY LabelTypes
<1>2. p \in 1 .. p /\ p + 1 \in 1 .. p + 1 /\ i \in 1 .. p + 1 /\ p \in i .. p + 1 /\ p \in 1 .. p + 1
  BY <1>1
<1>3. it[p] < it[p + 1]
  BY <1>1, <1>2, LabelBefore
<1>4. it[i] <= it[p]
  BY <1>2, LabelsRise
<1>5. it[i] \in Nat /\ it[p] \in Nat /\ it[p + 1] \in Nat
  BY <1>1, <1>2
<1> QED BY <1>3, <1>4, <1>5

\* The text starts with the whole of the first write.
LEMMA FirstWrite ==
  ASSUME NEW s, NEW t, NEW p, NEW it, NEW of, Labelled(s, t, p, it, of), p >= 1
  PROVE  LET L == Len(WriteAt(s, it[1]))
         IN  /\ L \in 1 .. p /\ StartsWith(t, WriteAt(s, it[1]))
             /\ it[L] = it[1] /\ of[L] = L
             /\ it[L + 1] > it[1] /\ of[L + 1] = 1
<1> DEFINE n == it[1]
           w == WriteAt(s, n)
           L == Len(w)
           good(i) == i <= p /\ it[i] = n /\ of[i] = i
           bad == {i \in 1 .. L : ~good(i)}
<1>0. /\ p \in Nat /\ 1 \in 1 .. p /\ L \in Nat /\ of[1] = 1 /\ of[p + 1] = 1
      /\ p <= Len(t) /\ Len(t) \in Nat
      /\ \A i \in 1 .. p : Comes(s, t, it, of, i) /\ it[i] \in Nat /\ of[i] \in Nat
  <2>1. p \in Nat /\ 1 \in 1 .. p
    BY LabelTypes
  <2>2. \A i \in 1 .. p : i \in 1 .. p + 1
    BY <2>1
  <2> QED BY <2>1, <2>2, LabelTypes
<1>4. L >= 1
  <2>1. Comes(s, t, it, of, 1)
    BY <1>0
  <2> QED BY <2>1, <1>0 DEF Comes
<1> HIDE DEF n, w, L
<1>1. ASSUME NEW m \in bad, \A i \in bad : m <= i PROVE FALSE
  <2>1. m # 1
    BY <1>0, <1>1 DEF n
  <2>2. m - 1 \in 1 .. L /\ m - 1 < m /\ m \in 1 .. L /\ m - 1 + 1 = m
    BY <2>1, <1>0
  <2>3. good(m - 1)
    BY <2>2, <1>1
  <2>4. m - 1 \in 1 .. p /\ of[m - 1] < L
    BY <2>2, <2>3, <1>0
  <2>5. it[m] = n /\ of[m] = m
    <3>1. Comes(s, t, it, of, m - 1)
      BY <2>4, <1>0
    <3>2. of[m - 1] < Len(WriteAt(s, it[m - 1]))
      BY <2>3, <2>4 DEF L, w
    <3>3. it[m - 1 + 1] = it[m - 1] /\ of[m - 1 + 1] = of[m - 1] + 1
      BY <3>1, <3>2, <2>4, <1>0 DEF Comes
    <3> QED BY <3>3, <2>2, <2>3
  <2>6. m # p + 1
    BY <2>1, <2>5, <1>0
  <2>7. m <= p
    BY <2>2, <2>4, <2>6, <1>0
  <2>8. good(m)
    BY <2>5, <2>7
  <2> QED BY <2>8
<1>2. bad \in SUBSET Nat
  BY <1>0
<1>3. \A i \in 1 .. L : good(i)
  <2>1. bad = {}
    <3> HIDE DEF bad
    <3> QED BY <1>1, <1>2, Smallest
  <2> QED BY <2>1
<1>5. L \in 1 .. L /\ L \in 1 .. p /\ it[L] = n /\ of[L] = L
  BY <1>0, <1>3, <1>4
<1>6. it[L + 1] > n /\ of[L + 1] = 1
  <2>1. Comes(s, t, it, of, L)
    BY <1>0, <1>5
  <2>2. of[L] = Len(WriteAt(s, it[L]))
    BY <1>5 DEF L, w
  <2> QED BY <2>1, <2>2, <1>0, <1>5 DEF Comes
<1>7. StartsWith(t, w)
  <2>1. ASSUME NEW i \in 1 .. L PROVE t[i] = w[i]
    <3>1. good(i) /\ i \in 1 .. p
      BY <1>0, <1>3
    <3> QED BY <3>1, <1>0 DEF Comes, w
  <2>2. L <= Len(t)
    BY <1>0, <1>5
  <2> QED BY <2>1, <2>2 DEF StartsWith, L
<1> QED BY <1>5, <1>6, <1>7 DEF n, w, L

LEMMA JoinIs ==
  ASSUME NEW t \in Text, NEW u \in Text
  PROVE  /\ t \o u \in Text /\ Len(t \o u) = Len(t) + Len(u)
         /\ \A i \in 1 .. Len(t) : (t \o u)[i] = t[i]
         /\ \A i \in 1 .. Len(u) : (t \o u)[Len(t) + i] = u[i]
<1>0. Len(t) \in Nat /\ Len(u) \in Nat
  BY Texts
<1> DEFINE f == t \o u
<1>1. /\ f \in Seq(Token) /\ Len(f) = Len(t) + Len(u)
      /\ \A i \in 1 .. Len(t) + Len(u) : f[i] = IF i <= Len(t) THEN t[i] ELSE u[i - Len(t)]
  BY ConcatProperties DEF Text
<1> HIDE DEF f
<1>2. \A i \in 1 .. Len(t) : f[i] = t[i]
  BY <1>0, <1>1
<1>3. ASSUME NEW i \in 1 .. Len(u) PROVE f[Len(t) + i] = u[i]
  <2>1. Len(t) + i \in 1 .. Len(t) + Len(u) /\ ~(Len(t) + i <= Len(t)) /\ Len(t) + i - Len(t) = i
    BY <1>0
  <2> QED BY <2>1, <1>1
<1> QED BY <1>1, <1>2, <1>3 DEF f, Text

LEMMA WithoutJoin ==
  ASSUME NEW t \in Text, NEW u \in Text, NEW a \in 1 .. Len(t), NEW b \in a .. Len(t)
  PROVE  Without(t, a, b) \o u = Without(t \o u, a, b)
<1> DEFINE f == t \o u
           v == Without(t, a, b)
           g == v \o u
           h == Without(f, a, b)
           c == b - a + 1
<1>0. Len(t) \in Nat /\ Len(u) \in Nat /\ a \in Nat /\ b \in Nat /\ a >= 1 /\ a <= b /\ b <= Len(t)
      /\ c \in Nat
  BY Texts
<1>1. /\ f \in Text /\ Len(f) = Len(t) + Len(u)
      /\ \A i \in 1 .. Len(t) : f[i] = t[i]
      /\ \A i \in 1 .. Len(u) : f[Len(t) + i] = u[i]
  BY JoinIs
<1>2. /\ v \in Text /\ Len(v) = Len(t) - c
      /\ \A i \in 1 .. Len(t) - c : v[i] = IF i < a THEN t[i] ELSE t[i + c]
  BY WithoutIs
<1> HIDE DEF f, v
<1>3. /\ g \in Text /\ Len(g) = Len(v) + Len(u)
      /\ \A i \in 1 .. Len(v) : g[i] = v[i]
      /\ \A i \in 1 .. Len(u) : g[Len(v) + i] = u[i]
  BY <1>2, JoinIs
<1>4. /\ h \in Text /\ Len(h) = Len(f) - c
      /\ \A i \in 1 .. Len(f) - c : h[i] = IF i < a THEN f[i] ELSE f[i + c]
  <2>1. a \in 1 .. Len(f) /\ b \in a .. Len(f)
    BY <1>0, <1>1
  <2> QED BY <1>1, <2>1, WithoutIs
<1>5. c <= Len(t) /\ c >= 1 /\ a + c = b + 1
  BY <1>0
<1> HIDE DEF g, h, c
<1>6. Len(g) = Len(h)
  BY <1>0, <1>1, <1>2, <1>3, <1>4
<1>7. ASSUME NEW i \in 1 .. Len(g) PROVE g[i] = h[i]
  <2>1. CASE i <= Len(v)
    <3>1. i \in 1 .. Len(v) /\ i \in 1 .. Len(t) - c /\ i \in 1 .. Len(f) - c
          /\ i \in 1 .. Len(t) /\ i + c \in 1 .. Len(t)
      BY <2>1, <1>0, <1>1, <1>2, <1>3
    <3>2. g[i] = IF i < a THEN t[i] ELSE t[i + c]
      BY <3>1, <1>2, <1>3
    <3>3. h[i] = IF i < a THEN f[i] ELSE f[i + c]
      BY <3>1, <1>4
    <3> QED BY <3>1, <3>2, <3>3, <1>1
  <2>2. CASE ~(i <= Len(v))
    <3> DEFINE j == i - Len(v)
    <3>1. j \in 1 .. Len(u) /\ i = Len(v) + j /\ i \in 1 .. Len(f) - c /\ ~(i < a)
          /\ i + c = Len(t) + j
      BY <2>2, <1>0, <1>1, <1>2, <1>3, <1>5
    <3> HIDE DEF j
    <3>2. g[i] = u[j]
      BY <3>1, <1>3
    <3>3. h[i] = f[i + c]
      BY <3>1, <1>4
    <3>4. f[Len(t) + j] = u[j]
      BY <3>1, <1>1
    <3> QED BY <3>1, <3>2, <3>3, <3>4
  <2> QED BY <2>1, <2>2
<1>8. g = h
  BY <1>3, <1>4, <1>6, <1>7, SeqEqual DEF Text
<1> QED BY <1>8 DEF g, h, f, v

\* Whole writes can be taken out of the text.
LEMMA LabelsWithout ==
  ASSUME NEW s, NEW t, NEW p, NEW it, NEW of, Labelled(s, t, p, it, of),
         NEW a \in 1 .. p, NEW b \in a .. p, of[a] = 1, of[b + 1] = 1
  PROVE  \E it2, of2 :
           /\ Labelled(s, Without(t, a, b), p - (b - a + 1), it2, of2)
           /\ it2[1] = IF a = 1 THEN it[b + 1] ELSE it[1]
           /\ it2[p - (b - a + 1) + 1] = it[p + 1]
           /\ a = 1 => \A i \in 1 .. p - b + 1 : it2[i] = it[i + b]
<1> DEFINE c == b - a + 1
           q == p - c
           it2 == [i \in 1 .. q + 1 |-> IF i < a THEN it[i] ELSE it[i + c]]
           of2 == [i \in 1 .. q + 1 |-> IF i < a THEN of[i] ELSE of[i + c]]
           v == Without(t, a, b)
<1>0. /\ p \in Nat /\ a \in Nat /\ b \in Nat /\ a >= 1 /\ a <= b /\ b <= p /\ c \in Nat /\ q \in Nat
      /\ p <= Len(t) /\ Len(t) \in Nat /\ t \in Text /\ s \in Writes
      /\ q + 1 >= a /\ p = q + c /\ a + c = b + 1 /\ c >= 1
  <2>1. p \in Nat /\ p <= Len(t) /\ Len(t) \in Nat /\ t \in Text /\ s \in Writes
    BY LabelTypes
  <2> QED BY <2>1
<1>1. /\ \A i \in 1 .. p + 1 : it[i] \in Nat \ {0} /\ of[i] \in Nat \ {0}
      /\ of[1] = 1 /\ of[p + 1] = 1
      /\ \A i \in 1 .. p : Comes(s, t, it, of, i)
  BY DEF Labelled
<1>2. /\ v \in Text /\ Len(v) = Len(t) - c
      /\ \A i \in 1 .. Len(t) - c : v[i] = IF i < a THEN t[i] ELSE t[i + c]
  <2>1. a \in 1 .. Len(t) /\ b \in a .. Len(t)
    BY <1>0
  <2> QED BY <2>1, <1>0, WithoutIs
<1> HIDE DEF c, q, v
<1>3. /\ it2 \in [1 .. q + 1 -> Nat \ {0}] /\ of2 \in [1 .. q + 1 -> Nat \ {0}]
      /\ \A i \in 1 .. q + 1 : /\ it2[i] = IF i < a THEN it[i] ELSE it[i + c]
                               /\ of2[i] = IF i < a THEN of[i] ELSE of[i + c]
  <2>1. \A i \in 1 .. q + 1 : i \in 1 .. p + 1 /\ i + c \in 1 .. p + 1
    BY <1>0
  <2>2. ASSUME NEW i \in 1 .. q + 1
        PROVE  /\ (IF i < a THEN it[i] ELSE it[i + c]) \in Nat \ {0}
               /\ (IF i < a THEN of[i] ELSE of[i + c]) \in Nat \ {0}
    BY <1>1, <2>1
  <2> QED BY <2>2
<1> HIDE DEF it2, of2
<1>4. it2[1] = (IF a = 1 THEN it[b + 1] ELSE it[1]) /\ of2[1] = 1
  <2>1. 1 \in 1 .. q + 1 /\ (1 < a <=> a # 1) /\ (a = 1 => 1 + c = b + 1)
    BY <1>0
  <2> QED BY <2>1, <1>1, <1>3
<1>5. it2[q + 1] = it[p + 1] /\ of2[q + 1] = 1
  <2>1. q + 1 \in 1 .. q + 1 /\ ~(q + 1 < a) /\ q + 1 + c = p + 1
    BY <1>0
  <2> QED BY <2>1, <1>1, <1>3
<1>6. ASSUME NEW i \in 1 .. q PROVE Comes(s, v, it2, of2, i)
  <2>0. i \in 1 .. q + 1 /\ i + 1 \in 1 .. q + 1 /\ i \in 1 .. Len(t) - c /\ i \in Nat
        /\ i >= 1 /\ i <= q
    BY <1>0
  <2>1. CASE i + 1 < a
    <3>1. i < a /\ i \in 1 .. p
      BY <2>0, <2>1, <1>0
    <3>2. /\ it2[i] = it[i] /\ of2[i] = of[i] /\ v[i] = t[i]
          /\ it2[i + 1] = it[i + 1] /\ of2[i + 1] = of[i + 1]
      BY <2>0, <2>1, <3>1, <1>2, <1>3
    <3>3. Comes(s, t, it, of, i)
      BY <3>1, <1>1
    <3> QED BY <3>2, <3>3 DEF Comes
  <2>2. CASE i + 1 = a
    <3>1. i < a /\ i \in 1 .. p /\ i + 1 + c = b + 1 /\ ~(i + 1 < a)
      BY <2>0, <2>2, <1>0
    <3>2. /\ it2[i] = it[i] /\ of2[i] = of[i] /\ v[i] = t[i]
          /\ it2[i + 1] = it[b + 1] /\ of2[i + 1] = 1
      BY <2>0, <3>1, <1>2, <1>3
    <3>3. Comes(s, t, it, of, i)
      BY <3>1, <1>1
    <3>4. of[i] = Len(WriteAt(s, it[i])) /\ it[i] < it[i + 1]
      BY <3>1, <2>2, LabelBefore
    <3>5. it[a] <= it[b + 1]
      <4>1. a \in 1 .. p + 1 /\ b + 1 \in a .. p + 1
        BY <1>0
      <4> QED BY <4>1, LabelsRise
    <3>6. it[i] \in Nat /\ it[a] \in Nat /\ it[b + 1] \in Nat
      <4>1. i \in 1 .. p + 1 /\ a \in 1 .. p + 1 /\ b + 1 \in 1 .. p + 1
        BY <1>0, <3>1
      <4> QED BY <4>1, <1>1
    <3>7. it[b + 1] > it[i]
      <4>1. it[i] < it[a]
        BY <3>4, <2>2
      <4> QED BY <4>1, <3>5, <3>6
    <3> QED BY <3>2, <3>3, <3>4, <3>7 DEF Comes
  <2>3. CASE ~(i < a)
    <3>1. i + c \in 1 .. p /\ ~(i + 1 < a) /\ i + 1 + c = i + c + 1
      BY <2>0, <2>3, <1>0
    <3>2. /\ it2[i] = it[i + c] /\ of2[i] = of[i + c] /\ v[i] = t[i + c]
          /\ it2[i + 1] = it[i + c + 1] /\ of2[i + 1] = of[i + c + 1]
      <4>1. it2[i] = it[i + c] /\ of2[i] = of[i + c] /\ v[i] = t[i + c]
        BY <2>0, <2>3, <1>2, <1>3
      <4>2. it2[i + 1] = it[i + 1 + c] /\ of2[i + 1] = of[i + 1 + c]
        BY <2>0, <3>1, <1>3
      <4> QED BY <4>1, <4>2, <3>1
    <3>3. Comes(s, t, it, of, i + c)
      BY <3>1, <1>1
    <3> QED BY <3>2, <3>3 DEF Comes
  <2> QED BY <2>0, <2>1, <2>2, <2>3, <1>0
<1>7. q \in 0 .. Len(v)
  BY <1>0, <1>2
<1>8. Labelled(s, v, q, it2, of2)
  BY <1>0, <1>2, <1>3, <1>4, <1>5, <1>6, <1>7 DEF Labelled
<1>9. a = 1 => \A i \in 1 .. p - b + 1 : it2[i] = it[i + b]
  <2>1. a = 1 => c = b /\ q = p - b /\ \A i \in 1 .. p - b + 1 : ~(i < a)
    BY <1>0
  <2> QED BY <2>1, <1>3
<1>10. /\ Labelled(s, Without(t, a, b), p - (b - a + 1), it2, of2)
       /\ it2[p - (b - a + 1) + 1] = it[p + 1]
  BY <1>5, <1>8 DEF v, q, c
<1> QED BY <1>4, <1>9, <1>10

\* Labels stay when more is written and when what follows them changes.
LEMMA LabelsMore ==
  ASSUME NEW s, NEW t, NEW p, NEW it, NEW of, Labelled(s, t, p, it, of),
         NEW r \in Writes, Len(r) >= Len(s), \A n \in 1 .. Len(s) : r[n] = s[n],
         NEW v \in Text, Len(v) >= p, \A i \in 1 .. p : v[i] = t[i]
  PROVE  Labelled(r, v, p, it, of)
<1>1. p \in Nat /\ Len(s) \in Nat /\ Len(r) \in Nat /\ Len(v) \in Nat
  BY LabelTypes, WritesLen, Texts
<1>2. ASSUME NEW i \in 1 .. p PROVE Comes(r, v, it, of, i)
  <2>1. Comes(s, t, it, of, i) /\ it[i] \in 1 .. Len(s)
    BY LabelTypes
  <2>2. WriteAt(r, it[i]) = WriteAt(s, it[i]) /\ it[i] <= Len(r)
    BY <2>1, <1>1 DEF WriteAt
  <2> QED BY <2>1, <2>2 DEF Comes
<1>3. p \in 0 .. Len(v)
  BY <1>1
<1> QED BY <1>2, <1>3 DEF Labelled

\* A write behind a text of whole writes.
LEMMA LabelsWrite ==
  ASSUME NEW s, NEW t, NEW p, NEW it, NEW of, Labelled(s, t, p, it, of),
         p = Len(t), it[p + 1] = Len(s) + 1, NEW form \in Sse!WriteKinds
  PROVE  LET w == Sse!WriteOf(form, Len(s) + 1)
         IN  \E it2, of2 :
               /\ Labelled(Append(s, form), t \o w, Len(t \o w), it2, of2)
               /\ it2[Len(t \o w) + 1] = Len(s) + 2 /\ it2[1] = it[1]
               /\ \A i \in 1 .. p + 1 : it2[i] = it[i]
               /\ \A i \in p + 1 .. Len(t \o w) : it2[i] = Len(s) + 1
<1> DEFINE m == Len(s) + 1
           w == Sse!WriteOf(form, m)
           r == Append(s, form)
           f == t \o w
           k == Len(w)
           it2 == [i \in 1 .. p + k + 1 |-> IF i <= p THEN it[i]
                                            ELSE IF i <= p + k THEN m ELSE m + 1]
           of2 == [i \in 1 .. p + k + 1 |-> IF i <= p THEN of[i]
                                            ELSE IF i <= p + k THEN i - p ELSE 1]
<1>0. /\ p \in Nat /\ Len(s) \in Nat /\ t \in Text /\ s \in Writes /\ m \in Nat /\ m = Len(s) + 1
      /\ of[p + 1] = 1 /\ of[1] = 1
      /\ \A i \in 1 .. p + 1 : it[i] \in Nat /\ it[i] >= 1 /\ of[i] \in Nat /\ of[i] >= 1
      /\ \A i \in 1 .. p : Comes(s, t, it, of, i) /\ it[i] \in 1 .. Len(s)
  <2>1. p \in Nat /\ Len(s) \in Nat /\ t \in Text /\ s \in Writes
    BY LabelTypes
  <2> QED BY <2>1, LabelTypes
<1>1. w \in Text /\ w # <<>> /\ k \in Nat
  BY <1>0, WholeType, Texts
<1>2. k >= 1
  <2> HIDE DEF w
  <2>1. k # 0
    BY <1>1, EmptySeq DEF Text
  <2> QED BY <2>1, <1>1
<1>3. /\ r \in Writes /\ Len(r) = m /\ r[m] = form /\ \A n \in 1 .. Len(s) : r[n] = s[n]
  BY <1>0, AppendWrite
<1> HIDE DEF w
<1>4. /\ f \in Text /\ Len(f) = p + k
      /\ \A i \in 1 .. p : f[i] = t[i]
      /\ \A i \in 1 .. k : f[p + i] = w[i]
  BY <1>0, <1>1, JoinIs
<1>5. WriteAt(r, m) = w
  BY <1>3 DEF WriteAt, w
<1> HIDE DEF m, r, f, k
<1>6. /\ it2 \in [1 .. p + k + 1 -> Nat \ {0}] /\ of2 \in [1 .. p + k + 1 -> Nat \ {0}]
      /\ \A i \in 1 .. p + k + 1 :
           /\ it2[i] = IF i <= p THEN it[i] ELSE IF i <= p + k THEN m ELSE m + 1
           /\ of2[i] = IF i <= p THEN of[i] ELSE IF i <= p + k THEN i - p ELSE 1
  <2>1. ASSUME NEW i \in 1 .. p + k + 1
        PROVE  /\ (IF i <= p THEN it[i] ELSE IF i <= p + k THEN m ELSE m + 1) \in Nat \ {0}
               /\ (IF i <= p THEN of[i] ELSE IF i <= p + k THEN i - p ELSE 1) \in Nat \ {0}
    <3>1. i <= p => i \in 1 .. p + 1
      BY <1>0
    <3> QED BY <3>1, <1>0, <1>1
  <2> QED BY <2>1
<1> HIDE DEF it2, of2
<1>7. \A i \in 1 .. p + 1 : it2[i] = it[i] /\ of2[i] = of[i]
  <2>1. \A i \in 1 .. p : it2[i] = it[i] /\ of2[i] = of[i]
    BY <1>0, <1>1, <1>6
  <2>2. it2[p + 1] = m /\ of2[p + 1] = 1
    <3>1. p + 1 \in 1 .. p + k + 1 /\ ~(p + 1 <= p) /\ p + 1 <= p + k /\ p + 1 - p = 1
      BY <1>0, <1>1, <1>2
    <3> QED BY <3>1, <1>6
  <2>3. \A i \in 1 .. p + 1 : i \in 1 .. p \/ i = p + 1
    BY <1>0
  <2> QED BY <2>1, <2>2, <2>3, <1>0
<1>8. /\ \A i \in p + 1 .. p + k : it2[i] = m /\ of2[i] = i - p
      /\ it2[p + k + 1] = m + 1 /\ of2[p + k + 1] = 1
  <2>1. \A i \in p + 1 .. p + k : i \in 1 .. p + k + 1 /\ ~(i <= p) /\ i <= p + k
    BY <1>0, <1>1
  <2>2. p + k + 1 \in 1 .. p + k + 1 /\ ~(p + k + 1 <= p) /\ ~(p + k + 1 <= p + k)
    BY <1>0, <1>1
  <2> QED BY <2>1, <2>2, <1>6
<1>9. ASSUME NEW i \in 1 .. p + k PROVE Comes(r, f, it2, of2, i)
  <2>0. i \in Nat /\ i >= 1 /\ i <= p + k
    BY <1>0, <1>1
  <2>1. CASE i <= p
    <3>1. i \in 1 .. p /\ i \in 1 .. p + 1 /\ i + 1 \in 1 .. p + 1
      BY <2>0, <2>1, <1>0
    <3>2. /\ it2[i] = it[i] /\ of2[i] = of[i] /\ f[i] = t[i]
          /\ it2[i + 1] = it[i + 1] /\ of2[i + 1] = of[i + 1]
      BY <3>1, <1>4, <1>7
    <3>3. Comes(s, t, it, of, i) /\ it[i] \in 1 .. Len(s)
      BY <3>1, <1>0
    <3>4. WriteAt(r, it[i]) = WriteAt(s, it[i]) /\ it[i] <= Len(r)
      BY <3>3, <1>0, <1>3 DEF WriteAt
    <3> QED BY <3>2, <3>3, <3>4 DEF Comes
  <2>2. CASE ~(i <= p)
    <3> DEFINE j == i - p
    <3>1. i \in p + 1 .. p + k /\ j \in 1 .. k /\ i = p + j
      BY <2>0, <2>2, <1>0, <1>1
    <3>2. it2[i] = m /\ of2[i] = j /\ f[i] = w[j]
      BY <3>1, <1>4, <1>8
    <3>3. CASE j < k
      <4>1. i + 1 \in p + 1 .. p + k /\ i + 1 - p = j + 1
        BY <3>1, <3>3, <1>0, <1>1
      <4>2. it2[i + 1] = m /\ of2[i + 1] = j + 1
        BY <4>1, <1>8
      <4> HIDE DEF j
      <4>3. m <= Len(r) /\ j <= k
        BY <3>1, <1>0, <1>1, <1>3
      <4> QED BY <3>2, <3>3, <4>2, <4>3, <1>5 DEF Comes, k
    <3>4. CASE ~(j < k)
      <4>1. j = k /\ i + 1 = p + k + 1
        BY <3>1, <3>4, <1>0, <1>1, SMTT(30)
      <4>2. it2[i + 1] = m + 1 /\ of2[i + 1] = 1
        BY <4>1, <1>8
      <4> HIDE DEF j
      <4>3. m <= Len(r) /\ j <= k /\ m + 1 > m
        BY <3>1, <1>0, <1>1, <1>3
      <4> QED BY <3>2, <4>1, <4>2, <4>3, <1>5 DEF Comes, k
    <3> QED BY <3>3, <3>4
  <2> QED BY <2>1, <2>2
<1>10. Labelled(r, f, p + k, it2, of2)
  <2>1. p + k \in 0 .. Len(f) /\ 1 \in 1 .. p + 1
    BY <1>0, <1>1, <1>4
  <2>2. of2[1] = 1
    BY <2>1, <1>0, <1>7
  <2> QED BY <2>1, <2>2, <1>3, <1>4, <1>6, <1>8, <1>9 DEF Labelled
<1>11. /\ Labelled(r, f, Len(f), it2, of2)
       /\ it2[Len(f) + 1] = m + 1 /\ it2[1] = it[1]
       /\ \A i \in 1 .. p + 1 : it2[i] = it[i]
       /\ \A i \in p + 1 .. Len(f) : it2[i] = m
  <2>1. 1 \in 1 .. p + 1
    BY <1>0
  <2> QED BY <2>1, <1>4, <1>7, <1>8, <1>10
<1>12. m + 1 = Len(s) + 2
  BY <1>0
<1> QED BY <1>0, <1>11, <1>12 DEF r, f, w, m

-----------------------------------------------------------------------------
(* Merged reads of writes no line of which is interrupted *)

Plain == Lead \cup {"comment"}

PlainWrites(s) == \A n \in 1 .. Len(s) : s[n] \in Plain

\* A comment is only where a write starts, a separator only where one ends.
Shaped(w) ==
  \A o \in 1 .. Len(w) :
    /\ w[o] = Sse!Comment => o = 1
    /\ w[o] = Sse!Lf /\ o < Len(w) =>
         /\ o >= 2
         /\ \/ w[o - 1] \notin {Sse!Cr, Sse!Lf}
            \/ w[o - 1] = Sse!Cr /\ o >= 3 /\ w[o - 2] \notin {Sse!Cr, Sse!Lf}

\* Separators and comments of plain writes.
LEMMA WriteShape ==
  ASSUME NEW form \in Plain, NEW n \in Int
  PROVE  Shaped(Sse!WriteOf(form, n))
<1> DEFINE h == Sse!BlobHead(n)
           g == Sse!BlobTail(n)
           j == Sse!Json(n)
<1>1. /\ \A x \in {h, g, j} : x \notin {Sse!Data, Sse!Comment, Sse!Cr, Sse!Lf}
      /\ Sse!Data # Sse!Comment /\ Sse!Data # Sse!Cr /\ Sse!Data # Sse!Lf
      /\ Sse!Comment # Sse!Cr /\ Sse!Comment # Sse!Lf /\ Sse!Cr # Sse!Lf
  BY Tokens
<1>2. /\ Sse!WriteOf("aes", n) = <<Sse!Data, h, g, Sse!Cr, Sse!Lf, Sse!Cr, Sse!Lf>>
      /\ Sse!WriteOf("json", n) = <<Sse!Data, j, Sse!Cr, Sse!Lf, Sse!Cr, Sse!Lf>>
      /\ Sse!WriteOf("chat", n) = <<j, Sse!Lf, Sse!Lf>>
      /\ Sse!WriteOf("comment", n) = <<Sse!Comment, Sse!Lf, Sse!Lf>>
  BY WholeIs
<1> HIDE DEF h, g, j
<1>3. CASE form = "aes"
  <2> DEFINE w == <<Sse!Data, h, g, Sse!Cr, Sse!Lf, Sse!Cr, Sse!Lf>>
  <2>1. Len(w) = 7 /\ \A o \in 1 .. 7 : o \in {1, 2, 3, 4, 5, 6, 7}
    OBVIOUS
  <2>2. /\ w[1] = Sse!Data /\ w[2] = h /\ w[3] = g /\ w[4] = Sse!Cr /\ w[5] = Sse!Lf
        /\ w[6] = Sse!Cr /\ w[7] = Sse!Lf
    OBVIOUS
  <2> HIDE DEF w
  <2>3. Shaped(w)
    BY <1>1, <2>1, <2>2 DEF Shaped
  <2> QED BY <1>2, <1>3, <2>3 DEF w
<1>4. CASE form = "json"
  <2> DEFINE w == <<Sse!Data, j, Sse!Cr, Sse!Lf, Sse!Cr, Sse!Lf>>
  <2>1. Len(w) = 6 /\ \A o \in 1 .. 6 : o \in {1, 2, 3, 4, 5, 6}
    OBVIOUS
  <2>2. /\ w[1] = Sse!Data /\ w[2] = j /\ w[3] = Sse!Cr /\ w[4] = Sse!Lf
        /\ w[5] = Sse!Cr /\ w[6] = Sse!Lf
    OBVIOUS
  <2> HIDE DEF w
  <2>3. Shaped(w)
    BY <1>1, <2>1, <2>2 DEF Shaped
  <2> QED BY <1>2, <1>4, <2>3 DEF w
<1>5. CASE form = "chat"
  <2> DEFINE w == <<j, Sse!Lf, Sse!Lf>>
  <2>1. Len(w) = 3 /\ \A o \in 1 .. 3 : o \in {1, 2, 3}
    OBVIOUS
  <2>2. w[1] = j /\ w[2] = Sse!Lf /\ w[3] = Sse!Lf
    OBVIOUS
  <2> HIDE DEF w
  <2>3. Shaped(w)
    BY <1>1, <2>1, <2>2 DEF Shaped
  <2> QED BY <1>2, <1>5, <2>3 DEF w
<1>6. CASE form = "comment"
  <2> DEFINE w == <<Sse!Comment, Sse!Lf, Sse!Lf>>
  <2>1. Len(w) = 3 /\ \A o \in 1 .. 3 : o \in {1, 2, 3}
    OBVIOUS
  <2>2. w[1] = Sse!Comment /\ w[2] = Sse!Lf /\ w[3] = Sse!Lf
    OBVIOUS
  <2> HIDE DEF w
  <2>3. Shaped(w)
    BY <1>1, <2>1, <2>2 DEF Shaped
  <2> QED BY <1>2, <1>6, <2>3 DEF w
<1> QED BY <1>3, <1>4, <1>5, <1>6 DEF Plain, Lead

\* Separators end writes and comments start them.
LEMMA LabelEnds ==
  ASSUME NEW s, NEW t, NEW p, NEW it, NEW of, Labelled(s, t, p, it, of), PlainWrites(s),
         NEW i \in 1 .. p
  PROVE  /\ CrlfAt(t, i) /\ i + 3 <= p => of[i + 4] = 1
         /\ LfAt(t, i) /\ i + 1 <= p => of[i + 2] = 1
         /\ t[i] = Sse!Comment => of[i] = 1
<1>0. p \in Nat /\ i \in Nat /\ i >= 1 /\ i <= p
  BY LabelTypes
<1>1. ASSUME NEW k \in 1 .. p, t[k] = Sse!Lf, of[k + 1] # 1
      PROVE  /\ k >= 2
             /\ \/ t[k - 1] \notin {Sse!Cr, Sse!Lf}
                \/ t[k - 1] = Sse!Cr /\ k >= 3 /\ t[k - 2] \notin {Sse!Cr, Sse!Lf}
  <2> DEFINE w == WriteAt(s, it[k])
             o == of[k]
  <2>0. k \in Nat /\ k >= 1 /\ k <= p /\ o \in Nat /\ o >= 1 /\ of[1] = 1
    <3>1. k \in 1 .. p + 1
      BY <1>0
    <3> QED BY <3>1, <1>0, LabelTypes
  <2>1. /\ Comes(s, t, it, of, k) /\ s[it[k]] \in Plain /\ it[k] \in Int
    <3>1. Comes(s, t, it, of, k) /\ it[k] \in 1 .. Len(s)
      BY LabelTypes
    <3> QED BY <3>1 DEF PlainWrites
  <2>2. Shaped(w) /\ Len(w) \in Nat
    <3>1. Len(w) \in Nat
      BY LabelTypes
    <3> QED BY <3>1, <2>1, WriteShape DEF WriteAt
  <2> HIDE DEF w, o
  <2>3. o \in 1 .. Len(w) /\ o < Len(w) /\ t[k] = w[o]
    <3>1. o <= Len(w) /\ t[k] = w[o] /\ (o < Len(w) \/ of[k + 1] = 1)
      BY <2>1 DEF Comes, w, o
    <3> QED BY <3>1, <2>0, <2>2, <1>1
  <2>4. /\ o >= 2
        /\ \/ w[o - 1] \notin {Sse!Cr, Sse!Lf}
           \/ w[o - 1] = Sse!Cr /\ o >= 3 /\ w[o - 2] \notin {Sse!Cr, Sse!Lf}
    BY <2>2, <2>3, <1>1 DEF Shaped
  <2>5. k >= 2
    <3>1. k # 1
      BY <2>0, <2>4 DEF o
    <3> QED BY <3>1, <2>0
  <2>6. it[k - 1] = it[k] /\ of[k - 1] = o - 1 /\ k - 1 \in 1 .. p /\ t[k - 1] = w[o - 1]
    <3>1. k - 1 \in 1 .. p /\ k - 1 + 1 = k
      BY <2>0, <2>5, <1>0
    <3>2. of[k - 1 + 1] # 1 => it[k - 1] = it[k - 1 + 1] /\ of[k - 1] = of[k - 1 + 1] - 1
      BY <3>1, LabelBefore
    <3>3. of[k] # 1
      BY <2>0, <2>4 DEF o
    <3>4. it[k - 1] = it[k] /\ of[k - 1] = o - 1
      BY <3>1, <3>2, <3>3 DEF o
    <3>5. Comes(s, t, it, of, k - 1)
      BY <3>1, LabelTypes
    <3> QED BY <3>1, <3>4, <3>5 DEF Comes, w
  <2>7. ASSUME o >= 3 PROVE k >= 3 /\ t[k - 2] = w[o - 2]
    <3>0. of[k - 1] # 1
      BY <2>0, <2>6, <2>7
    <3>1. k # 2
      BY <3>0, <2>0
    <3>2. k >= 3 /\ k - 2 \in 1 .. p /\ k - 2 + 1 = k - 1
      BY <3>1, <2>0, <2>5, <1>0
    <3>3. of[k - 2 + 1] # 1 => it[k - 2] = it[k - 2 + 1] /\ of[k - 2] = of[k - 2 + 1] - 1
      BY <3>2, LabelBefore
    <3>4. it[k - 2] = it[k] /\ of[k - 2] = o - 1 - 1
      BY <3>0, <3>2, <3>3, <2>6
    <3>5. Comes(s, t, it, of, k - 2)
      BY <3>2, LabelTypes
    <3>6. t[k - 2] = w[o - 1 - 1]
      BY <3>4, <3>5 DEF Comes, w
    <3>7. o - 1 - 1 = o - 2
      BY <2>0
    <3> QED BY <3>2, <3>6, <3>7
  <2> QED BY <2>4, <2>5, <2>6, <2>7
<1>2. ASSUME CrlfAt(t, i), i + 3 <= p, of[i + 4] # 1 PROVE FALSE
  <2>1. i + 3 \in 1 .. p /\ i + 3 + 1 = i + 4 /\ i + 3 - 1 = i + 2 /\ i + 3 - 2 = i + 1
    BY <1>0, <1>2
  <2>2. t[i + 1] = Sse!Lf /\ t[i + 2] = Sse!Cr /\ t[i + 3] = Sse!Lf
    BY <1>2 DEF CrlfAt
  <2> DEFINE k == i + 3
  <2>3. k \in 1 .. p /\ k + 1 = i + 4 /\ k - 1 = i + 2 /\ k - 2 = i + 1 /\ t[k] = Sse!Lf
    BY <2>1, <2>2
  <2> HIDE DEF k
  <2>4. \/ t[k - 1] \notin {Sse!Cr, Sse!Lf}
        \/ t[k - 1] = Sse!Cr /\ t[k - 2] \notin {Sse!Cr, Sse!Lf}
    BY <2>3, <1>1, <1>2
  <2> QED BY <2>2, <2>3, <2>4
<1>3. ASSUME LfAt(t, i), i + 1 <= p, of[i + 2] # 1 PROVE FALSE
  <2>1. i + 1 \in 1 .. p /\ i + 1 + 1 = i + 2 /\ i + 1 - 1 = i
    BY <1>0, <1>3
  <2>2. t[i] = Sse!Lf /\ t[i + 1] = Sse!Lf
    BY <1>3 DEF LfAt
  <2>3. t[i + 1 - 1] \notin {Sse!Cr, Sse!Lf} \/ t[i + 1 - 1] = Sse!Cr
    BY <2>1, <2>2, <1>1, <1>3
  <2>4. Sse!Cr # Sse!Lf
    BY Tokens
  <2> QED BY <2>1, <2>2, <2>3, <2>4
<1>4. ASSUME t[i] = Sse!Comment PROVE of[i] = 1
  <2> DEFINE w == WriteAt(s, it[i])
  <2>1. Comes(s, t, it, of, i) /\ s[it[i]] \in Plain /\ it[i] \in Int
    <3>1. Comes(s, t, it, of, i) /\ it[i] \in 1 .. Len(s)
      BY LabelTypes
    <3> QED BY <3>1 DEF PlainWrites
  <2>2. Shaped(w) /\ of[i] \in Nat /\ of[i] >= 1 /\ Len(w) \in Nat
    <3>1. i \in 1 .. p + 1
      BY <1>0
    <3>2. of[i] \in Nat /\ of[i] >= 1 /\ Len(w) \in Nat
      BY <3>1, LabelTypes
    <3> QED BY <3>2, <2>1, WriteShape DEF WriteAt
  <2> HIDE DEF w
  <2>3. of[i] \in 1 .. Len(w) /\ t[i] = w[of[i]]
    <3>1. of[i] <= Len(w) /\ t[i] = w[of[i]]
      BY <2>1 DEF Comes, w
    <3> QED BY <3>1, <2>2
  <2> QED BY <2>2, <2>3, <1>4 DEF Shaped
<1> QED BY <1>2, <1>3, <1>4

\* What the buffer x has of the first write: all of it, or no end of a frame.
LEMMA FirstOf ==
  ASSUME NEW s, NEW x \in Text, NEW u \in Text, NEW p, NEW it, NEW of,
         Labelled(s, x \o u, p, it, of), p >= 1, s[it[1]] \in Plain
  PROVE  /\ WriteAt(s, it[1]) = Whole(s[it[1]], it[1])
         /\ Len(x) < Len(WriteAt(s, it[1])) => Sse!FrameEnd(x) = {}
         /\ Len(x) >= Len(WriteAt(s, it[1])) => StartsWith(x, WriteAt(s, it[1]))
<1> DEFINE F == x \o u
           n == it[1]
           w == WriteAt(s, n)
           L == Len(w)
<1>0. /\ p \in Nat /\ 1 \in 1 .. p /\ n \in 1 .. Len(s) /\ n \in Int /\ L \in Nat
      /\ s[n] \in Sse!WriteKinds
  <2>1. p \in Nat /\ 1 \in 1 .. p
    BY LabelTypes
  <2> QED BY <2>1, LabelTypes
<1>1. w = Whole(s[n], n)
  <2>1. s[n] # "rest"
    BY DEF Plain, Lead
  <2> QED BY <2>1 DEF WriteAt, Whole
<1>2. L <= p /\ \A i \in 1 .. L : F[i] = w[i]
  <2>1. L \in 1 .. p /\ StartsWith(F, w)
    BY FirstWrite
  <2> QED BY <2>1 DEF StartsWith
<1>3. Len(x) \in Nat /\ \A i \in 1 .. Len(x) : F[i] = x[i]
  BY Texts, JoinIs
<1> HIDE DEF F, w, L, n
<1>4. ASSUME Len(x) < L PROVE Sse!FrameEnd(x) = {}
  <2>1. \A i \in 1 .. Len(x) : x[i] = Whole(s[n], n)[i]
    BY <1>0, <1>1, <1>2, <1>3, <1>4
  <2> QED BY <2>1, <1>0, <1>1, <1>4, PartIs DEF L
<1>5. ASSUME Len(x) >= L PROVE StartsWith(x, w)
  <2>1. \A i \in 1 .. L : x[i] = w[i]
    BY <1>0, <1>2, <1>3, <1>5
  <2> QED BY <2>1, <1>0, <1>3, <1>5 DEF StartsWith, L
<1> QED BY <1>1, <1>4, <1>5 DEF L, w, n

\* The whole of a first write would have been drained, so the buffer has no
\* such write; before the drain, it is a frame's.
LEMMA FirstWhole ==
  ASSUME NEW s, NEW x \in Text, NEW u \in Text, NEW p, NEW it, NEW of,
         Labelled(s, x \o u, p, it, of), p >= 1, s[it[1]] \in Plain,
         Sse!NextCompleteComment(x) = {}, Len(x) >= Len(WriteAt(s, it[1]))
  PROVE  s[it[1]] \in Lead /\ Sse!FrameEnd(x) # {}
<1> DEFINE n == it[1]
           w == WriteAt(s, n)
           L == Len(w)
<1>0. n \in Int /\ Len(x) \in Nat
  <2>1. p \in Nat /\ 1 \in 1 .. p
    BY LabelTypes
  <2> QED BY <2>1, LabelTypes, Texts
<1>1. w = Whole(s[n], n) /\ StartsWith(x, w) /\ Len(x) >= L
  BY FirstOf
<1>2. ASSUME s[n] = "comment" PROVE FALSE
  <2>1. w = <<Sse!Comment, Sse!Lf, Sse!Lf>>
    BY <1>1, <1>2, WholeIs
  <2>2. L = 3 /\ w[1] = Sse!Comment /\ w[2] = Sse!Lf /\ w[3] = Sse!Lf
    BY <2>1
  <2>3. 1 \in 1 .. L /\ 2 \in 1 .. L /\ 3 \in 1 .. L
    BY <2>2
  <2> HIDE DEF w
  <2>4. x[1] = Sse!Comment /\ x[2] = Sse!Lf /\ x[3] = Sse!Lf
    BY <1>1, <2>2, <2>3 DEF StartsWith
  <2>5. LfAt(x, 2) /\ 1 \in 1 .. Len(x) /\ 2 \in 1 .. Len(x) /\ Sse!LineStart(x, 1)
    <3>1. 2 + 1 <= Len(x) /\ x[2 + 1] = Sse!Lf
      BY <1>0, <1>1, <2>2, <2>4
    <3> QED BY <3>1, <1>0, <2>4 DEF LfAt, Sse!LineStart
  <2>6. \A c \in 1 .. 1 - 1 : x[c] # Sse!Comment
    OBVIOUS
  <2> QED BY <2>4, <2>5, <2>6, CommentThere
<1>3. s[n] \in Lead /\ s[n] \in Framed
  BY <1>2, KindsAre DEF Plain
<1> DEFINE d == [frames |-> <<>>, rest |-> x]
<1>4. d \in Drained /\ d.rest = x
  <2>1. <<>> \in Seq(Frames)
    BY EmptySeq
  <2> QED BY <2>1 DEF Drained
<1> HIDE DEF d, n, w
<1>5. StartsWith(d.rest, Whole(s[n], n))
  BY <1>1, <1>4
<1>6. Sse!FrameEnd(d.rest) # {}
  BY <1>0, <1>3, <1>4, <1>5, BlockTurn
<1> QED BY <1>3, <1>4, <1>6 DEF n

\* What was read and what was not are whole writes, each later than lo.
MergedFrom(s, t, lo) ==
  \E it, of : /\ Labelled(s, t, Len(t), it, of)
              /\ it[1] > lo /\ it[Len(t) + 1] = Len(s) + 1

\* And what was handed on are whole frames of writes up to lo.
Merged(s, frames, t) == \E lo \in Nat : MergedFrom(s, t, lo) /\ InOrder(frames, lo, s)

\* Whole writes that are cut out leave whole writes.
LEMMA MergedWithout ==
  ASSUME NEW s, PlainWrites(s), NEW t, NEW lo \in Nat, NEW it, NEW of,
         Labelled(s, t, Len(t), it, of), it[1] > lo, it[Len(t) + 1] = Len(s) + 1,
         NEW a \in 1 .. Len(t), NEW b \in a .. Len(t), of[a] = 1, of[b + 1] = 1
  PROVE  MergedFrom(s, Without(t, a, b), lo)
<1>0. /\ Len(t) \in Nat /\ a \in Nat /\ b \in Nat /\ t \in Text /\ 1 <= a /\ a <= b /\ b <= Len(t)
      /\ \A i \in 1 .. Len(t) + 1 : it[i] \in Nat
  <2>1. Len(t) \in Nat /\ t \in Text
    BY LabelTypes
  <2> QED BY <2>1, LabelTypes
<1>1. PICK it2, of2 :
        /\ Labelled(s, Without(t, a, b), Len(t) - (b - a + 1), it2, of2)
        /\ it2[1] = (IF a = 1 THEN it[b + 1] ELSE it[1])
        /\ it2[Len(t) - (b - a + 1) + 1] = it[Len(t) + 1]
  BY LabelsWithout
<1>2. Len(Without(t, a, b)) = Len(t) - (b - a + 1)
  BY <1>0, WithoutIs
<1>3. it2[1] > lo
  <2>1. 1 \in 1 .. Len(t) + 1 /\ b + 1 \in 1 .. Len(t) + 1
    BY <1>0
  <2>2. it[1] <= it[b + 1] /\ it[1] \in Nat /\ it[b + 1] \in Nat
    BY <2>1, <1>0, LabelsRise
  <2>3. it[b + 1] > lo
    BY <2>2
  <2> QED BY <2>3, <1>1
<1> DEFINE v == Without(t, a, b)
           q == Len(t) - (b - a + 1)
<1>4. Labelled(s, v, q, it2, of2) /\ Len(v) = q /\ it2[q + 1] = Len(s) + 1
  BY <1>1, <1>2
<1> HIDE DEF v, q
<1>5. MergedFrom(s, v, lo)
  BY <1>3, <1>4 DEF MergedFrom
<1> QED BY <1>5 DEF v

\* A comment reaches to the end of a write, so that whole writes are stripped.
LEMMA MergedStrip ==
  ASSUME NEW s, PlainWrites(s), NEW x \in Text, NEW u \in Text, NEW lo \in Nat,
         MergedFrom(s, x \o u, lo)
  PROVE  MergedFrom(s, Sse!StripCompleteComments(x) \o u, lo)
<1> DEFINE T == {y \in Text : MergedFrom(s, y \o u, lo)}
<1>1. ASSUME NEW y \in T PROVE Sse!StripComment(y) \in T
  <2> DEFINE F == y \o u
  <2>0. y \in Text /\ MergedFrom(s, F, lo) /\ Len(y) \in Nat /\ Len(u) \in Nat
    BY Texts
  <2>1. CASE Sse!StripComment(y) = y
    BY <2>1
  <2>2. ASSUME NEW a \in 1 .. Len(y), NEW b \in 1 .. Len(y), SpanOf(y, a, b), a + 2 <= b,
               Sse!StripComment(y) = Without(y, a, b)
        PROVE  Sse!StripComment(y) \in T
    <3>1. F \in Text /\ Len(F) = Len(y) + Len(u) /\ \A i \in 1 .. Len(y) : F[i] = y[i]
      BY <2>0, JoinIs
    <3>9. Without(y, a, b) \o u = Without(F, a, b) /\ Without(y, a, b) \in Text
      <4>1. b \in a .. Len(y)
        BY <2>0, <2>2
      <4> QED BY <4>1, <2>0, WithoutJoin, WithoutIs
    <3> HIDE DEF F
    <3>2. PICK it, of : Labelled(s, F, Len(F), it, of) /\ it[1] > lo /\ it[Len(F) + 1] = Len(s) + 1
      BY <2>0 DEF MergedFrom
    <3>3. a \in 1 .. Len(F) /\ b \in a .. Len(F) /\ a \in Nat /\ b \in Nat /\ b <= Len(y)
      BY <2>0, <2>2, <3>1
    <3>4. of[a] = 1
      <4>1. F[a] = Sse!Comment
        BY <2>2, <3>1 DEF SpanOf
      <4> QED BY <4>1, <3>2, <3>3, LabelEnds
    <3>5. of[b + 1] = 1
      <4>1. PICK i \in a .. Len(y) : (CrlfAt(y, i) /\ b = i + 3) \/ (LfAt(y, i) /\ b = i + 1)
        BY <2>2 DEF SpanOf
      <4>2. i \in Nat /\ 1 <= i /\ i <= Len(y) /\ i \in 1 .. Len(F)
        BY <4>1, <2>0, <3>1, <3>3
      <4>3. CASE CrlfAt(y, i) /\ b = i + 3
        <5>1. i \in 1 .. Len(y) /\ i + 1 \in 1 .. Len(y) /\ i + 2 \in 1 .. Len(y)
              /\ i + 3 \in 1 .. Len(y) /\ i + 3 <= Len(F) /\ b + 1 = i + 4
          BY <4>2, <4>3, <2>0, <3>1, <3>3
        <5>2. CrlfAt(F, i)
          BY <5>1, <4>3, <3>1 DEF CrlfAt
        <5>3. of[i + 4] = 1
          BY <5>1, <5>2, <4>2, <3>2, LabelEnds
        <5> QED BY <5>1, <5>3
      <4>4. CASE LfAt(y, i) /\ b = i + 1
        <5>1. i \in 1 .. Len(y) /\ i + 1 \in 1 .. Len(y) /\ i + 1 <= Len(F) /\ b + 1 = i + 2
          BY <4>2, <4>4, <2>0, <3>1, <3>3
        <5>2. LfAt(F, i)
          BY <5>1, <4>4, <3>1 DEF LfAt
        <5>3. of[i + 2] = 1
          BY <5>1, <5>2, <4>2, <3>2, LabelEnds
        <5> QED BY <5>1, <5>3
      <4> QED BY <4>1, <4>3, <4>4
    <3>6. MergedFrom(s, Without(F, a, b), lo)
      BY <3>2, <3>3, <3>4, <3>5, MergedWithout
    <3> QED BY <3>6, <3>9, <2>2
  <2> QED BY <2>0, <2>1, <2>2, StripCommentIs
<1>2. x \in T /\ Len(x) \in Nat
  BY Texts
<1>3. Sse!StripCompleteComments(x) \in T
  <2> HIDE DEF T
  <2> QED BY <1>1, <1>2, StripClosed
<1> QED BY <1>3

LEMMA ConcatAssoc ==
  ASSUME NEW S, NEW a \in Seq(S), NEW b \in Seq(S), NEW c \in Seq(S)
  PROVE  a \o (b \o c) = (a \o b) \o c
<1> DEFINE ab == a \o b
           bc == b \o c
           l == a \o bc
           r == ab \o c
<1>0. Len(a) \in Nat /\ Len(b) \in Nat /\ Len(c) \in Nat
  BY LenProperties
<1>1. /\ ab \in Seq(S) /\ Len(ab) = Len(a) + Len(b)
      /\ \A i \in 1 .. Len(a) + Len(b) : ab[i] = IF i <= Len(a) THEN a[i] ELSE b[i - Len(a)]
  BY ConcatProperties
<1>2. /\ bc \in Seq(S) /\ Len(bc) = Len(b) + Len(c)
      /\ \A i \in 1 .. Len(b) + Len(c) : bc[i] = IF i <= Len(b) THEN b[i] ELSE c[i - Len(b)]
  BY ConcatProperties
<1> HIDE DEF ab, bc
<1>3. /\ l \in Seq(S) /\ Len(l) = Len(a) + Len(bc)
      /\ \A i \in 1 .. Len(a) + Len(bc) : l[i] = IF i <= Len(a) THEN a[i] ELSE bc[i - Len(a)]
  <2>1. bc \in Seq(S)
    BY <1>2
  <2> QED BY <2>1, ConcatProperties
<1>4. /\ r \in Seq(S) /\ Len(r) = Len(ab) + Len(c)
      /\ \A i \in 1 .. Len(ab) + Len(c) : r[i] = IF i <= Len(ab) THEN ab[i] ELSE c[i - Len(ab)]
  <2>1. ab \in Seq(S)
    BY <1>1
  <2> QED BY <2>1, ConcatProperties
<1> HIDE DEF l, r
<1>5. Len(l) = Len(a) + Len(b) + Len(c) /\ Len(r) = Len(a) + Len(b) + Len(c)
  BY <1>0, <1>1, <1>2, <1>3, <1>4
<1>6. ASSUME NEW i \in 1 .. Len(l) PROVE l[i] = r[i]
  <2>0. i \in Nat /\ 1 <= i /\ i <= Len(a) + Len(b) + Len(c)
    BY <1>0, <1>5
  <2>1. CASE i <= Len(a)
    <3>1. i \in 1 .. Len(a) + Len(bc) /\ i \in 1 .. Len(ab) + Len(c) /\ i \in 1 .. Len(a) + Len(b)
          /\ i <= Len(ab)
      BY <2>0, <2>1, <1>0, <1>1, <1>2
    <3> QED BY <3>1, <2>1, <1>1, <1>3, <1>4
  <2>2. CASE ~(i <= Len(a)) /\ i <= Len(a) + Len(b)
    <3> DEFINE j == i - Len(a)
    <3>1. i \in 1 .. Len(a) + Len(bc) /\ i \in 1 .. Len(ab) + Len(c) /\ i \in 1 .. Len(a) + Len(b)
          /\ i <= Len(ab) /\ j \in 1 .. Len(b) + Len(c) /\ j <= Len(b)
      BY <2>0, <2>2, <1>0, <1>1, <1>2
    <3>2. l[i] = bc[j] /\ r[i] = ab[i] /\ ab[i] = b[j]
      BY <3>1, <2>2, <1>1, <1>3, <1>4
    <3> HIDE DEF j
    <3>3. bc[j] = b[j]
      BY <3>1, <1>2
    <3> QED BY <3>2, <3>3
  <2>3. CASE ~(i <= Len(a) + Len(b))
    <3> DEFINE j == i - Len(a)
               k == i - Len(ab)
    <3>1. i \in 1 .. Len(a) + Len(bc) /\ i \in 1 .. Len(ab) + Len(c) /\ ~(i <= Len(a))
          /\ ~(i <= Len(ab)) /\ j \in 1 .. Len(b) + Len(c) /\ ~(j <= Len(b))
          /\ j - Len(b) = k
      BY <2>0, <2>3, <1>0, <1>1, <1>2
    <3>2. l[i] = bc[j] /\ r[i] = c[k]
      BY <3>1, <1>3, <1>4
    <3> HIDE DEF j, k
    <3>3. bc[j] = c[j - Len(b)]
      BY <3>1, <1>2
    <3> QED BY <3>1, <3>2, <3>3
  <2> QED BY <2>1, <2>2, <2>3, <2>0
<1>7. l = r
  BY <1>3, <1>4, <1>5, <1>6, SeqEqual
<1> QED BY <1>7 DEF l, r, ab, bc

\* A turn of the drain of merged writes.
LEMMA MergedTurn ==
  ASSUME NEW s, PlainWrites(s), NEW d \in Drained, NEW u \in Text, NEW frames \in Seq(Frames),
         Sse!NextCompleteComment(d.rest) = {},
         Merged(s, frames \o d.frames, d.rest \o u)
  PROVE  LET e == Sse!DrainFrame(d)
         IN  /\ e \in Drained /\ Sse!NextCompleteComment(e.rest) = {}
             /\ Merged(s, frames \o e.frames, e.rest \o u)
<1> DEFINE x == d.rest
           F == x \o u
           e == Sse!DrainFrame(d)
<1>0. x \in Text /\ d.frames \in Seq(Frames) /\ Len(x) \in Nat /\ Len(u) \in Nat
  BY Texts DEF Drained
<1>1. F \in Text /\ Len(F) = Len(x) + Len(u) /\ \A i \in 1 .. Len(x) : F[i] = x[i]
  BY <1>0, JoinIs
<1>2. PICK lo \in Nat : MergedFrom(s, F, lo) /\ InOrder(frames \o d.frames, lo, s)
  BY DEF Merged
<1>3. CASE e = d
  BY <1>3
<1>4. ASSUME Sse!FrameEnd(x) = {} PROVE e = d
  BY <1>0, <1>4, DrainFrameIs
<1> HIDE DEF F
<1>5. PICK it, of : Labelled(s, F, Len(F), it, of) /\ it[1] > lo /\ it[Len(F) + 1] = Len(s) + 1
  BY <1>2 DEF MergedFrom
<1>6. CASE Len(F) = 0
  <2>1. Len(x) = 0
    <3> DEFINE k == Len(x)
    <3>1. k \in Nat /\ Len(u) \in Nat /\ k + Len(u) = 0
      BY <1>0, <1>1, <1>6
    <3> HIDE DEF k
    <3>2. k = 0
      BY <3>1
    <3> QED BY <3>2 DEF k
  <2>2. x = <<>>
    BY <1>0, <2>1, EmptySeq DEF Text
  <2>3. e = d
    BY <2>2, <1>4, EmptyText
  <2> QED BY <1>3, <2>3
<1>7. CASE Len(F) # 0
  <2> DEFINE n == it[1]
             w == WriteAt(s, n)
             L == Len(w)
  <2>0. /\ Len(F) >= 1 /\ n \in 1 .. Len(s) /\ n \in Int /\ n \in Nat /\ L \in Nat /\ s \in Writes
    <3>1. Len(F) >= 1 /\ 1 \in 1 .. Len(F)
      BY <1>0, <1>1, <1>7
    <3>2. n \in 1 .. Len(s) /\ L \in Nat /\ s \in Writes /\ Len(s) \in Nat
      BY <1>5, <3>1, LabelTypes
    <3> QED BY <3>1, <3>2
  <2>1. s[n] \in Plain
    BY <2>0 DEF PlainWrites
  <2>2. w = Whole(s[n], n) /\ (Len(x) < L => Sse!FrameEnd(x) = {})
        /\ (Len(x) >= L => StartsWith(x, w))
    BY <1>0, <1>5, <2>0, <2>1, FirstOf DEF F
  <2>3. CASE Len(x) < L
    BY <1>3, <1>4, <2>2, <2>3
  <2>4. CASE ~(Len(x) < L)
    <3>1. Len(x) >= L /\ StartsWith(x, w)
      BY <1>0, <2>0, <2>2, <2>4
    <3>2. s[n] # "comment"
      <4>1. Labelled(s, x \o u, Len(F), it, of) /\ Len(F) >= 1 /\ s[it[1]] \in Plain
        BY <1>5, <2>0, <2>1 DEF F
      <4>2. Len(x) >= Len(WriteAt(s, it[1]))
        BY <3>1
      <4>3. s[it[1]] \in Lead
        BY <4>1, <4>2, <1>0, FirstWhole
      <4> QED BY <4>3 DEF Lead
    <3>3. s[n] \in Framed /\ s[n] \in Lead
      BY <2>1, <3>2 DEF Plain, Framed, Lead
    <3>4. /\ e = [frames |-> d.frames \o <<Sse!FrameOf(s[n], n)>>,
                  rest |-> Sse!StripCompleteComments(Without(x, 1, L))]
          /\ Sse!FrameEnd(x) # {}
      BY <2>0, <2>2, <3>1, <3>3, BlockTurn
    <3>5. L \in 1 .. Len(F) /\ it[L + 1] > n /\ of[L + 1] = 1
      BY <1>5, <2>0, FirstWrite
    <3> DEFINE y == Without(x, 1, L)
               f == Sse!FrameOf(s[n], n)
    <3> HIDE DEF n, w, L
    <3>6. y \in Text /\ Without(F, 1, L) = y \o u
      <4>1. 1 \in 1 .. Len(x) /\ L \in 1 .. Len(x) /\ L \in 1 .. Len(x)
        BY <3>1, <3>5, <1>0, <2>0
      <4> QED BY <4>1, <1>0, WithoutIs, WithoutJoin DEF F
    <3>7. MergedFrom(s, Without(F, 1, L), n)
      <4>1. PICK it2, of2 :
              /\ Labelled(s, Without(F, 1, L), Len(F) - (L - 1 + 1), it2, of2)
              /\ it2[1] = it[L + 1]
              /\ it2[Len(F) - (L - 1 + 1) + 1] = it[Len(F) + 1]
        <5>1. 1 \in 1 .. Len(F) /\ L \in 1 .. Len(F) /\ of[1] = 1
          BY <3>5, <2>0, <1>5, LabelTypes
        <5> QED BY <5>1, <1>5, <3>5, LabelsWithout
      <4>2. Len(Without(F, 1, L)) = Len(F) - (L - 1 + 1)
        <5>1. 1 \in 1 .. Len(F) /\ L \in 1 .. Len(F)
          BY <3>5, <2>0
        <5> QED BY <5>1, <1>1, WithoutIs
      <4> DEFINE v == Without(F, 1, L)
                 q == Len(F) - (L - 1 + 1)
      <4>3. Labelled(s, v, q, it2, of2) /\ Len(v) = q /\ it2[q + 1] = Len(s) + 1 /\ it2[1] > n
        BY <4>1, <4>2, <1>5, <3>5
      <4> HIDE DEF v, q
      <4>4. MergedFrom(s, v, n)
        BY <4>3 DEF MergedFrom
      <4> QED BY <4>4 DEF v
    <3>8. MergedFrom(s, Sse!StripCompleteComments(y) \o u, n)
      <4>1. MergedFrom(s, y \o u, n)
        BY <3>6, <3>7
      <4> HIDE DEF y
      <4> QED BY <4>1, <2>0, <3>6, MergedStrip
    <3>9. /\ Sse!StripCompleteComments(y) \in Text
          /\ Sse!NextCompleteComment(Sse!StripCompleteComments(y)) = {}
      <4> HIDE DEF y
      <4> QED BY <3>6, StripType
    <3>10. f \in Frames /\ <<f>> \in Seq(Frames)
      <4>1. f \in Frames
        BY <2>0, <3>3, FrameType
      <4> QED BY <4>1
    <3> DEFINE before == frames \o d.frames
               after == d.frames \o <<f>>
    <3> HIDE DEF x, y, f
    <3>11. before \in Seq(Frames) /\ after \in Seq(Frames) /\ frames \o after = before \o <<f>>
      <4> DEFINE a == d.frames
                 o == <<f>>
      <4>1. a \in Seq(Frames) /\ o \in Seq(Frames)
        BY <1>0, <3>10
      <4> HIDE DEF a, o
      <4>2. frames \o (a \o o) = (frames \o a) \o o
        BY <4>1, ConcatAssoc
      <4>3. frames \o a \in Seq(Frames) /\ a \o o \in Seq(Frames)
        BY <4>1, ConcatProperties
      <4> QED BY <4>2, <4>3 DEF a, o
    <3>12. InOrder(before \o <<f>>, n, s)
      <4>1. InOrder(before, lo, s)
        BY <1>2
      <4>2. RestFollowsCut(s)
        BY DEF RestFollowsCut, PlainWrites, Plain, Lead
      <4>3. lo < n
        BY <1>5, <2>0 DEF n
      <4> HIDE DEF before
      <4> QED BY <4>1, <4>2, <4>3, <2>0, <3>3, <3>11, InOrderAppend DEF f
    <3>13. e.frames = after /\ e.rest = Sse!StripCompleteComments(y) /\ e = [frames |-> e.frames, rest |-> e.rest]
      BY <3>4 DEF y, f
    <3> HIDE DEF e, before, after
    <3>14. Merged(s, frames \o e.frames, e.rest \o u)
      <4>1. InOrder(frames \o e.frames, n, s) /\ MergedFrom(s, e.rest \o u, n)
        BY <3>8, <3>11, <3>12, <3>13
      <4> QED BY <4>1, <2>0 DEF Merged
    <3>15. e \in Drained
      <4>1. e.frames \in Seq(Frames) /\ e.rest \in Text
        BY <3>9, <3>11, <3>13
      <4> QED BY <4>1, <3>13 DEF Drained
    <3> QED BY <3>9, <3>13, <3>14, <3>15 DEF e
  <2> QED BY <2>3, <2>4
<1> QED BY <1>6, <1>7

\* What a drain of merged writes hands on is whole and in order.
LEMMA MergedDrain ==
  ASSUME NEW s, PlainWrites(s), NEW t \in Text, NEW u \in Text, NEW frames \in Seq(Frames),
         Merged(s, frames, t \o u)
  PROVE  Merged(s, frames \o Sse!Drain(t).frames, Sse!Drain(t).rest \o u)
<1> DEFINE D == {d \in Drained : /\ Sse!NextCompleteComment(d.rest) = {}
                                 /\ Merged(s, frames \o d.frames, d.rest \o u)}
           b == [frames |-> <<>>, rest |-> Sse!StripCompleteComments(t)]
<1>1. ASSUME NEW d \in D PROVE Sse!DrainFrame(d) \in D
  <2>1. /\ d \in Drained /\ Sse!NextCompleteComment(d.rest) = {}
        /\ Merged(s, frames \o d.frames, d.rest \o u)
    BY <1>1
  <2>2. LET e == Sse!DrainFrame(d)
        IN  /\ e \in Drained /\ Sse!NextCompleteComment(e.rest) = {}
            /\ Merged(s, frames \o e.frames, e.rest \o u)
    BY <2>1, MergedTurn
  <2> QED BY <2>2
<1>2. b \in D
  <2>1. PICK lo \in Nat : MergedFrom(s, t \o u, lo) /\ InOrder(frames, lo, s)
    BY DEF Merged
  <2>2. MergedFrom(s, Sse!StripCompleteComments(t) \o u, lo)
    BY <2>1, MergedStrip
  <2>3. /\ Sse!StripCompleteComments(t) \in Text
        /\ Sse!NextCompleteComment(Sse!StripCompleteComments(t)) = {}
    BY StripType
  <2>4. frames \o <<>> = frames
    BY ConcatEmptySeq
  <2>5. <<>> \in Seq(Frames)
    BY EmptySeq
  <2>6. Merged(s, frames, Sse!StripCompleteComments(t) \o u)
    BY <2>1, <2>2 DEF Merged
  <2>7. b.frames = <<>> /\ b.rest = Sse!StripCompleteComments(t) /\ b \in Drained
    BY <2>3, <2>5 DEF Drained
  <2> HIDE DEF b
  <2> QED BY <2>3, <2>4, <2>6, <2>7
<1>3. Sse!Drain(t) \in D
  <2>1. Len(t) \in Nat
    BY Texts
  <2> HIDE DEF D
  <2> QED BY <1>1, <1>2, <2>1, DrainClosed
<1> QED BY <1>3

-----------------------------------------------------------------------------
(* The frames before the first comment *)

LeadBefore(s, M) == \A n \in 1 .. M - 1 : s[n] \in Lead

\* What was read and what was not are all the writes behind lo up to M, which
\* is the first comment or the next write.
Leading(s, t, lo, M, p, it, of) ==
  /\ Labelled(s, t, p, it, of)
  /\ it[1] = lo + 1 /\ it[p + 1] = M
  /\ \A i \in 1 .. p : it[i + 1] <= it[i] + 1
  /\ \/ M = Len(s) + 1 /\ p = Len(t)
     \/ M <= Len(s) /\ s[M] \in {"comment", "cut"}

LeadFrom(s, t, lo, M) == \E p, it, of : Leading(s, t, lo, M, p, it, of)

\* Every frame of the first lo writes has arrived, and the others will.
Coming(s, frames, t) ==
  \E lo \in 0 .. Len(s), M \in 1 .. Len(s) + 1 :
    LeadBefore(s, M) /\ frames = UpTo(s, lo) /\ LeadFrom(s, t, lo, M)

\* Every frame before the first comment has arrived.
Passed(s, frames) ==
  \E M \in 1 .. Len(s) :
    /\ LeadBefore(s, M) /\ s[M] \in {"comment", "cut"}
    /\ Sse!IsPrefix(UpTo(s, M - 1), frames)

Arrives(s, frames, t) == Coming(s, frames, t) \/ Passed(s, frames)

\* What has arrived has arrived.
LEMMA PassedMore ==
  ASSUME NEW s \in Writes, NEW frames \in Seq(Frames), NEW g \in Seq(Frames), Passed(s, frames)
  PROVE  Passed(s, frames \o g)
<1>0. Len(s) \in Nat
  BY WritesLen
<1>1. PICK M \in 1 .. Len(s) : /\ LeadBefore(s, M) /\ s[M] \in {"comment", "cut"}
                               /\ Sse!IsPrefix(UpTo(s, M - 1), frames)
  BY DEF Passed
<1>2. M - 1 \in 0 .. Len(s)
  BY <1>0
<1> DEFINE x == UpTo(s, M - 1)
           y == frames \o g
<1>3. x \in Seq(Frames) /\ Sse!IsPrefix(x, frames)
  BY <1>1, <1>2, UpToIs
<1>4. y \in Seq(Frames) /\ Sse!IsPrefix(frames, y)
  BY PrefixConcat
<1> HIDE DEF x, y
<1>5. Sse!IsPrefix(x, y)
  BY <1>3, <1>4, PrefixTrans
<1> QED BY <1>1, <1>5 DEF Passed, x, y

\* A comment is none of the writes before M.
LEMMA LeadNoComment ==
  ASSUME NEW s, NEW t, NEW lo, NEW M \in Nat, NEW p, NEW it, NEW of,
         Leading(s, t, lo, M, p, it, of), LeadBefore(s, M), NEW i \in 1 .. p
  PROVE  t[i] # Sse!Comment /\ s[it[i]] \in Lead
<1>0. Labelled(s, t, p, it, of) /\ it[p + 1] = M
  BY DEF Leading
<1>1. p \in Nat /\ i \in 1 .. p + 1
  BY <1>0, LabelTypes
<1> DEFINE w == WriteAt(s, it[i])
<1>2. /\ it[i] \in 1 .. Len(s) /\ it[i] \in Nat /\ Len(w) \in Nat
      /\ Comes(s, t, it, of, i) /\ of[i] \in Nat /\ of[i] >= 1
  BY <1>0, <1>1, LabelTypes
<1>3. it[i] < M
  BY <1>0, LabelsBelow
<1>4. s[it[i]] \in Lead
  BY <1>2, <1>3 DEF LeadBefore
<1>5. w = Whole(s[it[i]], it[i]) /\ s[it[i]] \in Framed
  BY <1>4, KindsAre DEF WriteAt, Whole, Lead
<1> HIDE DEF w
<1>6. of[i] \in 1 .. Len(w) /\ t[i] = w[of[i]]
  <2>1. of[i] <= Len(w) /\ t[i] = w[of[i]]
    BY <1>2 DEF Comes, w
  <2> QED BY <2>1, <1>2
<1>7. Whole(s[it[i]], it[i])[of[i]] # Sse!Comment
  <2>1. of[i] \in 1 .. Len(Whole(s[it[i]], it[i])) /\ it[i] \in Int
    BY <1>2, <1>5, <1>6
  <2> QED BY <2>1, <1>5, FramedNoComment
<1> QED BY <1>4, <1>5, <1>6, <1>7

\* Before the first comment there is none to strip.
LEMMA LeadStrip ==
  ASSUME NEW s, NEW x \in Text, NEW u \in Text, NEW lo, NEW M \in Nat, LeadBefore(s, M),
         LeadFrom(s, x \o u, lo, M)
  PROVE  LeadFrom(s, Sse!StripCompleteComments(x) \o u, lo, M)
<1> DEFINE T == {y \in Text : LeadFrom(s, y \o u, lo, M)}
<1>1. ASSUME NEW y \in T PROVE Sse!StripComment(y) \in T
  <2> DEFINE F == y \o u
  <2>0. y \in Text /\ LeadFrom(s, F, lo, M) /\ Len(y) \in Nat /\ Len(u) \in Nat
    BY Texts
  <2>1. CASE Sse!StripComment(y) = y
    BY <2>1
  <2>2. ASSUME NEW a \in 1 .. Len(y), NEW b \in 1 .. Len(y), SpanOf(y, a, b), a + 2 <= b,
               Sse!StripComment(y) = Without(y, a, b)
        PROVE  Sse!StripComment(y) \in T
    <3>1. F \in Text /\ Len(F) = Len(y) + Len(u) /\ \A i \in 1 .. Len(y) : F[i] = y[i]
      BY <2>0, JoinIs
    <3>9. Without(y, a, b) \o u = Without(F, a, b) /\ Without(y, a, b) \in Text
      <4>1. b \in a .. Len(y)
        BY <2>0, <2>2
      <4> QED BY <4>1, <2>0, WithoutJoin, WithoutIs
    <3> DEFINE V == Without(F, a, b)
    <3> HIDE DEF F
    <3>2. PICK p, it, of : Leading(s, F, lo, M, p, it, of)
      BY <2>0 DEF LeadFrom
    <3>3. a \in 1 .. Len(F) /\ b \in a .. Len(F) /\ a \in Nat /\ b \in Nat /\ Len(F) \in Nat
      BY <2>0, <2>2, <3>1
    <3>4. V \in Text /\ Len(V) = Len(F) - (b - a + 1)
          /\ \A i \in 1 .. Len(F) - (b - a + 1) : V[i] = IF i < a THEN F[i] ELSE F[i + (b - a + 1)]
      BY <3>1, <3>3, WithoutIs
    <3> HIDE DEF V
    <3>5. Labelled(s, F, p, it, of) /\ p \in Nat /\ s \in Writes /\ Len(s) \in Nat
      <4>1. Labelled(s, F, p, it, of)
        BY <3>2 DEF Leading
      <4> QED BY <4>1, LabelTypes
    <3>6. a > p
      <4>1. F[a] = Sse!Comment
        BY <2>2, <3>1 DEF SpanOf
      <4>2. a \notin 1 .. p
        BY <4>1, <3>2, LeadNoComment
      <4> QED BY <4>2, <3>3, <3>5
    <3>7. Len(V) >= p /\ \A i \in 1 .. p : V[i] = F[i]
      <4>1. Len(V) >= p
        BY <3>3, <3>4, <3>5, <3>6
      <4>2. ASSUME NEW i \in 1 .. p PROVE i \in 1 .. Len(F) - (b - a + 1) /\ i < a
        BY <4>1, <3>3, <3>4, <3>5, <3>6
      <4> QED BY <4>1, <4>2, <3>4
    <3>8. Labelled(s, V, p, it, of)
      <4>1. Len(s) >= Len(s) /\ \A n \in 1 .. Len(s) : s[n] = s[n]
        BY <3>5
      <4> QED BY <4>1, <3>4, <3>5, <3>7, LabelsMore
    <3>10. M <= Len(s) /\ s[M] \in {"comment", "cut"}
      <4>1. p # Len(F)
        BY <3>3, <3>5, <3>6
      <4> QED BY <4>1, <3>2 DEF Leading
    <3>11. Leading(s, V, lo, M, p, it, of)
      BY <3>2, <3>8, <3>10 DEF Leading
    <3>12. LeadFrom(s, V, lo, M)
      BY <3>11 DEF LeadFrom
    <3> QED BY <3>12, <3>9, <2>2 DEF V
  <2> QED BY <2>0, <2>1, <2>2, StripCommentIs
<1>2. x \in T /\ Len(x) \in Nat
  BY Texts
<1>3. Sse!StripCompleteComments(x) \in T
  <2> HIDE DEF T
  <2> QED BY <1>1, <1>2, StripClosed
<1> QED BY <1>3

\* A turn adds frames to those it was given.
LEMMA DrainFrameGrows ==
  ASSUME NEW d \in Drained
  PROVE  /\ Sse!DrainFrame(d) \in Drained
         /\ \E g \in Seq(Frames) : Sse!DrainFrame(d).frames = d.frames \o g
<1>0. d.rest \in Text /\ d.frames \in Seq(Frames)
  BY DEF Drained
<1>1. CASE Sse!DrainFrame(d) = d
  <2>1. <<>> \in Seq(Frames) /\ d.frames = d.frames \o <<>>
    BY <1>0, EmptySeq, ConcatEmptySeq
  <2> QED BY <2>1, <1>1
<1>2. ASSUME NEW e \in Sse!FrameEnd(d.rest), Sse!DrainFrame(d) = Turn(d, e)
      PROVE  /\ Sse!DrainFrame(d) \in Drained
             /\ \E g \in Seq(Frames) : Sse!DrainFrame(d).frames = d.frames \o g
  BY <1>2, TurnType
<1> QED BY <1>0, <1>1, <1>2, DrainFrameIs

\* What is left when the first write is handed on.
LEMMA LeadWithout ==
  ASSUME NEW s, NEW t, NEW lo \in Nat, NEW M \in Nat, NEW p, NEW it, NEW of,
         Leading(s, t, lo, M, p, it, of), p >= 1
  PROVE  LET L == Len(WriteAt(s, lo + 1))
         IN  /\ L \in 1 .. p /\ lo + 1 \in 1 .. Len(s) /\ lo + 1 < M
             /\ LeadFrom(s, Without(t, 1, L), lo + 1, M)
<1> DEFINE L == Len(WriteAt(s, lo + 1))
<1>0. /\ Labelled(s, t, p, it, of) /\ it[1] = lo + 1 /\ it[p + 1] = M
      /\ \A i \in 1 .. p : it[i + 1] <= it[i] + 1
      /\ (M = Len(s) + 1 /\ p = Len(t)) \/ (M <= Len(s) /\ s[M] \in {"comment", "cut"})
  BY DEF Leading
<1>1. /\ p \in Nat /\ 1 \in 1 .. p /\ t \in Text /\ Len(t) \in Nat /\ p <= Len(t) /\ of[1] = 1
      /\ Len(s) \in Nat /\ it[1] \in 1 .. Len(s)
  <2>1. p \in Nat /\ 1 \in 1 .. p
    BY <1>0, LabelTypes
  <2> QED BY <2>1, <1>0, LabelTypes
<1>2. L \in 1 .. p /\ it[L] = lo + 1 /\ it[L + 1] > lo + 1 /\ of[L + 1] = 1
  BY <1>0, FirstWrite
<1>3. lo + 1 < M
  BY <1>0, <1>1, LabelsBelow
<1> HIDE DEF L
<1>4. it[L + 1] = lo + 1 + 1
  <2>1. it[L + 1] <= lo + 1 + 1
    BY <1>0, <1>2
  <2>2. L + 1 \in 1 .. p + 1 /\ it[L + 1] \in Nat
    <3>1. L + 1 \in 1 .. p + 1
      BY <1>1, <1>2
    <3> QED BY <3>1, <1>0, LabelTypes
  <2> QED BY <2>1, <2>2, <1>2
<1> DEFINE v == Without(t, 1, L)
           q == p - L
<1>5. v \in Text /\ Len(v) = Len(t) - L
  <2>1. 1 \in 1 .. Len(t) /\ L \in 1 .. Len(t) /\ L - 1 + 1 = L
    BY <1>1, <1>2
  <2> QED BY <2>1, <1>1, WithoutIs
<1>6. PICK it2, of2 :
        /\ Labelled(s, v, q, it2, of2) /\ it2[1] = it[L + 1] /\ it2[q + 1] = it[p + 1]
        /\ \A i \in 1 .. p - L + 1 : it2[i] = it[i + L]
  <2>1. L - 1 + 1 = L /\ L \in 1 .. p
    BY <1>1, <1>2
  <2> DEFINE a == 1
             w == Without(t, a, L)
             c == p - (L - a + 1)
  <2>2. a \in 1 .. p /\ L \in a .. p /\ of[a] = 1 /\ of[L + 1] = 1 /\ Labelled(s, t, p, it, of)
    BY <2>1, <1>0, <1>1, <1>2
  <2>3. a = 1 /\ c = q /\ v = w
    BY <2>1
  <2> HIDE DEF a, v, q
  <2>4. \E it2, of2 :
          /\ Labelled(s, w, c, it2, of2)
          /\ it2[1] = (IF a = 1 THEN it[L + 1] ELSE it[1])
          /\ it2[c + 1] = it[p + 1]
          /\ a = 1 => \A i \in 1 .. p - L + 1 : it2[i] = it[i + L]
    BY <2>2, LabelsWithout
  <2> HIDE DEF w, c
  <2> QED BY <2>3, <2>4
<1> HIDE DEF v
<1>7. ASSUME NEW i \in 1 .. q PROVE it2[i + 1] <= it2[i] + 1
  <2>1. i \in 1 .. p - L + 1 /\ i + 1 \in 1 .. p - L + 1 /\ i + L \in 1 .. p /\ i + 1 + L = i + L + 1
    BY <1>1, <1>2
  <2>2. it2[i] = it[i + L] /\ it2[i + 1] = it[i + L + 1]
    <3>1. it2[i + 1] = it[i + 1 + L]
      BY <2>1, <1>6
    <3> QED BY <3>1, <2>1, <1>6
  <2> QED BY <2>1, <2>2, <1>0
<1>8. p = Len(t) => q = Len(v)
  BY <1>5
<1> HIDE DEF q
<1>9. Leading(s, v, lo + 1, M, q, it2, of2)
  BY <1>0, <1>4, <1>6, <1>7, <1>8 DEF Leading
<1>10. LeadFrom(s, v, lo + 1, M)
  BY <1>9 DEF LeadFrom
<1> QED BY <1>0, <1>1, <1>2, <1>3, <1>10 DEF v, L

\* A turn of the drain loses none of the first frames.
LEMMA ArrivesTurn ==
  ASSUME NEW s \in Writes, NEW d \in Drained, NEW u \in Text, NEW frames \in Seq(Frames),
         Arrives(s, frames \o d.frames, d.rest \o u)
  PROVE  LET e == Sse!DrainFrame(d)
         IN  e \in Drained /\ Arrives(s, frames \o e.frames, e.rest \o u)
<1> DEFINE x == d.rest
           F == x \o u
           e == Sse!DrainFrame(d)
           before == frames \o d.frames
<1>0. x \in Text /\ d.frames \in Seq(Frames) /\ Len(x) \in Nat /\ Len(u) \in Nat
      /\ Len(s) \in Nat
  BY Texts, WritesLen DEF Drained
<1>1. F \in Text /\ Len(F) = Len(x) + Len(u) /\ \A i \in 1 .. Len(x) : F[i] = x[i]
  BY <1>0, JoinIs
<1>2. PICK g \in Seq(Frames) : e \in Drained /\ e.frames = d.frames \o g
  BY DrainFrameGrows
<1>3. before \in Seq(Frames) /\ frames \o e.frames = before \o g
  <2> DEFINE a == d.frames
  <2>1. a \in Seq(Frames)
    BY <1>0
  <2> HIDE DEF a
  <2>2. frames \o (a \o g) = (frames \o a) \o g /\ frames \o a \in Seq(Frames)
    BY <2>1, ConcatAssoc, ConcatProperties
  <2> QED BY <2>2, <1>2 DEF a
<1>4. ASSUME e = d PROVE e \in Drained /\ Arrives(s, frames \o e.frames, e.rest \o u)
  BY <1>4
<1>5. ASSUME Passed(s, before) PROVE Arrives(s, frames \o e.frames, e.rest \o u)
  <2> HIDE DEF before, e
  <2>1. Passed(s, before \o g)
    BY <1>3, <1>5, PassedMore
  <2> QED BY <2>1, <1>3 DEF Arrives
<1>6. ASSUME Sse!FrameEnd(x) = {} PROVE e = d
  BY <1>0, <1>6, DrainFrameIs
<1>7. ASSUME Coming(s, before, F) PROVE e \in Drained /\ Arrives(s, frames \o e.frames, e.rest \o u)
  <2> HIDE DEF F, before
  <2>1. PICK lo \in 0 .. Len(s), M \in 1 .. Len(s) + 1 :
          LeadBefore(s, M) /\ before = UpTo(s, lo) /\ LeadFrom(s, F, lo, M)
    BY <1>7 DEF Coming
  <2>2. PICK p, it, of : Leading(s, F, lo, M, p, it, of)
    BY <2>1 DEF LeadFrom
  <2>3. /\ Labelled(s, F, p, it, of) /\ it[1] = lo + 1 /\ it[p + 1] = M /\ p \in Nat
        /\ (M = Len(s) + 1 /\ p = Len(F)) \/ (M <= Len(s) /\ s[M] \in {"comment", "cut"})
        /\ lo \in Nat /\ M \in Nat
    <3>1. Labelled(s, F, p, it, of)
      BY <2>2 DEF Leading
    <3>2. p \in Nat
      BY <3>1, LabelTypes
    <3>3. lo \in Nat /\ M \in Nat
      BY <1>0
    <3> QED BY <3>1, <3>2, <3>3, <2>2 DEF Leading
  <2>4. CASE p = 0
    <3>1. M = lo + 1
      BY <2>3, <2>4
    <3>2. CASE M = Len(s) + 1 /\ p = Len(F)
      <4>1. Len(x) = 0
        <5> DEFINE k == Len(x)
        <5>1. k \in Nat /\ Len(u) \in Nat /\ k + Len(u) = 0
          BY <1>0, <1>1, <3>2, <2>4
        <5> HIDE DEF k
        <5>2. k = 0
          BY <5>1
        <5> QED BY <5>2 DEF k
      <4>2. x = <<>>
        BY <1>0, <4>1, EmptySeq DEF Text
      <4> QED BY <4>2, <1>4, <1>6, EmptyText
    <3>3. CASE M <= Len(s) /\ s[M] \in {"comment", "cut"}
      <4>1. M \in 1 .. Len(s) /\ M - 1 = lo
        BY <2>3, <3>1, <3>3, <1>0
      <4>2. UpTo(s, lo) \in Seq(Frames)
        BY UpToIs
      <4>3. Sse!IsPrefix(UpTo(s, M - 1), before)
        BY <2>1, <4>1, <4>2, PrefixSelf
      <4>4. Passed(s, before)
        BY <2>1, <3>3, <4>1, <4>3 DEF Passed
      <4> QED BY <4>4, <1>2, <1>5
    <3> QED BY <2>3, <3>2, <3>3
  <2>5. CASE p # 0
    <3> DEFINE n == lo + 1
               w == WriteAt(s, n)
               L == Len(w)
    <3>1. p >= 1 /\ 1 \in 1 .. p
      BY <2>3, <2>5
    <3>2. L \in 1 .. p /\ n \in 1 .. Len(s) /\ n < M /\ LeadFrom(s, Without(F, 1, L), n, M)
      BY <3>1, <2>2, <2>3, LeadWithout
    <3>3. s[n] \in Lead /\ s[n] \in Plain /\ s[n] \in Framed /\ n \in Int /\ n \in Nat /\ L \in Nat
      <4>1. s[n] \in Lead
        BY <3>1, <2>2, <2>1, <2>3, LeadNoComment
      <4> QED BY <4>1, <3>2, <2>3, KindsAre DEF Plain
    <3>4. w = Whole(s[n], n) /\ (Len(x) < L => Sse!FrameEnd(x) = {})
          /\ (Len(x) >= L => StartsWith(x, w))
      <4>1. it[1] = n /\ Labelled(s, x \o u, p, it, of)
        BY <2>3 DEF F
      <4>2. s[it[1]] \in Plain
        BY <4>1, <3>3
      <4>3. /\ WriteAt(s, it[1]) = Whole(s[it[1]], it[1])
            /\ Len(x) < Len(WriteAt(s, it[1])) => Sse!FrameEnd(x) = {}
            /\ Len(x) >= Len(WriteAt(s, it[1])) => StartsWith(x, WriteAt(s, it[1]))
        BY <4>1, <4>2, <3>1, <1>0, FirstOf
      <4> HIDE DEF n
      <4> QED BY <4>1, <4>3
    <3>5. CASE Len(x) < L
      BY <3>4, <3>5, <1>4, <1>6
    <3>6. CASE ~(Len(x) < L)
      <4>1. Len(x) >= L /\ StartsWith(x, w)
        BY <1>0, <3>3, <3>4, <3>6
      <4> DEFINE f == Sse!FrameOf(s[n], n)
                 y == Without(x, 1, L)
      <4>2. e = [frames |-> d.frames \o <<f>>, rest |-> Sse!StripCompleteComments(y)]
        BY <3>3, <3>4, <4>1, BlockTurn
      <4> HIDE DEF n, w, L
      <4>3. y \in Text /\ Without(F, 1, L) = y \o u
        <5>1. 1 \in 1 .. Len(x) /\ L \in 1 .. Len(x)
          BY <4>1, <3>2, <3>3, <1>0
        <5> QED BY <5>1, <1>0, WithoutIs, WithoutJoin DEF F
      <4>4. LeadFrom(s, Sse!StripCompleteComments(y) \o u, n, M)
        <5>1. LeadFrom(s, y \o u, n, M)
          BY <3>2, <4>3
        <5> HIDE DEF y
        <5> QED BY <5>1, <4>3, <2>1, <2>3, LeadStrip
      <4>5. Handed(s[n], n) = <<f>> /\ <<f>> \in Seq(Frames)
        <5>1. f \in Frames
          BY <3>3, FrameType
        <5> QED BY <5>1 DEF Handed, Frames
      <4>6. UpTo(s, n) = before \o <<f>>
        <5>1. UpTo(s, n) = UpTo(s, n - 1) \o Handed(s[n], n) /\ n - 1 = lo
          <6>1. UpTo(s, n) = UpTo(s, n - 1) \o Handed(s[n], n)
            BY <3>2, UpToIs
          <6>2. n - 1 = lo
            BY <2>3 DEF n
          <6> QED BY <6>1, <6>2
        <5> QED BY <5>1, <4>5, <2>1
      <4>7. e.frames = d.frames \o <<f>> /\ e.rest = Sse!StripCompleteComments(y)
        BY <4>2
      <4>8. frames \o e.frames = before \o <<f>>
        <5> DEFINE a == d.frames
                   o == <<f>>
        <5>1. a \in Seq(Frames) /\ o \in Seq(Frames)
          BY <1>0, <4>5
        <5> HIDE DEF a, o
        <5>2. frames \o (a \o o) = (frames \o a) \o o
          BY <5>1, ConcatAssoc, SMTT(30)
        <5> QED BY <5>2, <4>7 DEF a, o, before
      <4> HIDE DEF e, y, f
      <4>9. n \in 0 .. Len(s)
        BY <3>2, <1>0
      <4>10. Coming(s, frames \o e.frames, e.rest \o u)
        <5>1. frames \o e.frames = UpTo(s, n) /\ LeadFrom(s, e.rest \o u, n, M)
          BY <4>4, <4>6, <4>7, <4>8
        <5> QED BY <5>1, <4>9, <2>1 DEF Coming
      <4> QED BY <4>10, <1>2 DEF Arrives, e
    <3> QED BY <3>5, <3>6
  <2> QED BY <2>4, <2>5
<1>8. Coming(s, before, F) \/ Passed(s, before)
  BY DEF Arrives
<1> QED BY <1>2, <1>5, <1>7, <1>8

\* A drain loses none of the first frames.
LEMMA ArrivesDrain ==
  ASSUME NEW s \in Writes, NEW t \in Text, NEW u \in Text, NEW frames \in Seq(Frames),
         Arrives(s, frames, t \o u)
  PROVE  Arrives(s, frames \o Sse!Drain(t).frames, Sse!Drain(t).rest \o u)
<1> DEFINE D == {d \in Drained : Arrives(s, frames \o d.frames, d.rest \o u)}
           b == [frames |-> <<>>, rest |-> Sse!StripCompleteComments(t)]
<1>1. ASSUME NEW d \in D PROVE Sse!DrainFrame(d) \in D
  <2>1. d \in Drained /\ Arrives(s, frames \o d.frames, d.rest \o u)
    BY <1>1
  <2>2. LET e == Sse!DrainFrame(d)
        IN  e \in Drained /\ Arrives(s, frames \o e.frames, e.rest \o u)
    BY <2>1, ArrivesTurn
  <2> QED BY <2>2
<1>2. b \in D
  <2> DEFINE r == Sse!StripCompleteComments(t)
  <2>1. Arrives(s, frames, r \o u)
    <3>1. CASE Passed(s, frames)
      BY <3>1 DEF Arrives
    <3>2. CASE Coming(s, frames, t \o u)
      <4>0. Len(s) \in Nat
        BY WritesLen
      <4>1. PICK lo \in 0 .. Len(s), M \in 1 .. Len(s) + 1 :
              LeadBefore(s, M) /\ frames = UpTo(s, lo) /\ LeadFrom(s, t \o u, lo, M)
        BY <3>2 DEF Coming
      <4>2. M \in Nat
        BY <4>0
      <4>3. LeadFrom(s, r \o u, lo, M)
        BY <4>1, <4>2, LeadStrip
      <4> HIDE DEF r
      <4>4. Coming(s, frames, r \o u)
        BY <4>1, <4>3 DEF Coming
      <4> QED BY <4>4 DEF Arrives
    <3> QED BY <3>1, <3>2 DEF Arrives
  <2>2. r \in Text
    BY StripType
  <2>3. frames \o <<>> = frames /\ <<>> \in Seq(Frames)
    BY ConcatEmptySeq, EmptySeq
  <2>4. b.frames = <<>> /\ b.rest = r /\ b \in Drained
    BY <2>2, <2>3 DEF Drained
  <2> HIDE DEF b, r
  <2> QED BY <2>1, <2>3, <2>4
<1>3. Sse!Drain(t) \in D
  <2>1. Len(t) \in Nat
    BY Texts
  <2> HIDE DEF D
  <2> QED BY <1>1, <1>2, <2>1, DrainClosed
<1> QED BY <1>3

-----------------------------------------------------------------------------
(* What the mailbox writes, and what is there when all of it was read *)

LEMMA JoinEmpty ==
  ASSUME NEW t \in Text
  PROVE  t \o <<>> = t /\ <<>> \o t = t
BY ConcatEmptySeq DEF Text

LEMMA JoinAssoc ==
  ASSUME NEW t \in Text, NEW u \in Text, NEW v \in Text
  PROVE  t \o (u \o v) = (t \o u) \o v
BY ConcatAssoc, SMTT(30) DEF Text

LEMMA NothingWritten ==
  /\ <<>> \in Writes /\ Len(<<>>) = 0
  /\ Merged(<<>>, <<>>, <<>>) /\ Arrives(<<>>, <<>>, <<>>)
<1> DEFINE s == <<>>
           t == <<>>
           it == [i \in 1 .. 1 |-> 1]
<1>1. s \in Writes /\ Len(s) = 0 /\ t \in Text /\ Len(t) = 0
  BY EmptySeq, EmptyText DEF Writes
<1>2. it \in [1 .. 1 -> Nat \ {0}] /\ it[1] = 1
  OBVIOUS
<1> HIDE DEF s, t, it
<1>3. Labelled(s, t, 0, it, it)
  BY <1>1, <1>2 DEF Labelled
<1>4. MergedFrom(s, t, 0)
  <2>1. it[1] > 0 /\ it[Len(t) + 1] = Len(s) + 1
    BY <1>1, <1>2
  <2>2. Labelled(s, t, Len(t), it, it)
    BY <1>1, <1>3
  <2> QED BY <2>1, <2>2 DEF MergedFrom
<1>5. Leading(s, t, 0, 1, 0, it, it)
  BY <1>1, <1>2, <1>3 DEF Leading
<1>6. LeadFrom(s, t, 0, 1) /\ LeadBefore(s, 1)
  BY <1>5 DEF LeadFrom, LeadBefore
<1>7. Merged(s, <<>>, t)
  BY <1>4, InOrderNone DEF Merged
<1>8. Coming(s, <<>>, t)
  <2>1. UpTo(s, 0) = <<>>
    BY <1>1, UpToIs
  <2>2. 0 \in 0 .. Len(s) /\ 1 \in 1 .. Len(s) + 1
    BY <1>1
  <2> QED BY <2>1, <2>2, <1>6 DEF Coming
<1> QED BY <1>1, <1>7, <1>8 DEF s, t, Arrives

\* A write of the mailbox behind merged writes.
LEMMA MergedWrite ==
  ASSUME NEW s \in Writes, NEW form \in Sse!WriteKinds, NEW t \in Text,
         NEW frames, Merged(s, frames, t)
  PROVE  Merged(Append(s, form), frames, t \o Sse!WriteOf(form, Len(s) + 1))
<1> DEFINE r == Append(s, form)
           w == Sse!WriteOf(form, Len(s) + 1)
           F == t \o w
<1>0. Len(s) \in Nat /\ Len(t) \in Nat
  BY WritesLen, Texts
<1>1. PICK lo \in Nat : MergedFrom(s, t, lo) /\ InOrder(frames, lo, s)
  BY DEF Merged
<1>2. PICK it, of : Labelled(s, t, Len(t), it, of) /\ it[1] > lo /\ it[Len(t) + 1] = Len(s) + 1
  BY <1>1 DEF MergedFrom
<1>3. PICK it2, of2 : /\ Labelled(r, F, Len(F), it2, of2)
                      /\ it2[Len(F) + 1] = Len(s) + 2 /\ it2[1] = it[1]
  BY <1>2, LabelsWrite
<1>4. Len(r) = Len(s) + 1 /\ \A n \in 1 .. Len(s) : r[n] = s[n]
  BY AppendWrite
<1> HIDE DEF r, F
<1>5. MergedFrom(r, F, lo)
  <2>1. it2[1] > lo /\ it2[Len(F) + 1] = Len(r) + 1
    BY <1>0, <1>2, <1>3, <1>4
  <2> QED BY <2>1, <1>3 DEF MergedFrom
<1>6. lo <= Len(s)
  <2>1. 1 \in 1 .. Len(t) + 1 /\ Len(t) + 1 \in 1 .. Len(t) + 1
    BY <1>0
  <2>2. it[1] <= it[Len(t) + 1]
    BY <2>1, <1>2, LabelsRise
  <2>3. it[1] \in Nat
    BY <2>1, <1>2, LabelTypes
  <2> QED BY <2>2, <2>3, <1>0, <1>2
<1>7. InOrder(frames, lo, r)
  <2>1. \A n \in 1 .. lo : r[n] = s[n]
    BY <1>0, <1>4, <1>6
  <2> QED BY <2>1, <1>1, InOrderMore
<1> QED BY <1>5, <1>7 DEF Merged, r, F

\* The same of the writes before the first comment.
LEMMA ArrivesWrite ==
  ASSUME NEW s \in Writes, NEW form \in Sse!WriteKinds,
         form = "rest" => Len(s) >= 1 /\ s[Len(s)] = "cut",
         NEW t \in Text, NEW frames, Arrives(s, frames, t)
  PROVE  Arrives(Append(s, form), frames, t \o Sse!WriteOf(form, Len(s) + 1))
<1> DEFINE r == Append(s, form)
           w == Sse!WriteOf(form, Len(s) + 1)
           F == t \o w
<1>0. Len(s) \in Nat /\ Len(t) \in Nat
  BY WritesLen, Texts
<1>1. r \in Writes /\ Len(r) = Len(s) + 1 /\ (\A n \in 1 .. Len(s) : r[n] = s[n])
      /\ r[Len(s) + 1] = form
  BY AppendWrite
<1>2. \A n \in 0 .. Len(s) : UpTo(r, n) = UpTo(s, n)
  BY UpToAppend
<1>3. w \in Text
  BY <1>0, WholeType
<1> HIDE DEF w
<1>4. F \in Text /\ Len(F) = Len(t) + Len(w) /\ (\A i \in 1 .. Len(t) : F[i] = t[i]) /\ Len(w) \in Nat
  BY <1>3, JoinIs, Texts
<1>5. ASSUME NEW M \in 1 .. Len(s) + 1, LeadBefore(s, M) PROVE LeadBefore(r, M)
  <2>1. \A n \in 1 .. M - 1 : n \in 1 .. Len(s)
    BY <1>0
  <2> QED BY <2>1, <1>1, <1>5 DEF LeadBefore
<1>6. CASE Passed(s, frames)
  <2>1. PICK M \in 1 .. Len(s) : /\ LeadBefore(s, M) /\ s[M] \in {"comment", "cut"}
                                 /\ Sse!IsPrefix(UpTo(s, M - 1), frames)
    BY <1>6 DEF Passed
  <2>2. M \in 1 .. Len(r) /\ M \in 1 .. Len(s) + 1 /\ M - 1 \in 0 .. Len(s)
    BY <1>0, <1>1
  <2>3. r[M] = s[M] /\ UpTo(r, M - 1) = UpTo(s, M - 1) /\ LeadBefore(r, M)
    BY <2>1, <2>2, <1>1, <1>2, <1>5
  <2> HIDE DEF r
  <2>4. Passed(r, frames)
    BY <2>1, <2>2, <2>3 DEF Passed
  <2> QED BY <2>4 DEF Arrives, r
<1>7. CASE Coming(s, frames, t)
  <2>1. PICK lo \in 0 .. Len(s), M \in 1 .. Len(s) + 1 :
          LeadBefore(s, M) /\ frames = UpTo(s, lo) /\ LeadFrom(s, t, lo, M)
    BY <1>7 DEF Coming
  <2>2. PICK p, it, of : Leading(s, t, lo, M, p, it, of)
    BY <2>1 DEF LeadFrom
  <2>3. /\ Labelled(s, t, p, it, of) /\ it[1] = lo + 1 /\ it[p + 1] = M
        /\ \A i \in 1 .. p : it[i + 1] <= it[i] + 1
        /\ (M = Len(s) + 1 /\ p = Len(t)) \/ (M <= Len(s) /\ s[M] \in {"comment", "cut"})
    BY <2>2 DEF Leading
  <2>4. p \in Nat /\ p <= Len(t) /\ M \in Nat /\ lo \in Nat /\ lo \in 0 .. Len(r)
        /\ M \in 1 .. Len(r) + 1 /\ UpTo(r, lo) = frames /\ LeadBefore(r, M)
    <3>1. p \in Nat /\ p <= Len(t)
      BY <2>3, LabelTypes
    <3>2. M \in Nat /\ lo \in Nat /\ lo \in 0 .. Len(r) /\ M \in 1 .. Len(r) + 1
      BY <1>0, <1>1
    <3> QED BY <3>1, <3>2, <2>1, <1>2, <1>5
  <2>9. ASSUME M = Len(s) + 1, p = Len(t)
        PROVE  \E it2, of2 : /\ Labelled(r, F, Len(F), it2, of2)
                             /\ it2[Len(F) + 1] = Len(s) + 2 /\ it2[1] = it[1]
                             /\ \A i \in 1 .. p + 1 : it2[i] = it[i]
                             /\ \A i \in p + 1 .. Len(F) : it2[i] = Len(s) + 1
    <3>1. it[p + 1] = Len(s) + 1 /\ Labelled(s, t, p, it, of)
      BY <2>3, <2>9
    <3> QED BY <3>1, <2>9, LabelsWrite, SMTT(30) DEF w
  <2> HIDE DEF F, r
  <2>5. ASSUME M <= Len(r), r[M] \in {"comment", "cut"} PROVE Coming(r, frames, F)
    <3>1. Len(F) >= p /\ \A i \in 1 .. p : F[i] = t[i]
      BY <1>0, <1>4, <2>4
    <3>2. Labelled(r, F, p, it, of)
      <4>1. Len(r) >= Len(s)
        BY <1>0, <1>1
      <4> QED BY <4>1, <3>1, <1>1, <1>4, <2>3, LabelsMore
    <3>3. Leading(r, F, lo, M, p, it, of)
      BY <3>2, <2>3, <2>5 DEF Leading
    <3>4. LeadFrom(r, F, lo, M)
      BY <3>3 DEF LeadFrom
    <3> QED BY <3>4, <2>4 DEF Coming
  <2>6. CASE M <= Len(s) /\ s[M] \in {"comment", "cut"}
    <3>1. M \in 1 .. Len(s) /\ M <= Len(r)
      BY <2>6, <2>4, <1>0, <1>1
    <3>2. r[M] = s[M]
      BY <3>1, <1>1
    <3> QED BY <3>1, <3>2, <2>5, <2>6 DEF Arrives, F, r, w
  <2>7. CASE M = Len(s) + 1 /\ p = Len(t)
    <3>1. CASE form \in {"comment", "cut"}
      BY <3>1, <2>5, <2>7, <1>0, <1>1 DEF Arrives, F, r, w
    <3>2. CASE form \in Lead
      <4>1. PICK it2, of2 : /\ Labelled(r, F, Len(F), it2, of2)
                            /\ it2[Len(F) + 1] = Len(s) + 2 /\ it2[1] = it[1]
                            /\ \A i \in 1 .. p + 1 : it2[i] = it[i]
                            /\ \A i \in p + 1 .. Len(F) : it2[i] = Len(s) + 1
        BY <2>7, <2>9
      <4>2. ASSUME NEW i \in 1 .. Len(F) PROVE it2[i + 1] <= it2[i] + 1
        <5>1. CASE i <= p
          <6>1. i \in 1 .. p /\ i \in 1 .. p + 1 /\ i + 1 \in 1 .. p + 1
            BY <5>1, <2>4
          <6> QED BY <6>1, <4>1, <2>3
        <5>2. CASE ~(i <= p) /\ i < Len(F)
          <6>1. i \in p + 1 .. Len(F) /\ i + 1 \in p + 1 .. Len(F)
            BY <5>2, <2>4, <1>0, <1>4
          <6>2. it2[i] = Len(s) + 1 /\ it2[i + 1] = Len(s) + 1
            BY <6>1, <4>1
          <6> QED BY <6>2, <1>0
        <5>3. CASE ~(i <= p) /\ ~(i < Len(F))
          <6>1. i \in p + 1 .. Len(F) /\ i = Len(F)
            BY <5>3, <2>4, <1>0, <1>4
          <6>2. it2[i] = Len(s) + 1 /\ it2[i + 1] = Len(s) + 2
            BY <6>1, <4>1
          <6> QED BY <6>2, <1>0
        <5> QED BY <5>1, <5>2, <5>3
      <4>3. LeadBefore(r, M + 1)
        <5>1. \A n \in 1 .. M + 1 - 1 : n \in 1 .. M - 1 \/ n = Len(s) + 1
          BY <2>4, <2>7, <1>0
        <5> QED BY <5>1, <3>2, <2>4, <1>1 DEF LeadBefore
      <4>4. M + 1 = Len(r) + 1 /\ M + 1 \in 1 .. Len(r) + 1 /\ M + 1 = Len(s) + 2
        BY <2>7, <2>4, <1>0, <1>1
      <4>5. Leading(r, F, lo, M + 1, Len(F), it2, of2)
        BY <4>1, <4>2, <4>4, <2>3 DEF Leading
      <4>6. LeadFrom(r, F, lo, M + 1)
        BY <4>5 DEF LeadFrom
      <4>7. Coming(r, frames, F)
        BY <4>3, <4>4, <4>6, <2>4 DEF Coming
      <4> QED BY <4>7 DEF Arrives, F, r, w
    <3>3. form # "rest"
      <4>1. ASSUME Len(s) >= 1, s[Len(s)] = "cut" PROVE FALSE
        <5>1. Len(s) \in 1 .. M - 1
          BY <4>1, <2>7, <1>0
        <5>2. s[Len(s)] \in Lead
          BY <5>1, <2>1 DEF LeadBefore
        <5> QED BY <5>2, <4>1 DEF Lead
      <4> QED BY <4>1
    <3> QED BY <3>1, <3>2, <3>3, KindsAre DEF Framed, Lead
  <2> QED BY <2>3, <2>6, <2>7
<1> QED BY <1>6, <1>7 DEF Arrives

\* All of the merged writes were read and drained.
LEMMA MergedAll ==
  ASSUME NEW s, PlainWrites(s), NEW t \in Text, NEW frames, Merged(s, frames, t),
         Sse!FrameEnd(t) = {}, Sse!NextCompleteComment(t) = {}
  PROVE  t = <<>>
<1> DEFINE u == <<>>
<1>0. t \o u = t /\ u \in Text /\ Len(t) \in Nat
  BY JoinEmpty, EmptyText, Texts
<1> HIDE DEF u
<1>1. PICK it, of : Labelled(s, t, Len(t), it, of)
  BY DEF Merged, MergedFrom
<1>2. ASSUME Len(t) >= 1 PROVE FALSE
  <2>1. 1 \in 1 .. Len(t)
    BY <1>0, <1>2
  <2>2. it[1] \in 1 .. Len(s)
    BY <2>1, <1>1, LabelTypes
  <2>3. s[it[1]] \in Plain
    BY <2>2 DEF PlainWrites
  <2>4. Len(WriteAt(s, it[1])) \in 1 .. Len(t)
    BY <1>1, <1>2, FirstWrite
  <2>5. Len(t) >= Len(WriteAt(s, it[1]))
    BY <2>4, <1>0
  <2>6. Labelled(s, t \o u, Len(t), it, of)
    BY <1>0, <1>1
  <2> QED BY <2>3, <2>5, <2>6, <1>0, <1>2, FirstWhole
<1>3. Len(t) = 0
  BY <1>0, <1>2
<1> QED BY <1>3, EmptySeq DEF Text

\* All writes were read: the frames before the first comment have arrived.
LEMMA ArrivesAll ==
  ASSUME NEW s \in Writes, NEW t \in Text, NEW frames, Arrives(s, frames, t),
         Sse!FrameEnd(t) = {}, Sse!NextCompleteComment(t) = {}
  PROVE  Passed(s, frames) \/ (t = <<>> /\ frames = UpTo(s, Len(s)))
<1> DEFINE u == <<>>
<1>0. t \o u = t /\ u \in Text /\ Len(t) \in Nat /\ Len(s) \in Nat
  BY JoinEmpty, EmptyText, Texts, WritesLen
<1> HIDE DEF u
<1>1. ASSUME Coming(s, frames, t)
      PROVE  Passed(s, frames) \/ (t = <<>> /\ frames = UpTo(s, Len(s)))
  <2>1. PICK lo \in 0 .. Len(s), M \in 1 .. Len(s) + 1 :
          LeadBefore(s, M) /\ frames = UpTo(s, lo) /\ LeadFrom(s, t, lo, M)
    BY <1>1 DEF Coming
  <2>2. PICK p, it, of : Leading(s, t, lo, M, p, it, of)
    BY <2>1 DEF LeadFrom
  <2>3. /\ Labelled(s, t, p, it, of) /\ it[1] = lo + 1 /\ it[p + 1] = M
        /\ (M = Len(s) + 1 /\ p = Len(t)) \/ (M <= Len(s) /\ s[M] \in {"comment", "cut"})
    BY <2>2 DEF Leading
  <2>4. p \in Nat /\ p <= Len(t) /\ M \in Nat /\ lo \in Nat
    <3>1. p \in Nat /\ p <= Len(t)
      BY <2>3, LabelTypes
    <3> QED BY <3>1, <1>0
  <2>5. p = 0
    <3>1. ASSUME p >= 1 PROVE FALSE
      <4>1. 1 \in 1 .. p
        BY <3>1, <2>4
      <4>2. s[it[1]] \in Plain
        <5>1. s[it[1]] \in Lead
          BY <4>1, <2>1, <2>2, <2>4, LeadNoComment
        <5> QED BY <5>1 DEF Plain
      <4>3. Len(WriteAt(s, it[1])) \in 1 .. p
        BY <3>1, <2>3, FirstWrite
      <4>4. Len(t) >= Len(WriteAt(s, it[1]))
        BY <4>3, <2>4, <1>0
      <4>5. Labelled(s, t \o u, p, it, of)
        BY <1>0, <2>3
      <4> QED BY <4>2, <4>4, <4>5, <3>1, <1>0, FirstWhole
    <3> QED BY <3>1, <2>4
  <2>6. M = lo + 1
    BY <2>3, <2>5
  <2>7. CASE M = Len(s) + 1 /\ p = Len(t)
    <3>1. lo = Len(s) /\ Len(t) = 0
      BY <2>4, <2>5, <2>6, <2>7, <1>0
    <3>2. t = <<>>
      BY <3>1, EmptySeq DEF Text
    <3> QED BY <3>1, <3>2, <2>1
  <2>8. CASE M <= Len(s) /\ s[M] \in {"comment", "cut"}
    <3>1. M \in 1 .. Len(s) /\ M - 1 = lo
      BY <2>4, <2>6, <2>8, <1>0
    <3>2. UpTo(s, lo) \in Seq(Frames)
      BY UpToIs
    <3>3. Sse!IsPrefix(UpTo(s, M - 1), frames)
      BY <2>1, <3>1, <3>2, PrefixSelf
    <3> QED BY <3>1, <3>3, <2>1, <2>8 DEF Passed
  <2> QED BY <2>3, <2>7, <2>8
<1> QED BY <1>1 DEF Arrives

-----------------------------------------------------------------------------
(* Reads that merge no writes *)

\* The other half of a line follows its first half, and nothing else does.
Paired(s) == \A n \in 1 .. Len(s) : s[n] = "rest" <=> n > 1 /\ s[n - 1] = "cut"

\* What the first r writes leave in the buffer.
Held(s, r) == IF r = 0 THEN <<>> ELSE Left(s[r], r)

\* The first r writes were read, and what the buffer has of the next one is
\* missing in what is left of it to read.
Separate(s, unread, text, frames) ==
  \E r \in 0 .. Len(s) :
    /\ Len(unread) = Len(s) - r
    /\ \A j \in 2 .. Len(unread) : unread[j] = WriteAt(s, r + j)
    /\ frames = UpTo(s, r)
    /\ IF unread = <<>> THEN text = Held(s, r)
       ELSE text \o unread[1] = Whole(s[r + 1], r + 1)

NonEmpty == Text \ {<<>>}

LEMMA PairedFollows ==
  ASSUME NEW s, Paired(s)
  PROVE  RestFollowsCut(s)
BY DEF Paired, RestFollowsCut

\* The mailbox writes the other half of a line when it is due.
LEMMA PairedAppend ==
  ASSUME NEW s \in Writes, Paired(s), NEW form \in Sse!WriteKinds,
         form = "rest" <=> Len(s) >= 1 /\ s[Len(s)] = "cut"
  PROVE  Paired(Append(s, form))
<1> DEFINE r == Append(s, form)
<1>0. Len(s) \in Nat
  BY WritesLen
<1>1. Len(r) = Len(s) + 1 /\ (\A n \in 1 .. Len(s) : r[n] = s[n]) /\ r[Len(s) + 1] = form
  BY AppendWrite
<1> HIDE DEF r
<1>2. ASSUME NEW n \in 1 .. Len(s) PROVE r[n] = "rest" <=> n > 1 /\ r[n - 1] = "cut"
  <2>1. n > 1 => n - 1 \in 1 .. Len(s)
    BY <1>0
  <2> QED BY <2>1, <1>1 DEF Paired
<1>3. ASSUME NEW n, n = Len(s) + 1 PROVE r[n] = "rest" <=> n > 1 /\ r[n - 1] = "cut"
  <2>1. n - 1 = Len(s) /\ (n > 1 <=> Len(s) >= 1)
    BY <1>0, <1>3
  <2>2. Len(s) >= 1 => r[Len(s)] = s[Len(s)]
    BY <1>0, <1>1
  <2> QED BY <2>1, <2>2, <1>1, <1>3
<1>4. \A n \in 1 .. Len(r) : n \in 1 .. Len(s) \/ n = Len(s) + 1
  BY <1>0, <1>1
<1>5. Paired(r)
  BY <1>2, <1>3, <1>4 DEF Paired
<1> QED BY <1>5 DEF r

LEMMA HeldType ==
  ASSUME NEW s \in Writes, NEW r \in 0 .. Len(s)
  PROVE  Held(s, r) \in Text
<1>1. r \in Int /\ Len(s) \in Nat
  BY WritesLen
<1>2. Left("cut", r) \in Text
  <2> DEFINE w == <<Sse!Data, Sse!BlobHead(r), Sse!Lf>>
  <2>1. w \in Text
    BY <1>1, Tokens, Tuples
  <2> HIDE DEF w
  <2> QED BY <2>1 DEF Left, w
<1>3. \A form : form # "cut" => Left(form, r) \in Text
  BY EmptyText DEF Left
<1> QED BY <1>2, <1>3, EmptyText DEF Held

\* What is held and the next write are the whole of it.
LEMMA HeldWrite ==
  ASSUME NEW s \in Writes, Paired(s), NEW n \in 1 .. Len(s)
  PROVE  Held(s, n - 1) \o WriteAt(s, n) = Whole(s[n], n)
<1>0. Len(s) \in Nat /\ n \in Int /\ n - 1 \in 0 .. Len(s) /\ s[n] \in Sse!WriteKinds
  BY WritesLen
<1>1. WriteAt(s, n) \in Text /\ Whole(s[n], n) \in Text
  BY <1>0, WholeType DEF WriteAt
<1>2. CASE s[n] # "rest"
  <2>1. Held(s, n - 1) = <<>>
    BY <1>0, <1>2 DEF Held, Left, Paired
  <2>2. WriteAt(s, n) = Whole(s[n], n)
    BY <1>2 DEF WriteAt, Whole
  <2> QED BY <2>1, <2>2, <1>1, JoinEmpty
<1>3. CASE s[n] = "rest"
  <2> DEFINE d == Sse!Data
             h == Sse!BlobHead(n - 1)
             l == Sse!Lf
             g == Sse!BlobTail(n - 1)
             c == Sse!Cr
             t == <<d, h, l>>
             u == <<g, c, l, c, l>>
             w == <<d, h, l, g, c, l, c, l>>
  <2>1. Held(s, n - 1) = t
    <3>1. n > 1 /\ s[n - 1] = "cut"
      BY <1>3 DEF Paired
    <3>2. n - 1 # 0
      BY <1>0, <3>1
    <3> QED BY <3>1, <3>2 DEF Held, Left
  <2>2. WriteAt(s, n) = u /\ Whole(s[n], n) = w
    BY <1>3, WholeIs DEF WriteAt
  <2>3. d \in Token /\ h \in Token /\ l \in Token /\ g \in Token /\ c \in Token
    <3>1. n - 1 \in Int
      BY <1>0
    <3> QED BY <3>1, Tokens
  <2> HIDE DEF d, h, l, g, c
  <2>4. t \in Text /\ u \in Text /\ w \in Text
    BY <2>3, Tuples
  <2>5. Len(t) = 3 /\ t[1] = d /\ t[2] = h /\ t[3] = l
    OBVIOUS
  <2>6. Len(u) = 5 /\ u[1] = g /\ u[2] = c /\ u[3] = l /\ u[4] = c /\ u[5] = l
    OBVIOUS
  <2>7. Len(w) = 8 /\ w[1] = d /\ w[2] = h /\ w[3] = l /\ w[4] = g /\ w[5] = c /\ w[6] = l
        /\ w[7] = c /\ w[8] = l
    OBVIOUS
  <2> HIDE DEF t, u, w
  <2> DEFINE F == t \o u
  <2>8. /\ F \in Text /\ Len(F) = 8
        /\ \A i \in 1 .. 3 : F[i] = t[i]
        /\ \A i \in 1 .. 5 : F[3 + i] = u[i]
    <3>1. /\ F \in Text /\ Len(F) = Len(t) + Len(u)
          /\ \A i \in 1 .. Len(t) : F[i] = t[i]
          /\ \A i \in 1 .. Len(u) : F[Len(t) + i] = u[i]
      BY <2>4, JoinIs
    <3> HIDE DEF F
    <3> QED BY <3>1, <2>5, <2>6
  <2>9. F[1] = d /\ F[2] = h /\ F[3] = l
    <3> HIDE DEF F
    <3> QED BY <2>5, <2>8
  <2>10. F[4] = g /\ F[5] = c /\ F[6] = l /\ F[7] = c /\ F[8] = l
    <3> HIDE DEF F
    <3>1. F[3 + 1] = u[1] /\ F[3 + 2] = u[2] /\ F[3 + 3] = u[3] /\ F[3 + 4] = u[4] /\ F[3 + 5] = u[5]
      BY <2>8
    <3> QED BY <3>1, <2>6
  <2> HIDE DEF F
  <2>11. \A i \in 1 .. Len(F) : F[i] = w[i]
    <3>1. \A i \in 1 .. 8 : i \in {1, 2, 3, 4, 5, 6, 7, 8}
      OBVIOUS
    <3> QED BY <3>1, <2>7, <2>8, <2>9, <2>10
  <2>12. F = w
    BY <2>4, <2>7, <2>8, <2>11, SeqEqual DEF Text
  <2> QED BY <2>1, <2>2, <2>12 DEF F
<1> QED BY <1>2, <1>3

\* The frames of the first writes are in order.
LEMMA UpToInOrder ==
  ASSUME NEW s \in Writes, Paired(s), NEW n \in 0 .. Len(s)
  PROVE  InOrder(UpTo(s, n), n, s)
<1> DEFINE bad == {m \in 0 .. Len(s) : ~InOrder(UpTo(s, m), m, s)}
<1>0. Len(s) \in Nat
  BY WritesLen
<1>1. ASSUME NEW m \in bad, \A j \in bad : m <= j PROVE FALSE
  <2>1. m # 0
    BY UpToIs, InOrderNone
  <2>2. m - 1 \in 0 .. Len(s) /\ m - 1 \in Nat /\ m \in 1 .. Len(s) /\ m - 1 < m
    BY <2>1, <1>0
  <2>3. InOrder(UpTo(s, m - 1), m - 1, s)
    BY <2>2, <1>1
  <2> DEFINE x == UpTo(s, m - 1)
             l == m - 1
  <2>4. x \in Seq(Frames) /\ UpTo(s, m) = x \o Handed(s[m], m)
    BY <2>2, UpToIs
  <2>5. l \in Nat /\ InOrder(x, l, s) /\ l < m /\ RestFollowsCut(s)
    BY <2>2, <2>3, PairedFollows
  <2> HIDE DEF x, l
  <2>6. InOrder(x \o Handed(s[m], m), m, s)
    BY <2>2, <2>4, <2>5, InOrderHanded
  <2> QED BY <2>4, <2>6
<1>2. bad \in SUBSET Nat
  BY <1>0
<1> HIDE DEF bad
<1>3. bad = {}
  BY <1>1, <1>2, Smallest
<1> QED BY <1>3 DEF bad

-----------------------------------------------------------------------------
(* Reading part of a text *)

\* What a read takes and what it leaves are what was written.
LEMMA SplitText ==
  ASSUME NEW t \in Text, NEW n \in 1 .. Len(t)
  PROVE  LET a == SubSeq(t, 1, n)
             b == SubSeq(t, n + 1, Len(t))
         IN  /\ a \in Text /\ Len(a) = n /\ b \in Text /\ Len(b) = Len(t) - n
             /\ a \o b = t /\ \A i \in 1 .. n : a[i] = t[i]
<1> DEFINE a == SubSeq(t, 1, n)
           b == SubSeq(t, n + 1, Len(t))
           F == a \o b
<1>0. Len(t) \in Nat /\ n \in Nat /\ n >= 1 /\ n <= Len(t) /\ \A i \in 1 .. Len(t) : t[i] \in Token
  BY Texts
<1>1. a \in Text /\ Len(a) = n /\ \A i \in 1 .. n : a[i] = t[i]
  <2>1. \A i \in 1 .. n : t[i] \in Token
    BY <1>0
  <2>2. /\ a \in Seq(Token) /\ Len(a) = IF 1 <= n THEN n - 1 + 1 ELSE 0
        /\ \A i \in 1 .. n - 1 + 1 : a[i] = t[1 + i - 1]
    BY <2>1, <1>0, SubSeqProperties
  <2> HIDE DEF a
  <2> QED BY <2>2, <1>0 DEF Text
<1>2. b \in Text /\ Len(b) = Len(t) - n /\ \A i \in 1 .. Len(t) - n : b[i] = t[n + i]
  <2>1. \A i \in n + 1 .. Len(t) : t[i] \in Token
    BY <1>0
  <2>2. /\ b \in Seq(Token) /\ Len(b) = IF n + 1 <= Len(t) THEN Len(t) - (n + 1) + 1 ELSE 0
        /\ \A i \in 1 .. Len(t) - (n + 1) + 1 : b[i] = t[n + 1 + i - 1]
    BY <2>1, <1>0, SubSeqProperties
  <2> HIDE DEF b
  <2> QED BY <2>2, <1>0 DEF Text
<1> HIDE DEF a, b
<1>3. /\ F \in Text /\ Len(F) = Len(a) + Len(b)
      /\ \A i \in 1 .. Len(a) : F[i] = a[i]
      /\ \A i \in 1 .. Len(b) : F[Len(a) + i] = b[i]
  BY <1>1, <1>2, JoinIs
<1> HIDE DEF F
<1>4. Len(F) = Len(t)
  BY <1>0, <1>1, <1>2, <1>3
<1>5. ASSUME NEW i \in 1 .. Len(F) PROVE F[i] = t[i]
  <2>1. CASE i <= n
    <3>1. i \in 1 .. n
      BY <2>1, <1>0, <1>4
    <3> QED BY <3>1, <1>1, <1>3
  <2>2. CASE ~(i <= n)
    <3> DEFINE j == i - n
    <3>1. j \in 1 .. Len(t) - n /\ i = n + j
      BY <2>2, <1>0, <1>4
    <3> HIDE DEF j
    <3> QED BY <3>1, <1>1, <1>2, <1>3
  <2> QED BY <2>1, <2>2
<1>6. F = t
  BY <1>3, <1>4, <1>5, SeqEqual DEF Text
<1> QED BY <1>1, <1>2, <1>6 DEF F, a, b

\* What is unread after n tokens of the first text were read.
LEMMA ReadWire ==
  ASSUME NEW W \in Seq(NonEmpty), W # <<>>, NEW n \in 1 .. Len(W[1])
  PROVE  LET v == Sse!Unread(Head(W), n) \o Tail(W)
         IN  /\ v \in Seq(NonEmpty)
             /\ n = Len(W[1]) => /\ Len(v) = Len(W) - 1
                                 /\ \A j \in 1 .. Len(W) - 1 : v[j] = W[j + 1]
             /\ n # Len(W[1]) => /\ Len(v) = Len(W)
                                 /\ v[1] = SubSeq(W[1], n + 1, Len(W[1]))
                                 /\ \A j \in 2 .. Len(W) : v[j] = W[j]
<1> DEFINE h == W[1]
           b == SubSeq(h, n + 1, Len(h))
           T == Tail(W)
           U == Sse!Unread(Head(W), n)
           v == U \o T
<1>0. Len(W) \in Nat /\ Len(W) >= 1 /\ Head(W) = h /\ h \in Text /\ h # <<>> /\ Len(h) \in Nat
  <2>1. Len(W) \in Nat /\ Len(W) # 0
    BY EmptySeq, LenProperties
  <2>2. Len(W) >= 1 /\ 1 \in 1 .. Len(W)
    BY <2>1
  <2>3. Head(W) = W[1] /\ W[1] \in NonEmpty
    BY <2>2, ElementOfSeq, HeadTailProperties
  <2> QED BY <2>1, <2>2, <2>3, Texts DEF NonEmpty
<1>1. T \in Seq(NonEmpty) /\ Len(T) = Len(W) - 1 /\ \A j \in 1 .. Len(W) - 1 : T[j] = W[j + 1]
  BY <1>0, HeadTailProperties
<1>2. b \in Text /\ Len(b) = Len(h) - n
  BY <1>0, SplitText
<1>3. n # Len(h) => b \in NonEmpty
  <2>1. ASSUME n # Len(h) PROVE Len(b) # 0
    <3>1. n \in Nat
      BY <1>0
    <3> QED BY <3>1, <2>1, <1>0, <1>2
  <2> QED BY <2>1, <1>2, EmptyText DEF NonEmpty
<1>4. U = IF n = Len(h) THEN <<>> ELSE <<b>>
  BY <1>0 DEF Sse!Unread
<1> HIDE DEF h, b, T, U
<1>5. CASE n = Len(h)
  <2>1. v = T
    BY <1>1, <1>4, <1>5, ConcatEmptySeq
  <2> HIDE DEF v
  <2>2. /\ v \in Seq(NonEmpty) /\ Len(v) = Len(W) - 1
        /\ \A j \in 1 .. Len(W) - 1 : v[j] = W[j + 1]
    BY <2>1, <1>1
  <2> QED BY <2>2, <1>5 DEF v, h, U, T
<1>6. CASE n # Len(h)
  <2> DEFINE o == <<b>>
  <2>1. o \in Seq(NonEmpty) /\ Len(o) = 1 /\ o[1] = b
    BY <1>3, <1>6
  <2>2. U = o
    BY <1>4, <1>6
  <2> HIDE DEF o
  <2> DEFINE V == o \o T
  <2>3. /\ V \in Seq(NonEmpty) /\ Len(V) = Len(o) + Len(T)
        /\ \A j \in 1 .. Len(o) + Len(T) : V[j] = IF j <= Len(o) THEN o[j] ELSE T[j - Len(o)]
    BY <2>1, <1>1, ConcatProperties, SMTT(30)
  <2> HIDE DEF V
  <2>4. Len(V) = Len(W) /\ V[1] = b
    BY <2>1, <2>3, <1>0, <1>1
  <2>5. ASSUME NEW j \in 2 .. Len(W) PROVE V[j] = W[j]
    <3>1. j \in 1 .. Len(o) + Len(T) /\ ~(j <= Len(o)) /\ j - Len(o) = j - 1
          /\ j - 1 \in 1 .. Len(W) - 1 /\ j - 1 + 1 = j
      BY <2>1, <1>0, <1>1
    <3>2. V[j] = T[j - 1]
      BY <3>1, <2>3
    <3>3. T[j - 1] = W[j - 1 + 1]
      BY <3>1, <1>1
    <3> QED BY <3>1, <3>2, <3>3
  <2>6. v = V
    BY <2>2 DEF V
  <2> HIDE DEF v
  <2> QED BY <2>3, <2>4, <2>5, <2>6, <1>6 DEF v, h, b, U, T
<1> QED BY <1>5, <1>6

\* A write that no read merges with another.
LEMMA SeparateWrite ==
  ASSUME NEW s \in Writes, NEW form \in Sse!WriteKinds, Paired(Append(s, form)),
         NEW W \in Seq(NonEmpty), NEW t, NEW frames, Separate(s, W, t, frames)
  PROVE  Separate(Append(s, form), Append(W, Sse!WriteOf(form, Len(s) + 1)), t, frames)
<1> DEFINE q == Append(s, form)
           w == Sse!WriteOf(form, Len(s) + 1)
           V == Append(W, w)
<1>0. Len(s) \in Nat /\ Len(W) \in Nat
  BY WritesLen, LenProperties
<1>1. /\ q \in Writes /\ Len(q) = Len(s) + 1 /\ q[Len(s) + 1] = form
      /\ \A n \in 1 .. Len(s) : q[n] = s[n]
  BY AppendWrite
<1>2. w \in NonEmpty
  BY <1>0, WholeType DEF NonEmpty
<1>3. WriteAt(q, Len(s) + 1) = w
  BY <1>1 DEF WriteAt
<1>4. \A n \in 1 .. Len(s) : WriteAt(q, n) = WriteAt(s, n)
  BY <1>1 DEF WriteAt
<1> HIDE DEF w
<1>5. /\ V \in Seq(NonEmpty) /\ Len(V) = Len(W) + 1 /\ V[Len(W) + 1] = w
      /\ \A j \in 1 .. Len(W) : V[j] = W[j]
  BY <1>0, <1>2, AppendProperties
<1>6. PICK r \in 0 .. Len(s) :
        /\ Len(W) = Len(s) - r
        /\ \A j \in 2 .. Len(W) : W[j] = WriteAt(s, r + j)
        /\ frames = UpTo(s, r)
        /\ IF W = <<>> THEN t = Held(s, r) ELSE t \o W[1] = Whole(s[r + 1], r + 1)
  BY DEF Separate
<1>7. UpTo(q, r) = UpTo(s, r)
  BY UpToAppend
<1>8. Paired(q)
  OBVIOUS
<1> HIDE DEF q, V
<1>9. r \in 0 .. Len(q) /\ Len(V) = Len(q) - r /\ V # <<>> /\ r \in Nat
  <2>1. r \in 0 .. Len(q) /\ Len(V) = Len(q) - r /\ Len(V) # 0 /\ r \in Nat
    BY <1>0, <1>1, <1>5, <1>6
  <2> QED BY <2>1, <1>5, EmptySeq
<1>10. ASSUME NEW j \in 2 .. Len(V) PROVE V[j] = WriteAt(q, r + j)
  <2>1. CASE j <= Len(W)
    <3>1. j \in 2 .. Len(W) /\ j \in 1 .. Len(W) /\ r + j \in 1 .. Len(s)
      BY <2>1, <1>0, <1>5, <1>6, <1>9
    <3> QED BY <3>1, <1>4, <1>5, <1>6
  <2>2. CASE ~(j <= Len(W))
    <3>1. j = Len(W) + 1 /\ r + j = Len(s) + 1
      BY <2>2, <1>0, <1>5, <1>6, <1>9
    <3> QED BY <3>1, <1>3, <1>5
  <2> QED BY <2>1, <2>2
<1>11. t \o V[1] = Whole(q[r + 1], r + 1)
  <2>1. CASE W = <<>>
    <3>1. Len(W) = 0 /\ r = Len(s) /\ V[1] = w /\ t = Held(s, r)
      <4>1. Len(W) = 0
        BY <2>1, EmptySeq
      <4>2. r = Len(s)
        BY <4>1, <1>0, <1>6, <1>9
      <4> QED BY <2>1, <4>1, <4>2, <1>5, <1>6
    <3>2. Held(q, r) = Held(s, r)
      <4>1. r # 0 => q[r] = s[r]
        BY <1>0, <1>1, <3>1
      <4> QED BY <4>1 DEF Held
    <3> DEFINE n == r + 1
    <3>3. n \in 1 .. Len(q) /\ n - 1 = r
      BY <3>1, <1>0, <1>1
    <3>4. WriteAt(q, n) = w
      BY <3>1, <1>3
    <3> HIDE DEF n
    <3>5. Held(q, n - 1) \o WriteAt(q, n) = Whole(q[n], n)
      BY <3>3, <1>1, <1>8, HeldWrite
    <3>6. t \o V[1] = Whole(q[n], n)
      BY <3>1, <3>2, <3>3, <3>4, <3>5
    <3> QED BY <3>6 DEF n
  <2>2. CASE W # <<>>
    <3>1. Len(W) # 0
      BY <2>2, EmptySeq
    <3>2. 1 \in 1 .. Len(W) /\ r + 1 \in 1 .. Len(s)
      BY <3>1, <1>0, <1>6, <1>9
    <3>3. V[1] = W[1] /\ q[r + 1] = s[r + 1]
      BY <3>2, <1>1, <1>5
    <3> QED BY <3>3, <2>2, <1>6
  <2> QED BY <2>1, <2>2
<1>12. Separate(q, V, t, frames)
  BY <1>6, <1>7, <1>9, <1>10, <1>11 DEF Separate
<1> QED BY <1>12 DEF q, V, w

\* A read that merges no writes: the write it completes is handed on, no other.
LEMMA SeparateRead ==
  ASSUME NEW s \in Writes, Paired(s), NEW W \in Seq(NonEmpty), W # <<>>,
         NEW t \in Text, NEW frames, Separate(s, W, t, frames), NEW n \in 1 .. Len(W[1])
  PROVE  LET e == Sse!Drain(t \o SubSeq(W[1], 1, n))
         IN  Separate(s, Sse!Unread(Head(W), n) \o Tail(W), e.rest, frames \o e.frames)
<1> DEFINE h == W[1]
           a == SubSeq(h, 1, n)
           b == SubSeq(h, n + 1, Len(h))
           V == Sse!Unread(Head(W), n) \o Tail(W)
           x == t \o a
           e == Sse!Drain(x)
<1>0. /\ Len(s) \in Nat /\ Len(W) \in Nat /\ Len(W) >= 1 /\ h \in Text /\ Len(h) \in Nat
      /\ Len(t) \in Nat
  <2>1. Len(W) \in Nat /\ Len(W) # 0
    BY EmptySeq, LenProperties
  <2>2. Len(W) >= 1 /\ 1 \in 1 .. Len(W)
    BY <2>1
  <2>3. W[1] \in NonEmpty
    BY <2>2, ElementOfSeq
  <2> QED BY <2>1, <2>2, <2>3, Texts, WritesLen DEF NonEmpty
<1>1. /\ V \in Seq(NonEmpty)
      /\ n = Len(h) => Len(V) = Len(W) - 1 /\ \A j \in 1 .. Len(W) - 1 : V[j] = W[j + 1]
      /\ n # Len(h) => /\ Len(V) = Len(W) /\ V[1] = b
                       /\ \A j \in 2 .. Len(W) : V[j] = W[j]
  BY ReadWire
<1>2. a \in Text /\ Len(a) = n /\ b \in Text /\ Len(b) = Len(h) - n /\ a \o b = h
      /\ \A i \in 1 .. n : a[i] = h[i]
  BY <1>0, SplitText
<1>3. PICK r \in 0 .. Len(s) :
        /\ Len(W) = Len(s) - r
        /\ \A j \in 2 .. Len(W) : W[j] = WriteAt(s, r + j)
        /\ frames = UpTo(s, r)
        /\ t \o h = Whole(s[r + 1], r + 1)
  BY DEF Separate
<1> HIDE DEF h, a, b, V
<1> DEFINE m == r + 1
           w == Whole(s[m], m)
<1>4. m \in 1 .. Len(s) /\ m \in Int /\ m - 1 = r /\ r \in Nat
  BY <1>0, <1>3
<1>5. s[m] \in Sse!WriteKinds /\ w \in Text /\ t \o h = w
  <2>1. s[m] \in Sse!WriteKinds
    BY <1>4, WritesLen
  <2> QED BY <2>1, <1>3, <1>4, WholeType
<1>6. /\ x \in Text /\ Len(x) = Len(t) + n
      /\ \A i \in 1 .. Len(t) : x[i] = t[i]
      /\ \A i \in 1 .. n : x[Len(t) + i] = h[i]
  <2>1. /\ x \in Text /\ Len(x) = Len(t) + Len(a)
        /\ \A i \in 1 .. Len(t) : x[i] = t[i]
        /\ \A i \in 1 .. Len(a) : x[Len(t) + i] = a[i]
    BY <1>2, JoinIs
  <2> HIDE DEF x
  <2> QED BY <2>1, <1>2
<1>7. frames \in Seq(Frames)
  BY <1>3, UpToIs
<1> HIDE DEF x, e, w
<1>8. CASE n # Len(h)
  <2>1. /\ Len(w) = Len(t) + Len(h)
        /\ \A i \in 1 .. Len(t) : w[i] = t[i]
        /\ \A i \in 1 .. Len(h) : w[Len(t) + i] = h[i]
    <3>1. /\ Len(t \o h) = Len(t) + Len(h)
          /\ \A i \in 1 .. Len(t) : (t \o h)[i] = t[i]
          /\ \A i \in 1 .. Len(h) : (t \o h)[Len(t) + i] = h[i]
      BY <1>0, JoinIs
    <3> QED BY <3>1, <1>5
  <2>2. Len(x) < Len(w)
    BY <2>1, <1>0, <1>6, <1>8 DEF h
  <2>3. ASSUME NEW i \in 1 .. Len(x) PROVE x[i] = w[i]
    <3>1. CASE i <= Len(t)
      <4>1. i \in 1 .. Len(t)
        BY <3>1, <1>0, <1>6
      <4> QED BY <4>1, <2>1, <1>6
    <3>2. CASE ~(i <= Len(t))
      <4> DEFINE j == i - Len(t)
      <4>1. j \in 1 .. n /\ j \in 1 .. Len(h) /\ i = Len(t) + j
        BY <3>2, <1>0, <1>6 DEF h
      <4> HIDE DEF j
      <4> QED BY <4>1, <2>1, <1>6
    <3> QED BY <3>1, <3>2
  <2>4. Sse!FrameEnd(x) = {} /\ Sse!NextCompleteComment(x) = {}
    BY <2>2, <2>3, <1>4, <1>5, <1>6, PartIs DEF w
  <2>5. e = [frames |-> <<>>, rest |-> x]
    BY <2>4, <1>6, DrainStill DEF e
  <2>6. e.rest = x /\ frames \o e.frames = frames
    <3>1. frames \o <<>> = frames
      BY <1>7, ConcatEmptySeq
    <3> QED BY <3>1, <2>5
  <2>7. x \o b = w
    <3>1. t \o (a \o b) = (t \o a) \o b
      BY <1>2, JoinAssoc
    <3> QED BY <3>1, <1>2, <1>5 DEF x
  <2>8. Len(V) = Len(W) /\ V[1] = b /\ (\A j \in 2 .. Len(W) : V[j] = W[j]) /\ V # <<>>
    <3>1. Len(V) = Len(W) /\ V[1] = b /\ (\A j \in 2 .. Len(W) : V[j] = W[j])
      BY <1>1, <1>8
    <3>2. Len(V) # 0
      BY <3>1, <1>0
    <3> QED BY <3>1, <3>2, EmptySeq
  <2>9. x \o V[1] = Whole(s[r + 1], r + 1)
    BY <2>7, <2>8 DEF w
  <2> HIDE DEF m
  <2>10. Separate(s, V, x, frames)
    BY <2>8, <2>9, <1>3 DEF Separate
  <2> QED BY <2>6, <2>10 DEF e, x, V, a, h
<1>9. CASE n = Len(h)
  <2>1. x = w
    <3>1. Len(b) = 0
      BY <1>0, <1>2, <1>9
    <3>2. b = <<>>
      BY <3>1, <1>2, EmptySeq DEF Text
    <3>3. a = h
      BY <3>2, <1>2, JoinEmpty
    <3> QED BY <3>3, <1>5 DEF x
  <2>2. e = [frames |-> Handed(s[m], m), rest |-> Left(s[m], m)]
    BY <2>1, <1>4, <1>5, DrainWhole DEF e, w
  <2>3. e.frames = Handed(s[m], m) /\ e.rest = Held(s, m)
    <3>1. m # 0
      BY <1>4
    <3> QED BY <2>2, <3>1 DEF Held
  <2>4. frames \o e.frames = UpTo(s, m)
    <3> HIDE DEF m
    <3> QED BY <2>3, <1>3, <1>4, UpToIs
  <2>5. /\ V \in Seq(NonEmpty) /\ Len(V) = Len(W) - 1
        /\ \A j \in 1 .. Len(W) - 1 : V[j] = W[j + 1]
    BY <1>1, <1>9
  <2>6. Len(V) = Len(s) - m /\ m \in 0 .. Len(s)
    BY <2>5, <1>0, <1>3, <1>4
  <2>7. ASSUME NEW j \in 1 .. Len(V) PROVE V[j] = WriteAt(s, m + j)
    <3>1. j \in 1 .. Len(W) - 1 /\ j + 1 \in 2 .. Len(W) /\ r + (j + 1) = m + j
      BY <2>5, <1>0, <1>4
    <3>2. W[j + 1] = WriteAt(s, r + (j + 1))
      BY <3>1, <1>3
    <3> QED BY <3>1, <3>2, <2>5
  <2>8. ASSUME V # <<>> PROVE Held(s, m) \o V[1] = Whole(s[m + 1], m + 1)
    <3>1. Len(V) # 0
      BY <2>8, <2>5, EmptySeq
    <3>2. 1 \in 1 .. Len(V) /\ m + 1 \in 1 .. Len(s)
      BY <3>1, <2>5, <2>6, <1>0, <1>4
    <3> DEFINE l == m + 1
    <3>3. l \in 1 .. Len(s) /\ l - 1 = m /\ V[1] = WriteAt(s, l)
      BY <3>2, <2>7, <1>4
    <3> HIDE DEF l, m
    <3>4. Held(s, l - 1) \o WriteAt(s, l) = Whole(s[l], l)
      BY <3>3, HeldWrite
    <3> QED BY <3>3, <3>4 DEF l
  <2> HIDE DEF m
  <2>9. \A j \in 2 .. Len(V) : V[j] = WriteAt(s, m + j)
    <3>1. \A j \in 2 .. Len(V) : j \in 1 .. Len(V)
      OBVIOUS
    <3> QED BY <3>1, <2>7
  <2>10. Separate(s, V, e.rest, frames \o e.frames)
    BY <2>3, <2>4, <2>6, <2>8, <2>9 DEF Separate
  <2> QED BY <2>10 DEF e, x, V, a, h
<1> QED BY <1>8, <1>9

-----------------------------------------------------------------------------
(* The stream *)

\* What the buffer and the wire hold when reads merge writes.
Unseen == IF wire = <<>> THEN <<>> ELSE wire[1]

StreamTypes ==
  /\ coalesce \in BOOLEAN /\ ended \in BOOLEAN
  /\ sent \in Writes /\ Len(sent) <= MaxWrites /\ Paired(sent)
  /\ wire \in Seq(NonEmpty) /\ buf \in Text /\ out \in Seq(Frames)
  /\ Sse!FrameEnd(buf) = {} /\ Sse!NextCompleteComment(buf) = {}
  /\ ended => wire = <<>>
  /\ coalesce => Len(wire) <= 1

StreamKept ==
  /\ ~coalesce => Separate(sent, wire, buf, out)
  /\ coalesce /\ PlainWrites(sent) => Merged(sent, out, buf \o Unseen)
  /\ coalesce => Arrives(sent, out, buf \o Unseen)

StreamInv == StreamTypes /\ StreamKept

\* The invariant of the stream, to begin with.
LEMMA StreamInit == Sse!Init => StreamInv
<1> SUFFICES ASSUME Sse!Init PROVE StreamInv
  OBVIOUS
<1>1. /\ coalesce \in BOOLEAN /\ ended = FALSE
      /\ sent = <<>> /\ wire = <<>> /\ buf = <<>> /\ out = <<>>
  BY DEF Sse!Init
<1>2. StreamTypes
  <2>1. MaxWrites \in Nat
    BY MCWrites DEF Sse!WritesAssumption
  <2>2. <<>> \in Writes /\ Len(<<>>) = 0
    BY NothingWritten
  <2>3. Paired(<<>>)
    BY <2>2 DEF Paired
  <2>4. <<>> \in Seq(NonEmpty) /\ <<>> \in Seq(Frames)
    BY EmptySeq
  <2>5. Len(sent) <= MaxWrites /\ Len(wire) <= 1
    BY <1>1, <2>1, <2>2
  <2> QED BY <1>1, <2>2, <2>3, <2>4, <2>5, EmptyText DEF StreamTypes
<1>3. Separate(<<>>, <<>>, <<>>, <<>>)
  <2> DEFINE s == <<>>
             W == <<>>
             t == <<>>
             f == <<>>
  <2>1. s \in Writes /\ Len(s) = 0 /\ Len(W) = 0 /\ W = <<>>
    BY NothingWritten
  <2>2. t = Held(s, 0)
    BY DEF Held
  <2> HIDE DEF s, W, t
  <2>3. f = UpTo(s, 0)
    BY <2>1, UpToIs
  <2> HIDE DEF f
  <2>4. 0 \in 0 .. Len(s) /\ Len(W) = Len(s) - 0 /\ \A j \in 2 .. Len(W) : W[j] = WriteAt(s, 0 + j)
    BY <2>1
  <2>5. Separate(s, W, t, f)
    BY <2>1, <2>2, <2>3, <2>4 DEF Separate
  <2> QED BY <2>5 DEF s, W, t, f
<1>4. buf \o Unseen = <<>>
  <2>1. <<>> \o <<>> = <<>>
    BY EmptyText, JoinEmpty
  <2> QED BY <2>1, <1>1 DEF Unseen
<1> QED BY <1>1, <1>2, <1>3, <1>4, NothingWritten DEF StreamInv, StreamKept

\* The mailbox writes.
LEMMA StreamWrite ==
  ASSUME StreamInv, NEW form \in Sse!WriteKinds, Sse!Write(form)
  PROVE  StreamInv'
<1> DEFINE w == Sse!WriteOf(form, Len(sent) + 1)
           s == Append(sent, form)
<1>0. /\ StreamTypes /\ StreamKept /\ Len(sent) \in Nat /\ Len(wire) \in Nat
  <2>1. StreamTypes /\ StreamKept
    BY DEF StreamInv
  <2> QED BY <2>1, WritesLen, LenProperties DEF StreamTypes
<1>1. /\ ~ended /\ Len(sent) < MaxWrites /\ (form = "rest" <=> Sse!CutOpen)
      /\ sent' = s
      /\ wire' = IF coalesce /\ wire # <<>> THEN <<Head(wire) \o w>> ELSE Append(wire, w)
      /\ coalesce' = coalesce /\ buf' = buf /\ out' = out /\ ended' = ended
  BY DEF Sse!Write
<1>2. /\ sent \in Writes /\ Paired(sent) /\ wire \in Seq(NonEmpty) /\ buf \in Text
      /\ out \in Seq(Frames) /\ coalesce \in BOOLEAN /\ (coalesce => Len(wire) <= 1)
  BY <1>0 DEF StreamTypes
<1>3. form = "rest" <=> Len(sent) >= 1 /\ sent[Len(sent)] = "cut"
  <2>1. sent # <<>> <=> Len(sent) >= 1
    <3>1. sent # <<>> <=> Len(sent) # 0
      BY <1>2, EmptySeq DEF Writes
    <3> QED BY <3>1, <1>0
  <2> QED BY <2>1, <1>1 DEF Sse!CutOpen, Sse!Last
<1>4. s \in Writes /\ Len(s) = Len(sent) + 1 /\ Paired(s)
      /\ \A n \in 1 .. Len(sent) : s[n] = sent[n]
  BY <1>2, <1>3, AppendWrite, PairedAppend
<1>5. w \in Text /\ w # <<>> /\ w \in NonEmpty
  BY <1>0, WholeType DEF NonEmpty
<1>6. Head(wire) = wire[1] /\ (wire # <<>> => wire[1] \in NonEmpty)
  <2>1. wire # <<>> => wire[1] \in NonEmpty
    <3>1. wire # <<>> => Len(wire) # 0
      BY <1>2, EmptySeq
    <3>2. wire # <<>> => 1 \in 1 .. Len(wire)
      BY <3>1, <1>0
    <3> QED BY <3>2, <1>2, ElementOfSeq
  <2> QED BY <2>1
<1> HIDE DEF w, s
<1>7. CASE ~coalesce
  <2>1. wire' = Append(wire, w) /\ wire' \in Seq(NonEmpty)
    BY <1>1, <1>2, <1>5, <1>7, AppendProperties
  <2>2. Separate(sent, wire, buf, out)
    BY <1>0, <1>7 DEF StreamKept
  <2>3. Separate(s, Append(wire, w), buf, out)
    BY <2>2, <1>2, <1>4, SeparateWrite DEF s, w
  <2>4. StreamTypes'
    <3>1. Len(s) <= MaxWrites
      <4>1. MaxWrites \in Nat
        BY MCWrites DEF Sse!WritesAssumption
      <4> QED BY <4>1, <1>0, <1>1, <1>4
    <3>2. ended' = FALSE /\ coalesce' = FALSE
      BY <1>1, <1>2, <1>7, <1>0 DEF StreamTypes
    <3> QED BY <3>1, <3>2, <1>0, <1>1, <1>4, <2>1 DEF StreamTypes
  <2>5. StreamKept'
    BY <1>1, <1>7, <2>1, <2>3 DEF StreamKept
  <2> QED BY <2>4, <2>5 DEF StreamInv
<1>8. CASE coalesce
  <2> DEFINE t == buf \o Unseen
  <2>1. /\ wire' \in Seq(NonEmpty) /\ Len(wire') = 1 /\ Unseen \in Text
        /\ wire' # <<>> /\ wire'[1] = Unseen \o w
    <3>1. CASE wire = <<>>
      <4>1. wire' = Append(wire, w) /\ Unseen = <<>> /\ Len(wire) = 0
        BY <1>1, <3>1, EmptySeq DEF Unseen
      <4> DEFINE V == Append(wire, w)
      <4>2. V \in Seq(NonEmpty) /\ Len(V) = Len(wire) + 1 /\ V[Len(wire) + 1] = w
        BY <1>2, <1>5, AppendProperties
      <4> HIDE DEF V
      <4>3. Len(V) = 1 /\ V[1] = w
        BY <4>1, <4>2
      <4>4. V # <<>>
        BY <4>2, <4>3, EmptySeq
      <4>5. Unseen \o w = w /\ Unseen \in Text
        BY <4>1, <1>5, JoinEmpty, EmptyText
      <4> QED BY <4>1, <4>2, <4>3, <4>4, <4>5 DEF V
    <3>2. CASE wire # <<>>
      <4>1. wire' = <<wire[1] \o w>> /\ Unseen = wire[1] /\ wire[1] \in Text /\ wire[1] # <<>>
        BY <1>1, <1>6, <1>8, <3>2 DEF Unseen, NonEmpty
      <4> DEFINE h == wire[1]
      <4> HIDE DEF h
      <4>2. h \in Text /\ wire' = <<h \o w>>
        BY <4>1 DEF h
      <4> DEFINE x == h \o w
      <4>3. x \in Text /\ Len(x) = Len(h) + Len(w)
        BY <4>2, <1>5, JoinIs
      <4> HIDE DEF x
      <4>4. x # <<>>
        <5>1. Len(w) # 0
          BY <1>5, EmptySeq DEF Text
        <5>2. Len(x) # 0
          BY <5>1, <4>2, <4>3, <1>5, Texts
        <5> QED BY <5>2, EmptyText
      <4>5. <<x>> \in Seq(NonEmpty) /\ Len(<<x>>) = 1 /\ <<x>> # <<>> /\ <<x>>[1] = x
        BY <4>3, <4>4 DEF NonEmpty
      <4> QED BY <4>1, <4>2, <4>5 DEF x, h
    <3> QED BY <3>1, <3>2
  <2>2. t \in Text /\ buf' \o Unseen' = t \o w
    <3>1. t \in Text
      BY <2>1, <1>2, JoinIs
    <3>2. Unseen' = wire'[1]
      BY <2>1 DEF Unseen
    <3>3. buf \o (Unseen \o w) = (buf \o Unseen) \o w
      BY <2>1, <1>2, <1>5, JoinAssoc
    <3> QED BY <3>1, <3>2, <3>3, <2>1, <1>1
  <2> HIDE DEF t
  <2>3. StreamTypes'
    <3>1. Len(s) <= MaxWrites
      <4>1. MaxWrites \in Nat
        BY MCWrites DEF Sse!WritesAssumption
      <4> QED BY <4>1, <1>0, <1>1, <1>4
    <3>2. Len(wire') <= 1
      BY <2>1
    <3> QED BY <3>1, <3>2, <1>0, <1>1, <1>4, <2>1 DEF StreamTypes
  <2>4. Arrives(s, out, t \o w)
    <3>1. Arrives(sent, out, t)
      BY <1>0, <1>8 DEF StreamKept, t
    <3> QED BY <3>1, <1>2, <1>3, <2>2, ArrivesWrite DEF s, w
  <2>5. ASSUME PlainWrites(s) PROVE Merged(s, out, t \o w)
    <3>1. PlainWrites(sent)
      <4>1. \A n \in 1 .. Len(sent) : n \in 1 .. Len(s)
        BY <1>0, <1>4
      <4> QED BY <4>1, <1>4, <2>5 DEF PlainWrites
    <3>2. Merged(sent, out, t)
      BY <3>1, <1>0, <1>8 DEF StreamKept, t
    <3> QED BY <3>2, <1>2, <2>2, MergedWrite DEF s, w
  <2>6. StreamKept'
    BY <1>1, <1>8, <2>2, <2>4, <2>5 DEF StreamKept
  <2> QED BY <2>3, <2>6 DEF StreamInv
<1> QED BY <1>2, <1>7, <1>8

\* The pump reads and drains.
LEMMA StreamRead ==
  ASSUME StreamInv, Sse!Read
  PROVE  StreamInv'
<1>0. StreamTypes /\ StreamKept
  BY DEF StreamInv
<1>1. /\ sent \in Writes /\ Paired(sent) /\ wire \in Seq(NonEmpty) /\ buf \in Text
      /\ out \in Seq(Frames) /\ coalesce \in BOOLEAN /\ (coalesce => Len(wire) <= 1)
      /\ wire # <<>> /\ ended \in BOOLEAN /\ (ended => wire = <<>>)
  BY <1>0 DEF StreamTypes, Sse!Read
<1>2. PICK n \in DOMAIN Head(wire) :
        /\ Sse!Pump(SubSeq(Head(wire), 1, n))
        /\ wire' = Sse!Unread(Head(wire), n) \o Tail(wire)
  BY DEF Sse!Read
<1>3. coalesce' = coalesce /\ sent' = sent /\ ended' = ended
  BY DEF Sse!Read
<1> DEFINE h == wire[1]
           a == SubSeq(h, 1, n)
           b == SubSeq(h, n + 1, Len(h))
           x == buf \o a
           e == Sse!Drain(x)
           V == Sse!Unread(Head(wire), n) \o Tail(wire)
<1>4. Head(wire) = h /\ h \in Text /\ n \in 1 .. Len(h) /\ Len(wire) \in Nat /\ Len(wire) >= 1
      /\ Len(h) \in Nat
  <2>1. Len(wire) \in Nat /\ Len(wire) # 0
    BY <1>1, EmptySeq, LenProperties
  <2>2. Len(wire) >= 1 /\ 1 \in 1 .. Len(wire)
    BY <2>1
  <2>3. h \in NonEmpty
    BY <2>2, <1>1, ElementOfSeq
  <2>4. h \in Text /\ Head(wire) = h
    BY <2>3 DEF NonEmpty
  <2> QED BY <2>1, <2>2, <2>4, <1>2, Texts
<1>5. a \in Text /\ b \in Text /\ a \o b = h /\ Len(b) = Len(h) - n
  BY <1>4, SplitText
<1>6. V \in Seq(NonEmpty)
      /\ (n = Len(h) => Len(V) = Len(wire) - 1)
      /\ (n # Len(h) => Len(V) = Len(wire) /\ V[1] = b)
  BY <1>1, <1>4, ReadWire
<1>7. buf' = e.rest /\ out' = out \o e.frames /\ wire' = V
  <2>1. Head(wire) = h
    BY <1>4
  <2>2. Sse!Pump(a)
    BY <1>2, <2>1
  <2> HIDE DEF a
  <2> QED BY <1>2, <2>2 DEF Sse!Pump
<1> HIDE DEF h, a, b, V
<1>8. x \in Text
  BY <1>1, <1>5, JoinIs
<1> HIDE DEF x
<1>9. /\ e \in Drained /\ Sse!FrameEnd(e.rest) = {} /\ Sse!NextCompleteComment(e.rest) = {}
      /\ e.rest \in Text /\ e.frames \in Seq(Frames)
  BY <1>8, DrainType DEF Drained
<1> HIDE DEF e
<1>10. out' \in Seq(Frames)
  <2> DEFINE f == e.frames
  <2>1. f \in Seq(Frames) /\ out' = out \o f
    BY <1>7, <1>9
  <2> HIDE DEF f
  <2>2. out \o f \in Seq(Frames)
    BY <2>1, <1>1, ConcatProperties
  <2> QED BY <2>1, <2>2
<1>11. StreamTypes'
  <2>1. ~ended
    BY <1>1
  <2>2. coalesce => Len(V) <= 1
    <3>1. n \in Nat
      BY <1>4
    <3> QED BY <3>1, <1>1, <1>4, <1>6
  <2> QED BY <2>1, <2>2, <1>0, <1>3, <1>6, <1>7, <1>9, <1>10 DEF StreamTypes
<1>12. CASE ~coalesce
  <2>1. Separate(sent, wire, buf, out)
    BY <1>0, <1>12 DEF StreamKept
  <2>2. Separate(sent, V, e.rest, out \o e.frames)
    BY <2>1, <1>1, <1>4, SeparateRead DEF V, e, x, a, h
  <2>3. StreamKept'
    BY <2>2, <1>3, <1>7, <1>12 DEF StreamKept
  <2> QED BY <2>3, <1>11 DEF StreamInv
<1>13. CASE coalesce
  <2>1. Len(wire) = 1 /\ Unseen = h
    <3>1. Len(wire) = 1
      <4> DEFINE k == Len(wire)
      <4>1. coalesce => k <= 1
        BY <1>1
      <4>2. k <= 1
        BY <4>1, <1>13, Zenon
      <4>3. k \in Nat /\ k >= 1
        BY <1>4
      <4> HIDE DEF k
      <4>4. k = 1
        BY <4>2, <4>3
      <4> QED BY <4>4 DEF k
    <3>2. Unseen = h
      BY <1>1 DEF Unseen, h
    <3> QED BY <3>1, <3>2
  <2>2. Unseen' = b
    <3>1. CASE n = Len(h)
      <4>1. V = <<>>
        <5>1. Len(V) = 0
          BY <3>1, <2>1, <1>6
        <5> QED BY <5>1, <1>6, EmptySeq
      <4>2. b = <<>>
        <5>1. Len(b) = 0
          BY <3>1, <1>4, <1>5
        <5> QED BY <5>1, <1>5, EmptySeq DEF Text
      <4> QED BY <4>1, <4>2, <1>7 DEF Unseen
    <3>2. CASE n # Len(h)
      <4>1. Len(V) = 1 /\ V[1] = b
        BY <3>2, <2>1, <1>6
      <4>2. V # <<>>
        BY <4>1, <1>6, EmptySeq, SMTT(30)
      <4> QED BY <4>1, <4>2, <1>7 DEF Unseen
    <3> QED BY <3>1, <3>2
  <2>3. buf \o Unseen = x \o b
    <3>1. buf \o (a \o b) = (buf \o a) \o b
      BY <1>1, <1>5, JoinAssoc
    <3> QED BY <3>1, <2>1, <1>5 DEF x
  <2>4. Arrives(sent, out \o e.frames, e.rest \o b)
    <3>1. Arrives(sent, out, x \o b)
      BY <2>3, <1>0, <1>13 DEF StreamKept
    <3> QED BY <3>1, <1>1, <1>5, <1>8, ArrivesDrain DEF e
  <2>5. ASSUME PlainWrites(sent) PROVE Merged(sent, out \o e.frames, e.rest \o b)
    <3>1. Merged(sent, out, x \o b)
      BY <2>3, <2>5, <1>0, <1>13 DEF StreamKept
    <3> QED BY <3>1, <2>5, <1>1, <1>5, <1>8, MergedDrain DEF e
  <2>6. StreamKept'
    BY <2>2, <2>4, <2>5, <1>3, <1>7, <1>13 DEF StreamKept
  <2> QED BY <2>6, <1>11 DEF StreamInv
<1> QED BY <1>1, <1>12, <1>13

LEMMA TrimEmpty == Sse!Trim(<<>>) = <<>>
<1> DEFINE inked == {i \in DOMAIN <<>> : ~Sse!Blank(<<>>[i])}
<1>1. inked = {}
  BY EmptySeq
<1> QED BY <1>1 DEF Sse!Trim

\* What the end of the stream hands on of a text.
AtEnd(t) == IF Sse!Trim(t) = <<>> THEN <<>> ELSE Sse!Extracted(t)

LEMMA LastType ==
  ASSUME NEW t \in Text
  PROVE  AtEnd(t) \in Seq(Frames) /\ AtEnd(<<>>) = <<>>
BY ExtractedType, TrimEmpty, EmptySeq DEF AtEnd

LEMMA FramesJoin ==
  ASSUME NEW f \in Seq(Frames), NEW g \in Seq(Frames)
  PROVE  f \o g \in Seq(Frames) /\ f \o <<>> = f
BY ConcatProperties, EmptySeq

\* The stream ends: nothing whole is left in the buffer.
LEMMA StreamEnd ==
  ASSUME StreamInv, Sse!EndOfStream
  PROVE  StreamInv'
<1>0. StreamTypes /\ StreamKept
  BY DEF StreamInv
<1> DEFINE g == AtEnd(buf)
           x == out \o g
<1>1. /\ sent \in Writes /\ Paired(sent) /\ wire \in Seq(NonEmpty) /\ buf \in Text
      /\ out \in Seq(Frames) /\ coalesce \in BOOLEAN
      /\ Sse!FrameEnd(buf) = {} /\ Sse!NextCompleteComment(buf) = {}
  BY <1>0 DEF StreamTypes
<1>2. /\ wire = <<>> /\ ~Sse!CutOpen
      /\ out' = x /\ buf' = <<>> /\ ended' = TRUE
      /\ coalesce' = coalesce /\ sent' = sent /\ wire' = wire
  BY DEF Sse!EndOfStream, AtEnd
<1>3. g \in Seq(Frames) /\ AtEnd(<<>>) = <<>>
  BY <1>1, LastType
<1> HIDE DEF g
<1>4. x \in Seq(Frames) /\ out \o <<>> = out
  BY <1>1, <1>3, FramesJoin
<1>5. buf = <<>> => x = out
  BY <1>3, <1>4 DEF g
<1> HIDE DEF x
<1>6. StreamTypes'
  <2>1. wire' = <<>>
    BY <1>2
  <2> QED BY <2>1, <1>0, <1>2, <1>4, EmptyText DEF StreamTypes
<1>7. Unseen = <<>> /\ Unseen' = <<>> /\ buf \o Unseen = buf /\ buf' \o Unseen' = <<>>
  <2>1. Unseen = <<>> /\ Unseen' = <<>>
    BY <1>2 DEF Unseen
  <2>2. buf \o <<>> = buf /\ <<>> \o <<>> = <<>>
    BY <1>1, EmptyText, JoinEmpty
  <2> QED BY <2>1, <2>2, <1>2
<1>8. CASE ~coalesce
  <2>1. Separate(sent, wire, buf, out)
    BY <1>0, <1>8 DEF StreamKept
  <2>2. buf = <<>>
    <3>1. PICK r \in 0 .. Len(sent) : Len(wire) = Len(sent) - r /\ buf = Held(sent, r)
      BY <2>1, <1>2 DEF Separate
    <3>2. Len(sent) \in Nat
      BY <1>1, WritesLen
    <3>3. r = Len(sent)
      <4>1. Len(wire) = 0
        BY <1>2, EmptySeq
      <4> QED BY <4>1, <3>1, <3>2
    <3>4. CASE r = 0
      BY <3>1, <3>4 DEF Held
    <3>5. CASE r # 0
      <4>1. sent # <<>>
        BY <3>3, <3>5, EmptySeq
      <4>2. sent[r] # "cut"
        BY <4>1, <1>2, <3>3 DEF Sse!CutOpen, Sse!Last
      <4> QED BY <4>2, <3>1, <3>5 DEF Held, Left
    <3> QED BY <3>4, <3>5
  <2>3. buf' = buf /\ out' = out /\ wire' = wire /\ sent' = sent /\ coalesce' = coalesce
    BY <2>2, <1>2, <1>5
  <2>4. StreamKept'
    BY <2>1, <2>3, <1>8 DEF StreamKept
  <2> QED BY <2>4, <1>6 DEF StreamInv
<1>9. CASE coalesce
  <2>1. Arrives(sent, out, buf)
    BY <1>0, <1>7, <1>9 DEF StreamKept
  <2>2. Arrives(sent, x, <<>>)
    <3>1. CASE Passed(sent, out)
      <4>1. Passed(sent, out \o g)
        BY <3>1, <1>1, <1>3, PassedMore
      <4> QED BY <4>1 DEF Arrives, x
    <3>2. CASE buf = <<>>
      BY <3>2, <2>1, <1>5
    <3> QED BY <3>1, <3>2, <2>1, <1>1, ArrivesAll
  <2>3. ASSUME PlainWrites(sent) PROVE Merged(sent, x, <<>>)
    <3>1. Merged(sent, out, buf)
      BY <2>3, <1>0, <1>7, <1>9 DEF StreamKept
    <3>2. buf = <<>>
      BY <3>1, <2>3, <1>1, MergedAll
    <3> QED BY <3>1, <3>2, <1>5
  <2>4. StreamKept'
    BY <2>2, <2>3, <1>2, <1>7, <1>9 DEF StreamKept
  <2> QED BY <2>4, <1>6 DEF StreamInv
<1> QED BY <1>1, <1>8, <1>9

LEMMA StreamStep == StreamInv /\ [Sse!Next]_sseVars => StreamInv'
<1> SUFFICES ASSUME StreamInv, [Sse!Next]_sseVars PROVE StreamInv'
  OBVIOUS
<1>1. ASSUME NEW form \in Sse!WriteKinds, Sse!Write(form) PROVE StreamInv'
  BY <1>1, StreamWrite
<1>2. ASSUME Sse!Read PROVE StreamInv'
  BY <1>2, StreamRead
<1>3. ASSUME Sse!EndOfStream PROVE StreamInv'
  BY <1>3, StreamEnd
<1>4. ASSUME UNCHANGED sseVars PROVE StreamInv'
  BY <1>4 DEF StreamInv, StreamTypes, StreamKept, Unseen, sseVars
<1> QED BY <1>1, <1>2, <1>3, <1>4 DEF Sse!Next

-----------------------------------------------------------------------------
(* What follows for the frames *)

LEMMA StreamTyped == StreamInv => Sse!TypeOK
<1> SUFFICES ASSUME StreamInv PROVE Sse!TypeOK
  OBVIOUS
<1>1. StreamTypes
  BY DEF StreamInv
<1>2. \A i \in DOMAIN wire : wire[i] # <<>>
  <2>1. wire \in Seq(NonEmpty)
    BY <1>1 DEF StreamTypes
  <2>2. \A i \in 1 .. Len(wire) : wire[i] \in NonEmpty
    BY <2>1, ElementOfSeq
  <2>3. DOMAIN wire = 1 .. Len(wire)
    BY <2>1, LenProperties
  <2> QED BY <2>2, <2>3 DEF NonEmpty
<1>3. \A i \in DOMAIN out : out[i] # <<>>
  <2>1. out \in Seq(Frames)
    BY <1>1 DEF StreamTypes
  <2>2. \A i \in 1 .. Len(out) : out[i] \in Frames
    BY <2>1, ElementOfSeq
  <2>3. DOMAIN out = 1 .. Len(out)
    BY <2>1, LenProperties
  <2> QED BY <2>2, <2>3 DEF Frames
<1> QED BY <1>1, <1>2, <1>3 DEF StreamTypes, Sse!TypeOK, Writes

\* Frames in order are the mailbox's, in order.
LEMMA InOrderWhole ==
  ASSUME NEW s \in Writes, NEW frames \in Seq(Frames), NEW lo \in Nat, lo <= Len(s),
         InOrder(frames, lo, s)
  PROVE  /\ \A k \in DOMAIN frames : \E n \in DOMAIN s : frames[k] = Sse!FrameOf(s[n], n)
         /\ \A j, k \in DOMAIN frames : j < k => frames[j][1][2] < frames[k][1][2]
<1>1. DOMAIN frames = 1 .. Len(frames) /\ DOMAIN s = 1 .. Len(s) /\ Len(s) \in Nat
  BY LenProperties, WritesLen
<1>2. \A n \in 1 .. lo : n \in 1 .. Len(s)
  BY <1>1
<1> QED BY <1>1, <1>2 DEF InOrder

\* The writes of a stream without cut lines are plain.
LEMMA NoCutPlain ==
  ASSUME NEW s \in Writes, Paired(s), "cut" \notin Sse!ToSet(s)
  PROVE  PlainWrites(s)
<1> SUFFICES ASSUME NEW n \in 1 .. Len(s) PROVE s[n] \in Plain
  BY DEF PlainWrites
<1>1. /\ Len(s) \in Nat /\ DOMAIN s = 1 .. Len(s) /\ s[n] \in Sse!WriteKinds
  BY WritesLen
<1>2. \A k \in 1 .. Len(s) : s[k] # "cut"
  BY <1>1 DEF Sse!ToSet
<1>3. s[n] # "rest"
  <2> SUFFICES ASSUME s[n] = "rest" PROVE FALSE
    OBVIOUS
  <2>1. n > 1 /\ s[n - 1] = "cut"
    BY DEF Paired
  <2>2. n - 1 \in 1 .. Len(s)
    BY <2>1, <1>1
  <2> QED BY <2>1, <2>2, <1>2
<1> QED BY <1>1, <1>2, <1>3, KindsAre DEF Plain, Framed, Lead

\* Whole frames, in order.
LEMMA StreamWhole == StreamInv => Sse!WholeFrames
<1> SUFFICES ASSUME StreamInv, ~coalesce \/ "cut" \notin Sse!ToSet(sent)
             PROVE  /\ \A k \in DOMAIN out : \E n \in DOMAIN sent : out[k] = Sse!FrameOf(sent[n], n)
                    /\ \A j, k \in DOMAIN out : j < k => out[j][1][2] < out[k][1][2]
  BY DEF Sse!WholeFrames
<1>0. StreamTypes /\ StreamKept
  BY DEF StreamInv
<1>1. /\ sent \in Writes /\ Paired(sent) /\ out \in Seq(Frames) /\ coalesce \in BOOLEAN
  BY <1>0 DEF StreamTypes
<1>2. Len(sent) \in Nat
  BY <1>1, WritesLen
<1>3. CASE ~coalesce
  <2>1. Separate(sent, wire, buf, out)
    BY <1>0, <1>3 DEF StreamKept
  <2>2. PICK r \in 0 .. Len(sent) : out = UpTo(sent, r)
    BY <2>1 DEF Separate
  <2>3. InOrder(out, r, sent)
    BY <2>2, <1>1, UpToInOrder
  <2>4. r \in Nat /\ r <= Len(sent)
    BY <1>2
  <2> QED BY <2>3, <2>4, <1>1, InOrderWhole
<1>4. CASE coalesce
  <2>1. PlainWrites(sent)
    BY <1>1, <1>4, NoCutPlain
  <2> DEFINE t == buf \o Unseen
  <2>2. Merged(sent, out, t)
    BY <2>1, <1>0, <1>4 DEF StreamKept
  <2> HIDE DEF t
  <2>3. PICK lo \in Nat : MergedFrom(sent, t, lo) /\ InOrder(out, lo, sent)
    BY <2>2 DEF Merged
  <2>4. PICK it, of : Labelled(sent, t, Len(t), it, of) /\ it[1] > lo /\ it[Len(t) + 1] = Len(sent) + 1
    BY <2>3 DEF MergedFrom
  <2> DEFINE p == Len(t)
  <2>5. p \in Nat /\ it[1] \in Nat
    <3>1. Len(t) \in Nat /\ \A i \in 1 .. Len(t) + 1 : it[i] \in Nat
      BY <2>4, LabelTypes
    <3> QED BY <3>1
  <2>6. it[1] <= it[p + 1]
    <3> HIDE DEF p
    <3>1. Labelled(sent, t, p, it, of)
      BY <2>4 DEF p
    <3>2. 1 \in 1 .. p + 1 /\ p + 1 \in 1 .. p + 1
      BY <2>5
    <3> QED BY <3>1, <3>2, LabelsRise
  <2>7. lo <= Len(sent)
    BY <2>4, <2>5, <2>6, <1>2
  <2> QED BY <2>3, <2>7, <1>1, InOrderWhole
<1> QED BY <1>1, <1>3, <1>4

\* Every frame as soon as it is complete, without merged reads.
LEMMA StreamInTime == StreamInv => Sse!EveryFrameInTime
<1> SUFFICES ASSUME StreamInv, ~coalesce, wire = <<>> PROVE out = Sse!FramesOf(sent)
  BY DEF Sse!EveryFrameInTime
<1>1. sent \in Writes /\ Separate(sent, wire, buf, out)
  BY DEF StreamInv, StreamTypes, StreamKept
<1>2. PICK r \in 0 .. Len(sent) : Len(wire) = Len(sent) - r /\ out = UpTo(sent, r)
  BY <1>1 DEF Separate
<1>3. Len(sent) \in Nat /\ Len(wire) = 0
  BY <1>1, WritesLen, EmptySeq
<1>4. r = Len(sent)
  BY <1>2, <1>3
<1> QED BY <1>1, <1>2, <1>4, UpToIs

\* No frame is lost before the first comment.
LEMMA StreamLosses == StreamInv => Sse!LostToComments
<1> SUFFICES ASSUME StreamInv, wire = <<>>, NEW m \in 0 .. Len(sent),
                    \A n \in 1 .. m : sent[n] \notin {"comment", "cut"}
             PROVE  Sse!IsPrefix(UpTo(sent, m), out)
  BY DEF Sse!LostToComments, UpTo
<1>0. StreamTypes /\ StreamKept
  BY DEF StreamInv
<1>1. /\ sent \in Writes /\ out \in Seq(Frames) /\ coalesce \in BOOLEAN /\ buf \in Text
      /\ Sse!FrameEnd(buf) = {} /\ Sse!NextCompleteComment(buf) = {}
  BY <1>0 DEF StreamTypes
<1>2. Len(sent) \in Nat
  BY <1>1, WritesLen
<1>3. ASSUME out = UpTo(sent, Len(sent)) PROVE Sse!IsPrefix(UpTo(sent, m), out)
  <2> DEFINE L == Len(sent)
  <2>1. L \in m .. Len(sent)
    BY <1>2
  <2> HIDE DEF L
  <2>2. Sse!IsPrefix(UpTo(sent, m), UpTo(sent, L))
    BY <2>1, <1>1, UpToGrows
  <2> QED BY <2>2, <1>3 DEF L
<1>4. CASE ~coalesce
  <2>1. out = UpTo(sent, Len(sent))
    <3>1. Sse!EveryFrameInTime
      BY StreamInTime
    <3> QED BY <3>1, <1>1, <1>4, UpToIs DEF Sse!EveryFrameInTime
  <2> QED BY <2>1, <1>3
<1>5. CASE coalesce
  <2>1. buf \o Unseen = buf
    <3>1. Unseen = <<>>
      BY DEF Unseen
    <3> QED BY <3>1, <1>1, JoinEmpty
  <2>2. Arrives(sent, out, buf)
    BY <2>1, <1>0, <1>5 DEF StreamKept
  <2>3. CASE Passed(sent, out)
    <3>1. PICK M \in 1 .. Len(sent) :
            sent[M] \in {"comment", "cut"} /\ Sse!IsPrefix(UpTo(sent, M - 1), out)
      BY <2>3 DEF Passed
    <3>2. m < M
      <4>1. M \notin 1 .. m
        BY <3>1
      <4> QED BY <4>1, <1>2
    <3> DEFINE k == M - 1
    <3>3. k \in m .. Len(sent) /\ k \in 0 .. Len(sent)
      BY <3>2, <1>2
    <3>4. Sse!IsPrefix(UpTo(sent, k), out)
      BY <3>1
    <3> HIDE DEF k
    <3>5. Sse!IsPrefix(UpTo(sent, m), UpTo(sent, k))
      BY <3>3, <1>1, UpToGrows
    <3>6. UpTo(sent, m) \in Seq(Frames) /\ UpTo(sent, k) \in Seq(Frames)
      BY <3>3, <1>1, UpToIs
    <3> QED BY <3>4, <3>5, <3>6, <1>1, PrefixTrans
  <2>4. CASE out = UpTo(sent, Len(sent))
    BY <2>4, <1>3
  <2> QED BY <2>2, <2>3, <2>4, <1>1, ArrivesAll
<1> QED BY <1>1, <1>4, <1>5

(***************************************************************************)
(* A behaviour of the composition is one of each of its two models, so     *)
(* what is proved of InboundFeed above holds in it, and what is proved of  *)
(* SseStream below needs only the pump's steps (listen.rs:893-965).        *)
(***************************************************************************)
THEOREM EachAlone == MCSpec => Spec /\ Sse!Spec
<1>1. MCInit => Init /\ Sse!Init
  BY DEF MCInit
<1>2. [MCNext]_<<cutting, vars, sseVars>> => [Next]_vars /\ [Sse!Next]_Sse!vars
  BY DEF MCNext, sseVars, Sse!vars
<1> QED BY <1>1, <1>2, PTL DEF MCSpec, Spec, Sse!Spec

(***************************************************************************)
(* However the transport cuts or joins the mailbox's writes, the buffer    *)
(* and what is unread are what StreamInv says of them: the rest of one     *)
(* write and whole writes behind it, or whole writes only (the buffer of   *)
(* pump_sse_armors_owned_session, listen.rs:893-965).                      *)
(***************************************************************************)
THEOREM StreamSound == MCSpec => []StreamInv
<1>1. StreamInv /\ [Sse!Next]_Sse!vars => StreamInv'
  BY StreamStep DEF sseVars, Sse!vars
<1> QED BY <1>1, StreamInit, EachAlone, PTL DEF Sse!Spec

(***************************************************************************)
(* FramesKept for any number of writes: frames come out whole and in       *)
(* order; as soon as they are complete if no read joins writes; and none   *)
(* is lost before the first comment (drain_sse_armors and what it calls,   *)
(* listen.rs:612-772).                                                     *)
(***************************************************************************)
THEOREM KeepsFrames == MCSpec => []FramesKept
<1>1. StreamInv => FramesKept
  BY StreamTyped, StreamWhole, StreamInTime, StreamLosses DEF FramesKept
<1> QED BY <1>1, StreamSound, PTL
=================================================================================

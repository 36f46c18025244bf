----------------------------- MODULE LccLinkProofs -----------------------------
(***************************************************************************)
(* What holds of LccLink for every size of its buffers and any amount of   *)
(* traffic: no thread sleeps on data, no byte for the computer goes        *)
(* missing, and the bytes keep their order until a transmission of less    *)
(* than a full buffer is cut short.                                        *)
(***************************************************************************)
EXTENDS LccLink, SequenceTheorems, TLAPS

-------------------------------------------------------------------------------
(* Buffers. *)

\* The first k pieces.
LEMMA FirstFacts ==
    ASSUME NEW S, NEW s \in Seq(S), NEW k \in Nat
    PROVE  /\ First(s, k) \in Seq(S)
           /\ Len(First(s, k)) = IF k < Len(s) THEN k ELSE Len(s)
           /\ First(s, k) \o SubSeq(s, Len(First(s, k)) + 1, Len(s)) = s
           /\ Len(SubSeq(s, Len(First(s, k)) + 1, Len(s))) = Len(s) - Len(First(s, k))
           /\ SubSeq(s, Len(First(s, k)) + 1, Len(s)) \in Seq(S)
<1> DEFINE n == IF k < Len(s) THEN k ELSE Len(s)
<1>1. n \in 0..Len(s) /\ n \in Nat /\ Len(s) \in Nat /\ \A i \in 1..Len(s) : s[i] \in S
  BY LenProperties, ElementOfSeq
<1>2. First(s, k) = SubSeq(s, 1, n)
  BY DEF First
<1> HIDE DEF n
<1>3. First(s, k) \in Seq(S) /\ Len(First(s, k)) = n
  BY <1>1, <1>2, SubSeqProperties
<1>4. SubSeq(s, 1, n) \o SubSeq(s, n + 1, Len(s)) = SubSeq(s, 1, Len(s))
  <2>1. 1 \in 1..(Len(s) + 1) /\ n \in (1 - 1)..Len(s) /\ Len(s) \in n..Len(s)
    BY <1>1
  <2> QED
    BY <2>1, ConcatAdjacentSubSeq
<1>5. SubSeq(s, n + 1, Len(s)) \in Seq(S) /\ Len(SubSeq(s, n + 1, Len(s))) = Len(s) - n
  BY <1>1, SubSeqProperties
<1> QED
  BY <1>2, <1>3, <1>4, <1>5, SubSeqFull DEF n

\* A ring takes no more than fits.
LEMMA RingFacts ==
    ASSUME NEW S, NEW b \in Seq(S), Len(b) <= RingSize, NEW data \in Seq(S)
    PROVE  /\ Accepted(b, data) \in Seq(S)
           /\ b \o Accepted(b, data) \in Seq(S)
           /\ Len(b \o Accepted(b, data)) = Len(b) + Len(Accepted(b, data))
           /\ Len(b \o Accepted(b, data)) <= RingSize
<1>1. Len(b) \in Nat /\ RingSize \in Nat /\ RingSize - Len(b) \in Nat /\ Len(data) \in Nat
  BY LinkAssumption, LenProperties DEF LinkAssumption
<1>2. Accepted(b, data) \in Seq(S) /\ Len(Accepted(b, data)) <= RingSize - Len(b)
        /\ Len(Accepted(b, data)) \in Nat
  BY <1>1, FirstFacts, LenProperties DEF Accepted
<1> QED
  BY <1>1, <1>2, ConcatProperties

\* A queue takes a frame if it has room.
LEMMA QueueFacts ==
    ASSUME NEW q, NEW f \in Frame, SeqUpTo(q, Frame, QueueSize)
    PROVE  /\ SeqUpTo(Queued(q, f), Frame, QueueSize)
           /\ q # <<>> => Head(q) \in Frame /\ SeqUpTo(Tail(q), Frame, QueueSize)
<1>1. q \in Seq(Frame) /\ Len(q) <= QueueSize /\ Len(q) \in Nat /\ QueueSize \in Nat
  BY LinkAssumption, LenProperties DEF LinkAssumption, SeqUpTo
<1>2. SeqUpTo(Queued(q, f), Frame, QueueSize)
  BY <1>1 DEF Queued, SeqUpTo
<1>3. q # <<>> => Head(q) \in Frame /\ SeqUpTo(Tail(q), Frame, QueueSize)
  BY <1>1, HeadTailProperties DEF SeqUpTo
<1> QED
  BY <1>2, <1>3

\* The handler's buffer stays a full buffer, and begins with the data.
LEMMA BufferFacts ==
    ASSUME NEW b \in [1..Chunk -> Pieces], NEW data \in Seq(Pieces), Len(data) <= Chunk
    PROVE  /\ Overwritten(b, data) \in [1..Chunk -> Pieces]
           /\ \A i \in 1..Len(data) : Overwritten(b, data)[i] = data[i]
<1>1. Len(data) \in Nat /\ Chunk \in Nat /\ \A i \in 1..Len(data) : data[i] \in Pieces
  BY LinkAssumption, LenProperties, ElementOfSeq DEF LinkAssumption
<1> QED
  BY <1>1 DEF Overwritten

\* What is kept of a transmission cut after k pieces is as long as what is
\* left; it is what is left when nothing is, or the buffer was full.
LEMMA RestFacts ==
    ASSUME NEW b \in [1..Chunk -> Pieces], NEW data \in Seq(Pieces), Len(data) <= Chunk,
           NEW k \in 1..Len(data), \A i \in 1..Len(data) : b[i] = data[i]
    PROVE  /\ Rest(b, data, k) \in Seq(Pieces)
           /\ Len(Rest(b, data, k)) = Len(data) - k
           /\ SubSeq(data, 1, k) \in Seq(Pieces)
           /\ Len(SubSeq(data, 1, k)) = k
           /\ k = Len(data) \/ Len(data) = Chunk => SubSeq(data, 1, k) \o Rest(b, data, k) = data
<1>1. Len(data) \in Nat /\ Chunk \in Nat /\ \A i \in 1..Len(data) : data[i] \in Pieces
  BY LinkAssumption, LenProperties, ElementOfSeq DEF LinkAssumption
<1> DEFINE m == Chunk - (Len(data) - k) + 1
<1>2. m \in Int /\ m >= 1 /\ \A i \in m..Chunk : b[i] \in Pieces
  BY <1>1
<1>3. /\ Rest(b, data, k) \in Seq(Pieces)
      /\ Len(Rest(b, data, k)) = Len(data) - k
      /\ \A i \in 1..(Chunk - m + 1) : Rest(b, data, k)[i] = b[m + i - 1]
  BY <1>1, <1>2, SubSeqProperties DEF Rest
<1>4. SubSeq(data, 1, k) \in Seq(Pieces) /\ Len(SubSeq(data, 1, k)) = k
  BY <1>1, SubSeqProperties
<1>5. SubSeq(data, 1, k) \o SubSeq(data, k + 1, Len(data)) = data
  BY <1>1, ConcatAdjacentSubSeq, SubSeqFull
<1>6. /\ SubSeq(data, k + 1, Len(data)) \in Seq(Pieces)
      /\ Len(SubSeq(data, k + 1, Len(data))) = Len(data) - k
      /\ \A i \in 1..(Len(data) - k) : SubSeq(data, k + 1, Len(data))[i] = data[k + i]
  BY <1>1, SubSeqProperties
<1>7. ASSUME k = Len(data) \/ Len(data) = Chunk
      PROVE  Rest(b, data, k) = SubSeq(data, k + 1, Len(data))
  <2>1. ASSUME NEW i \in 1..(Len(data) - k) PROVE Rest(b, data, k)[i] = data[k + i]
    <3>1. Len(data) = Chunk /\ m = k + 1 /\ m + i - 1 = k + i
      BY <1>1, <1>7
    <3>2. i \in 1..(Chunk - m + 1) /\ k + i \in 1..Len(data)
      BY <1>1, <3>1
    <3>3. Rest(b, data, k)[i] = b[m + i - 1]
      BY <1>3, <3>2
    <3> QED
      BY <3>1, <3>2, <3>3
  <2> QED
    BY <1>1, <1>3, <1>6, <2>1, SeqEqual
<1> QED
  BY <1>3, <1>4, <1>5, <1>7
-------------------------------------------------------------------------------
(* Type correctness. *)

Typed == TypeOK /\ Traffic <= MaxTraffic /\ InputFromComputer

\* The pieces of the text of the next frame for the computer.
LEMMA ShownPieces ==
    ASSUME NEW n \in 1..MaxTraffic
    PROVE  /\ <<Begin(MaxTraffic + n), End(MaxTraffic + n)>> \in Seq(Pieces)
           /\ <<LineEnd(MaxTraffic + n)>> \in Seq(Pieces)
<1>1. MaxTraffic + n \in 0..(2 * MaxTraffic)
  BY LinkAssumption DEF LinkAssumption
<1>2. Begin(MaxTraffic + n) \in Pieces /\ End(MaxTraffic + n) \in Pieces /\ LineEnd(MaxTraffic + n) \in Pieces
  BY <1>1 DEF Begin, End, LineEnd, Piece, Pieces
<1> QED
  BY <1>2

\* What the computer writes is pieces.
LEMMA HalfIsPiece == Seq(Halves) \subseteq Seq(Pieces)
<1>1. Halves \subseteq Pieces
  BY LinkAssumption DEF LinkAssumption, Halves, Pieces
<1> QED
  BY <1>1, SeqMonotonic

\* The initial state is well typed.
LEMMA InitTyped == Init => Typed
<1> SUFFICES ASSUME Init PROVE Typed
  OBVIOUS
<1>1. RingSize \in Nat /\ QueueSize \in Nat /\ Chunk \in Nat /\ MaxTraffic \in Nat
  BY LinkAssumption DEF LinkAssumption
<1>2. \A S : <<>> \in Seq(S) /\ Len(<<>>) = 0
  BY EmptySeq
<1>3. Zero \in Pieces
  BY <1>1 DEF Zero, Piece, Pieces
<1>4. buffer \in [1..Chunk -> Pieces]
  BY <1>3 DEF Init
<1>5. Undefined \in Frame /\ Idle \in [at : {"idle", "text", "line"}, local : BOOLEAN]
  BY <1>1 DEF Undefined, Frame, Idle
<1>6. \A S : \A n \in Nat : SeqUpTo(<<>>, S, n)
  BY <1>2 DEF SeqUpTo
<1>7. InputFromComputer /\ accepted \in Seq(Pieces) /\ host \in Seq(Pieces)
  BY <1>2 DEF Init, InputFromComputer
<1>8. /\ SeqUpTo(usb, Pieces, Chunk) /\ SeqUpTo(ring, Pieces, RingSize)
      /\ SeqUpTo(parsed, Frame, QueueSize) /\ SeqUpTo(txq, Frame, QueueSize)
      /\ SeqUpTo(sending, Frame, 1) /\ SeqUpTo(outRing, Pieces, RingSize)
      /\ SeqUpTo(remain, Pieces, Chunk)
  BY <1>1, <1>6 DEF Init
<1>9. Traffic <= MaxTraffic
  BY <1>1 DEF Init, Traffic
<1>10. /\ begun \in BOOLEAN /\ lost \in BOOLEAN /\ txOn \in BOOLEAN /\ torn \in BOOLEAN
       /\ frame \in Frame /\ main \in [at : {"idle", "text", "line"}, local : BOOLEAN]
  BY <1>5 DEF Init
<1>11. /\ sent \in 0..MaxTraffic /\ junk \in 0..MaxTraffic /\ line \in 0..MaxTraffic
       /\ out \in 0..MaxTraffic /\ shown \in 0..MaxTraffic /\ rxq \in 0..QueueSize
       /\ strays \in Nat /\ sem \in {0, 1} /\ parser \in {"waiting", "parsing", "putting"}
  BY <1>1 DEF Init
<1> QED
  BY <1>4, <1>7, <1>8, <1>9, <1>10, <1>11 DEF Typed, TypeOK

\* What the main thread puts for the computer.
LEMMA ShowsType ==
    ASSUME Typed, NEW l \in BOOLEAN, Shows(l), shown + 1 <= MaxTraffic
    PROVE  /\ SeqUpTo(outRing', Pieces, RingSize) /\ accepted' \in Seq(Pieces)
           /\ main' \in [at : {"idle", "text", "line"}, local : BOOLEAN]
           /\ shown' = shown + 1 /\ shown' \in 0..MaxTraffic
<1> DEFINE text == <<Begin(MaxTraffic + shown + 1), End(MaxTraffic + shown + 1)>>
<1>1. shown \in Nat /\ MaxTraffic \in Nat /\ shown + 1 \in 1..MaxTraffic
        /\ MaxTraffic + (shown + 1) = MaxTraffic + shown + 1
  BY LinkAssumption DEF LinkAssumption, Typed, TypeOK
<1>2. text \in Seq(Pieces)
  BY <1>1, ShownPieces
<1> HIDE DEF text
<1>3. /\ outRing' = outRing \o Accepted(outRing, text)
      /\ accepted' = accepted \o Accepted(outRing, text)
      /\ shown' = shown + 1 /\ main' = [at |-> "text", local |-> l]
  BY DEF Shows, text
<1>4. outRing \in Seq(Pieces) /\ Len(outRing) <= RingSize /\ accepted \in Seq(Pieces)
  BY DEF Typed, TypeOK, SeqUpTo
<1> QED
  BY <1>1, <1>2, <1>3, <1>4, RingFacts, ConcatProperties DEF SeqUpTo

\* What the handler has to send is part of a full buffer.
LEMMA OutgoingType ==
    ASSUME Typed
    PROVE  Outgoing \in Seq(Pieces) /\ Len(Outgoing) <= Chunk /\ Len(Outgoing) \in Nat
<1>1. Chunk \in Nat /\ remain \in Seq(Pieces) /\ Len(remain) <= Chunk /\ outRing \in Seq(Pieces)
  BY LinkAssumption DEF LinkAssumption, Typed, TypeOK, SeqUpTo
<1>2. First(outRing, Chunk) \in Seq(Pieces) /\ Len(First(outRing, Chunk)) <= Chunk
  <2>1. Len(outRing) \in Nat
    BY <1>1, LenProperties
  <2> QED
    BY <1>1, <2>1, FirstFacts
<1> QED
  BY <1>1, <1>2, LenProperties DEF Outgoing

\* A transmission leaves buffers of pieces.
LEMMA TransmitsType ==
    ASSUME Typed, NEW k \in 1..Chunk, Transmits(k)
    PROVE  /\ k \in 1..Len(Outgoing)
           /\ buffer' \in [1..Chunk -> Pieces]
           /\ \A i \in 1..Len(Outgoing) : buffer'[i] = Outgoing[i]
           /\ SeqUpTo(remain', Pieces, Chunk) /\ host' \in Seq(Pieces)
           /\ SeqUpTo(outRing', Pieces, RingSize)
<1>1. /\ k \in 1..Len(Outgoing) /\ buffer' = Overwritten(buffer, Outgoing)
      /\ host' = host \o SubSeq(Outgoing, 1, k) /\ remain' = Rest(buffer', Outgoing, k)
      /\ outRing' = IF remain # <<>> THEN outRing ELSE SubSeq(outRing, Len(Outgoing) + 1, Len(outRing))
  BY DEF Transmits
<1>2. Outgoing \in Seq(Pieces) /\ Len(Outgoing) <= Chunk /\ Len(Outgoing) \in Nat
  BY OutgoingType
<1>3. /\ buffer \in [1..Chunk -> Pieces] /\ host \in Seq(Pieces) /\ outRing \in Seq(Pieces)
      /\ Len(outRing) <= RingSize /\ Chunk \in Nat /\ RingSize \in Nat /\ Len(outRing) \in Nat
  BY LinkAssumption, LenProperties DEF LinkAssumption, Typed, TypeOK, SeqUpTo
<1>4. buffer' \in [1..Chunk -> Pieces] /\ \A i \in 1..Len(Outgoing) : buffer'[i] = Outgoing[i]
  BY <1>1, <1>2, <1>3, BufferFacts
<1>5. /\ remain' \in Seq(Pieces) /\ Len(remain') = Len(Outgoing) - k
      /\ SubSeq(Outgoing, 1, k) \in Seq(Pieces)
  BY <1>1, <1>2, <1>4, RestFacts
<1>6. Len(remain') <= Chunk
  BY <1>1, <1>2, <1>3, <1>5
<1>7. outRing' \in Seq(Pieces) /\ Len(outRing') <= RingSize
  <2>1. CASE remain # <<>>
    BY <1>1, <1>3, <2>1
  <2>2. CASE remain = <<>>
    <3>1. Outgoing = First(outRing, Chunk)
      BY <2>2 DEF Outgoing
    <3>2. outRing' \in Seq(Pieces) /\ Len(outRing') = Len(outRing) - Len(Outgoing)
      BY <1>1, <1>3, <2>2, <3>1, FirstFacts
    <3> QED
      BY <1>2, <1>3, <3>2
  <2> QED
    BY <2>1, <2>2
<1> QED
  BY <1>1, <1>3, <1>4, <1>5, <1>6, <1>7, ConcatProperties DEF SeqUpTo

\* Every step keeps the types and the bound of the traffic.
LEMMA NextTyped == Typed /\ [Next]_vars => Typed'
<1> SUFFICES ASSUME Typed, [Next]_vars PROVE Typed'
  OBVIOUS
<1> USE DEF Typed
<1>c. RingSize \in Nat /\ QueueSize \in Nat /\ Chunk \in Nat /\ MaxTraffic \in Nat
  BY LinkAssumption DEF LinkAssumption
<1>t. /\ usb \in Seq(Halves) /\ ring \in Seq(Halves) /\ Len(usb) \in Nat /\ Len(ring) <= RingSize
      /\ sent \in Nat /\ junk \in Nat /\ shown \in Nat /\ rxq \in Nat
  BY LenProperties DEF TypeOK, SeqUpTo, InputFromComputer
<1>1. CASE ComputerWrites
  <2>2. \E h \in Halves : usb' = Append(usb, h)
    <3>1. CASE begun
      <4>1. End(sent + 1) \in Halves
        BY <1>c, <1>t, <3>1 DEF End, Piece, Halves, Traffic
      <4> QED
        BY <1>1, <3>1, <4>1 DEF ComputerWrites
    <3>2. CASE ~begun
      <4>1. MoreTraffic
        BY <1>1, <3>2 DEF ComputerWrites
      <4>2. Begin(sent + 1) \in Halves /\ End(0) \in Halves
        BY <1>c, <1>t, <3>2, <4>1 DEF Begin, End, Piece, Halves, MoreTraffic, Traffic
      <4> QED
        BY <1>1, <3>2, <4>2 DEF ComputerWrites
    <3> QED
      BY <3>1, <3>2
  <2>3. usb' \in Seq(Halves) /\ Len(usb') <= Chunk /\ SeqUpTo(usb', Pieces, Chunk)
    <3>1. Len(usb) < Chunk
      BY <1>1 DEF ComputerWrites
    <3>2. usb' \in Seq(Halves) /\ Len(usb') = Len(usb) + 1
      BY <1>t, <2>2
    <3> QED
      BY <1>c, <1>t, <3>1, <3>2, HalfIsPiece DEF SeqUpTo
  <2>4. /\ sent' \in 0..MaxTraffic /\ begun' \in BOOLEAN /\ junk' \in 0..MaxTraffic
        /\ rxq' = rxq /\ shown' = shown
        /\ sent' + junk' + rxq + shown + (IF begun' THEN 1 ELSE 0) <= MaxTraffic
    <3> DEFINE half == IF begun' THEN 1 ELSE 0
    <3>1. rxq' = rxq /\ shown' = shown
      BY <1>1 DEF ComputerWrites, showVars
    <3>2. CASE begun
      <4>1. sent' = sent + 1 /\ junk' = junk /\ begun' = FALSE
        BY <1>1, <3>2 DEF ComputerWrites
      <4>2. half = 0 /\ begun' \in BOOLEAN
        BY <4>1
      <4>3. sent + junk + rxq + shown + 1 <= MaxTraffic
        BY <3>2 DEF Traffic
      <4> HIDE DEF half
      <4>4. sent' \in 0..MaxTraffic /\ junk' \in 0..MaxTraffic
              /\ sent' + junk' + rxq + shown + half <= MaxTraffic
        BY <1>c, <1>t, <4>1, <4>2, <4>3
      <4> QED
        BY <3>1, <4>2, <4>4 DEF half
    <3>3. CASE ~begun
      <4>1. /\ sent' = sent /\ MoreTraffic
            /\ \/ begun' = TRUE /\ junk' = junk
               \/ begun' = FALSE /\ junk' = junk + 1
        BY <1>1, <3>3 DEF ComputerWrites
      <4>2. begun' \in BOOLEAN /\ ((half = 1 /\ junk' = junk) \/ (half = 0 /\ junk' = junk + 1))
        BY <4>1
      <4>3. sent + junk + rxq + shown < MaxTraffic
        <5>1. (IF begun THEN 1 ELSE 0) = 0
          BY <3>3
        <5> QED
          BY <1>c, <1>t, <4>1, <5>1 DEF MoreTraffic, Traffic
      <4> HIDE DEF half
      <4>4. sent' \in 0..MaxTraffic /\ junk' \in 0..MaxTraffic
              /\ sent' + junk' + rxq + shown + half <= MaxTraffic
        BY <1>c, <1>t, <4>1, <4>2, <4>3
      <4> QED
        BY <3>1, <4>2, <4>4 DEF half
    <3> QED
      BY <3>2, <3>3
  <2> QED
    BY <1>1, <2>3, <2>4
       DEF ComputerWrites, TypeOK, Traffic, InputFromComputer, parserVars, busVars, showVars, outputVars
<1>2. CASE Receives
  <2>1. usb \in Seq(Pieces) /\ Len(usb) <= Chunk
    BY <1>t, HalfIsPiece DEF TypeOK, SeqUpTo
  <2>2. buffer' \in [1..Chunk -> Pieces]
    BY <1>2, <2>1, BufferFacts DEF Receives, TypeOK
  <2>3. ring' \in Seq(Halves) /\ Len(ring') <= RingSize
    BY <1>2, <1>t, RingFacts DEF Receives
  <2>4. SeqUpTo(ring', Pieces, RingSize) /\ SeqUpTo(usb', Pieces, Chunk) /\ usb' \in Seq(Halves)
    BY <1>2, <1>c, <2>3, HalfIsPiece, EmptySeq DEF Receives, SeqUpTo
  <2>5. lost' \in BOOLEAN /\ sem' = 1
    BY <1>2 DEF Receives
  <2> QED
    BY <1>2, <2>2, <2>3, <2>4, <2>5
       DEF Receives, TypeOK, Traffic, InputFromComputer, parserVars, busVars, showVars
<1>3. CASE ParserWakes \/ ParserRests
  <2>1. sem' \in {0, 1} /\ parser' \in {"waiting", "parsing", "putting"}
    BY <1>3 DEF ParserWakes, ParserRests, TypeOK, inputVars
  <2>2. UNCHANGED <<sent, begun, junk, usb, ring, line, frame, parsed, busVars, lost, showVars, outputVars>>
    BY <1>3 DEF ParserWakes, ParserRests, inputVars
  <2> QED
    BY <2>1, <2>2 DEF TypeOK, Traffic, InputFromComputer, busVars, showVars, outputVars
<1>4. CASE ParserReads
  <2>1. ring # <<>>
    BY <1>4 DEF ParserReads
  <2>2. Head(ring) \in Halves /\ ring' \in Seq(Halves) /\ Len(ring') <= RingSize
    BY <1>4, <1>c, <1>t, <2>1, HeadTailProperties, LenProperties DEF ParserReads
  <2>3. Head(ring).n \in 0..MaxTraffic /\ Head(ring).n \in Frame /\ Undefined \in Frame
    BY <1>c, <2>2 DEF Halves, Frame, Undefined
  <2>4. line' \in 0..MaxTraffic /\ frame' \in Frame /\ parser' \in {"waiting", "parsing", "putting"}
    BY <1>4, <1>c, <2>3 DEF ParserReads, ParsedFrames, TypeOK
  <2>5. SeqUpTo(ring', Pieces, RingSize)
    BY <2>2, HalfIsPiece DEF SeqUpTo
  <2> QED
    BY <1>4, <2>2, <2>4, <2>5 DEF ParserReads, TypeOK, Traffic, InputFromComputer, busVars, showVars, outputVars
<1>5. CASE ParserPuts
  <2>1. SeqUpTo(parsed', Frame, QueueSize) /\ lost' \in BOOLEAN
    BY <1>5, QueueFacts DEF ParserPuts, TypeOK
  <2> QED
    BY <1>5, <2>1 DEF ParserPuts, TypeOK, Traffic, InputFromComputer, busVars, showVars, outputVars
<1>6. CASE MainForwards
  <2>1. parsed # <<>> /\ SeqUpTo(parsed, Frame, QueueSize) /\ SeqUpTo(txq, Frame, QueueSize)
    BY <1>6 DEF MainForwards, TypeOK
  <2>2. Head(parsed) \in Frame /\ SeqUpTo(Tail(parsed), Frame, QueueSize)
    BY <2>1, <1>c, HeadTailProperties, LenProperties DEF SeqUpTo
  <2>3. SeqUpTo(Queued(txq, Head(parsed)), Frame, QueueSize)
    BY <2>1, <2>2, QueueFacts
  <2> QED
    BY <1>6, <2>2, <2>3 DEF MainForwards, TypeOK, Traffic, InputFromComputer, inputVars, showVars, outputVars
<1>7. CASE SenderTakes
  <2>1. txq # <<>> /\ SeqUpTo(txq, Frame, QueueSize)
    BY <1>7 DEF SenderTakes, TypeOK
  <2>2. Head(txq) \in Frame /\ SeqUpTo(Tail(txq), Frame, QueueSize)
    BY <2>1, <1>c, HeadTailProperties, LenProperties DEF SeqUpTo
  <2>3. SeqUpTo(<<Head(txq)>>, Frame, 1)
    BY <2>2 DEF SeqUpTo
  <2> QED
    BY <1>7, <2>2, <2>3 DEF SenderTakes, TypeOK, Traffic, InputFromComputer, inputVars, parserVars, showVars, outputVars
<1>8. CASE SenderSends
  <2>1. sending[1] \in Frame
    <3>1. sending \in Seq(Frame) /\ Len(sending) \in Nat /\ Len(sending) # 0
      BY <1>8, EmptySeq, LenProperties DEF SenderSends, TypeOK, SeqUpTo
    <3> QED
      BY <3>1, ElementOfSeq
  <2>2. out' \in 0..MaxTraffic
    BY <1>8, <1>c, <2>1 DEF SenderSends, TypeOK, Frame, Undefined
  <2>3. SeqUpTo(sending', Frame, 1) /\ strays' \in Nat /\ lost' \in BOOLEAN
    <3>1. SeqUpTo(<<>>, Frame, 1)
      BY EmptySeq DEF SeqUpTo
    <3>2. strays \in Nat /\ lost \in BOOLEAN
      BY DEF TypeOK
    <3>3. /\ sending' = <<>>
          /\ strays' = strays \/ strays' = strays + 1
          /\ lost' = lost \/ lost' = TRUE
      BY <1>8 DEF SenderSends
    <3>4. strays' \in Nat
      BY <3>2, <3>3
    <3>5. lost' \in BOOLEAN
      BY <3>2, <3>3
    <3> QED
      BY <3>1, <3>3, <3>4, <3>5
  <2> QED
    BY <1>8, <2>2, <2>3 DEF SenderSends, TypeOK, Traffic, InputFromComputer, inputVars, parserVars, showVars, outputVars
<1>9. CASE BusFrame
  BY <1>9, <1>c, <1>t DEF BusFrame, TypeOK, Traffic, MoreTraffic, InputFromComputer, inputVars, parserVars,
     busVars, outputVars
<1>10. CASE ShowsBusFrame \/ ShowsLocalFrame
  <2>1. PICK l \in BOOLEAN : Shows(l)
    BY <1>10 DEF ShowsBusFrame, ShowsLocalFrame
  <2>2. /\ shown + 1 <= MaxTraffic /\ rxq' \in 0..QueueSize
        /\ sent + junk + rxq' + (shown + 1) + (IF begun THEN 1 ELSE 0) <= MaxTraffic
    <3> DEFINE half == IF begun THEN 1 ELSE 0
    <3>1. half \in Nat /\ rxq \in 0..QueueSize /\ sent + junk + rxq + shown + half <= MaxTraffic
      BY DEF Traffic, TypeOK
    <3>2. \/ rxq > 0 /\ rxq' = rxq - 1
          \/ rxq' = rxq /\ sent + junk + rxq + shown + half < MaxTraffic
      BY <1>10 DEF ShowsBusFrame, ShowsLocalFrame, MoreTraffic, Traffic
    <3> HIDE DEF half
    <3>3. shown + 1 <= MaxTraffic /\ rxq' \in 0..QueueSize
          /\ sent + junk + rxq' + (shown + 1) + half <= MaxTraffic
      BY <1>c, <1>t, <3>1, <3>2
    <3> QED
      BY <3>3 DEF half
  <2>3. /\ SeqUpTo(outRing', Pieces, RingSize) /\ accepted' \in Seq(Pieces)
        /\ main' \in [at : {"idle", "text", "line"}, local : BOOLEAN]
        /\ shown' = shown + 1 /\ shown' \in 0..MaxTraffic
    BY <2>1, <2>2, ShowsType
  <2> QED
    BY <2>1, <2>2, <2>3 DEF Shows, TypeOK, Traffic, InputFromComputer, inputVars, parserVars, busVars
<1>11. CASE PutsLineEnd
  <2>1. \E e \in Seq(Pieces) : outRing' = outRing \o Accepted(outRing, e) /\ accepted' = accepted \o Accepted(outRing, e)
    <3>1. MaxTraffic + shown \in 0..(2 * MaxTraffic)
      BY <1>c DEF TypeOK
    <3>2. LineEnd(MaxTraffic + shown) \in Pieces
      BY <3>1 DEF LineEnd, Piece, Pieces
    <3>3. <<LineEnd(MaxTraffic + shown)>> \in Seq(Pieces)
      BY <3>2
    <3> QED
      BY <1>11, <3>3 DEF PutsLineEnd
  <2>2. SeqUpTo(outRing', Pieces, RingSize) /\ accepted' \in Seq(Pieces)
    BY <2>1, RingFacts, ConcatProperties DEF TypeOK, SeqUpTo
  <2> QED
    BY <1>11, <2>2 DEF PutsLineEnd, TypeOK, Traffic, InputFromComputer, inputVars, parserVars, busVars
<1>12. CASE EnablesInterrupt
  <2>1. Local \in Frame
    BY <1>c DEF Local, Frame, Undefined
  <2>2. SeqUpTo(txq', Frame, QueueSize)
    BY <1>12, <2>1, QueueFacts DEF EnablesInterrupt, TypeOK
  <2> QED
    BY <1>12, <2>2 DEF EnablesInterrupt, TypeOK, Traffic, InputFromComputer, Idle, inputVars, parserVars
<1>13. CASE \E k \in 1..Chunk : Transmits(k)
  <2>1. PICK k \in 1..Chunk : Transmits(k)
    BY <1>13
  <2>2. torn' \in BOOLEAN
    BY <2>1 DEF Transmits
  <2> QED
    BY <2>1, <2>2, TransmitsType
       DEF Transmits, TypeOK, Traffic, InputFromComputer, inputVars, parserVars, busVars, showVars
<1>14. CASE DisablesInterrupt
  BY <1>14 DEF DisablesInterrupt, TypeOK, Traffic, InputFromComputer, inputVars, parserVars, busVars, showVars
<1>15. CASE UNCHANGED vars
  BY <1>15 DEF vars, TypeOK, Traffic, InputFromComputer, inputVars, parserVars, busVars, showVars, outputVars
<1> QED
  BY <1>1, <1>2, <1>3, <1>4, <1>5, <1>6, <1>7, <1>8, <1>9, <1>10, <1>11, <1>12, <1>13, <1>14,
     <1>15 DEF Next

\* Every reachable state is well typed: no buffer or queue holds more than it can.
THEOREM LinkTypeCorrect == Spec => []TypeOK
<1>1. Typed => TypeOK
  BY DEF Typed
<1> QED
  BY <1>1, InitTyped, NextTyped, PTL DEF Spec

-------------------------------------------------------------------------------
(* Wake-ups. *)

\* No step puts the parse thread to sleep on data, or leaves it asleep.
LEMMA NextParser == ParserAwake /\ [Next]_vars => ParserAwake'
<1> SUFFICES ASSUME ParserAwake, [Next]_vars PROVE ParserAwake'
  OBVIOUS
<1> USE DEF ParserAwake
<1>1. CASE ComputerWrites
  BY <1>1 DEF ComputerWrites, parserVars
<1>2. CASE Receives
  BY <1>2 DEF Receives
<1>3. CASE ParserWakes \/ ParserReads \/ ParserRests \/ ParserPuts
  BY <1>3 DEF ParserWakes, ParserReads, ParserRests, ParserPuts, inputVars
<1>4. CASE MainForwards \/ SenderTakes \/ SenderSends
  BY <1>4 DEF MainForwards, SenderTakes, SenderSends, inputVars, parserVars
<1>5. CASE BusFrame \/ ShowsBusFrame \/ ShowsLocalFrame \/ PutsLineEnd \/ EnablesInterrupt
  BY <1>5 DEF BusFrame, ShowsBusFrame, ShowsLocalFrame, Shows, PutsLineEnd, EnablesInterrupt,
     inputVars, parserVars
<1>6. CASE (\E k \in 1..Chunk : Transmits(k)) \/ DisablesInterrupt \/ UNCHANGED vars
  BY <1>6 DEF Transmits, DisablesInterrupt, vars, inputVars, parserVars
<1> QED
  BY <1>1, <1>2, <1>3, <1>4, <1>5, <1>6 DEF Next

\* The handler disables the transmitter only with both buffers empty, and what
\* the main thread puts afterwards it enables.
LEMMA NextTransmitter == Typed /\ TransmitterAwake /\ [Next]_vars => TransmitterAwake'
<1> SUFFICES ASSUME Typed, TransmitterAwake, [Next]_vars PROVE TransmitterAwake'
  OBVIOUS
<1> USE DEF TransmitterAwake
<1>1. CASE ComputerWrites \/ Receives \/ ParserWakes \/ ParserReads \/ ParserRests \/ ParserPuts
  BY <1>1 DEF ComputerWrites, Receives, ParserWakes, ParserReads, ParserRests, ParserPuts,
     showVars, outputVars
<1>2. CASE MainForwards \/ SenderTakes \/ SenderSends \/ BusFrame \/ UNCHANGED vars
  BY <1>2 DEF MainForwards, SenderTakes, SenderSends, BusFrame, vars, showVars, outputVars
<1>3. CASE ShowsBusFrame \/ ShowsLocalFrame
  <2>1. main'.at = "text"
    BY <1>3 DEF ShowsBusFrame, ShowsLocalFrame, Shows
  <2> QED
    BY <2>1 DEF Idle
<1>4. CASE PutsLineEnd
  <2>1. main'.at = "line"
    BY <1>4 DEF PutsLineEnd, Typed, TypeOK
  <2> QED
    BY <2>1 DEF Idle
<1>5. CASE EnablesInterrupt
  BY <1>5 DEF EnablesInterrupt
<1>6. CASE \E k \in 1..Chunk : Transmits(k)
  BY <1>6 DEF Transmits
<1>7. CASE DisablesInterrupt
  <2>1. Outgoing = <<>> /\ remain' = remain /\ outRing' = outRing
    BY <1>7 DEF DisablesInterrupt
  <2>2. remain = <<>> /\ First(outRing, Chunk) = <<>>
    BY <2>1 DEF Outgoing
  <2>3. outRing \in Seq(Pieces) /\ Chunk \in Nat \ {0} /\ Len(outRing) \in Nat
    BY LinkAssumption, LenProperties DEF LinkAssumption, Typed, TypeOK, SeqUpTo
  <2>4. Len(outRing) = 0
    <3>1. Len(First(outRing, Chunk)) = IF Chunk < Len(outRing) THEN Chunk ELSE Len(outRing)
      BY <2>3, FirstFacts
    <3> QED
      BY <2>2, <2>3, <3>1, EmptySeq
  <2>5. outRing = <<>>
    BY <2>3, <2>4, EmptySeq
  <2> QED
    BY <2>1, <2>2, <2>5
<1> QED
  BY <1>1, <1>2, <1>3, <1>4, <1>5, <1>6, <1>7 DEF Next

-------------------------------------------------------------------------------
(* The bytes for the computer. *)

\* Streams may be cut and joined anywhere.
LEMMA Joined == \A s, t, u \in Seq(Pieces) : (s \o t) \o u = s \o (t \o u)
  BY ConcatAssociative

\* The step of the stream: what the ring takes comes last, what USB takes comes
\* first, and a transmission keeps as many bytes as it has not got rid of.
LEMMA NextStream ==
    Typed /\ NothingMissing /\ StreamIntact /\ [Next]_vars => (NothingMissing /\ StreamIntact)'
<1> SUFFICES ASSUME Typed, NothingMissing, StreamIntact, [Next]_vars
             PROVE  (NothingMissing /\ StreamIntact)'
  OBVIOUS
<1>t. /\ host \in Seq(Pieces) /\ remain \in Seq(Pieces) /\ outRing \in Seq(Pieces)
      /\ accepted \in Seq(Pieces) /\ Len(host) \in Nat /\ Len(remain) \in Nat
      /\ Len(outRing) \in Nat /\ Len(accepted) \in Nat /\ Len(outRing) <= RingSize
      /\ host \o remain \in Seq(Pieces)
  BY LenProperties, ConcatProperties DEF Typed, TypeOK, SeqUpTo
<1>n. Len(host) + Len(remain) + Len(outRing) = Len(accepted)
  BY DEF NothingMissing
<1>1. CASE UNCHANGED <<host, remain, outRing, accepted, torn>>
  BY <1>1 DEF NothingMissing, StreamIntact
<1>2. ASSUME NEW data \in Seq(Pieces), outRing' = outRing \o data, accepted' = accepted \o data,
             UNCHANGED <<host, remain, torn>>
      PROVE  (NothingMissing /\ StreamIntact)'
  <2>1. Len(outRing') = Len(outRing) + Len(data) /\ Len(accepted') = Len(accepted) + Len(data)
          /\ Len(data) \in Nat
    BY <1>2, <1>t, ConcatProperties, LenProperties
  <2>2. NothingMissing'
    <3>1. host' = host /\ remain' = remain
      BY <1>2
    <3>2. Len(host) + Len(remain) + (Len(outRing) + Len(data)) = Len(accepted) + Len(data)
      <4> DEFINE h == Len(host)  r == Len(remain)  o == Len(outRing)  a == Len(accepted)  d == Len(data)
      <4>1. h \in Nat /\ r \in Nat /\ o \in Nat /\ a \in Nat /\ d \in Nat /\ h + r + o = a
        BY <1>t, <1>n, <2>1
      <4> HIDE DEF h, r, o, a, d
      <4>2. h + r + (o + d) = a + d
        BY <4>1
      <4> QED
        BY <4>2 DEF h, r, o, a, d
    <3> QED
      BY <2>1, <3>1, <3>2 DEF NothingMissing
  <2>3. (host \o remain) \o (outRing \o data) = ((host \o remain) \o outRing) \o data
    BY <1>2, <1>t, Joined, Zenon
  <2>4. StreamIntact'
    BY <1>2, <2>3 DEF StreamIntact
  <2> QED
    BY <2>2, <2>4
<1>3. CASE ShowsBusFrame \/ ShowsLocalFrame
  <2> DEFINE text == <<Begin(MaxTraffic + shown + 1), End(MaxTraffic + shown + 1)>>
  <2>1. /\ outRing' = outRing \o Accepted(outRing, text)
        /\ accepted' = accepted \o Accepted(outRing, text)
        /\ UNCHANGED <<host, remain, torn>>
    BY <1>3 DEF ShowsBusFrame, ShowsLocalFrame, Shows
  <2>2. shown + 1 \in 1..MaxTraffic /\ MaxTraffic + (shown + 1) = MaxTraffic + shown + 1
    <3>1. shown' \in 0..MaxTraffic /\ shown' = shown + 1
      BY <1>3, NextTyped DEF Typed, TypeOK, ShowsBusFrame, ShowsLocalFrame, Shows
    <3> QED
      BY <3>1, LinkAssumption DEF LinkAssumption, Typed, TypeOK
  <2>3. text \in Seq(Pieces)
    BY <2>2, ShownPieces
  <2> HIDE DEF text
  <2>4. Accepted(outRing, text) \in Seq(Pieces)
    BY <1>t, <2>3, RingFacts
  <2> QED
    BY <1>2, <2>1, <2>4
<1>4. CASE PutsLineEnd
  <2> DEFINE end == <<LineEnd(MaxTraffic + shown)>>
  <2>1. /\ outRing' = outRing \o Accepted(outRing, end)
        /\ accepted' = accepted \o Accepted(outRing, end)
        /\ UNCHANGED <<host, remain, torn>>
    BY <1>4 DEF PutsLineEnd
  <2>2. MaxTraffic + shown \in 0..(2 * MaxTraffic)
    BY LinkAssumption DEF LinkAssumption, Typed, TypeOK
  <2>3. LineEnd(MaxTraffic + shown) \in Pieces
    BY <2>2 DEF LineEnd, Piece, Pieces
  <2>4. end \in Seq(Pieces)
    BY <2>3
  <2> HIDE DEF end
  <2>5. Accepted(outRing, end) \in Seq(Pieces)
    BY <1>t, <2>4, RingFacts
  <2> QED
    BY <1>2, <2>1, <2>5
<1>5. CASE \E k \in 1..Chunk : Transmits(k)
  <2>1. PICK k \in 1..Chunk : Transmits(k)
    BY <1>5
  <2> DEFINE O == Outgoing
             taken == SubSeq(O, 1, k)
  <2>2. /\ k \in 1..Len(O) /\ O \in Seq(Pieces) /\ Len(O) <= Chunk /\ Len(O) \in Nat
        /\ buffer' \in [1..Chunk -> Pieces] /\ \A i \in 1..Len(O) : buffer'[i] = O[i]
        /\ outRing' \in Seq(Pieces)
    BY <2>1, OutgoingType, TransmitsType DEF SeqUpTo
  <2>3. /\ host' = host \o taken /\ remain' = Rest(buffer', O, k) /\ accepted' = accepted
        /\ outRing' = IF remain # <<>> THEN outRing ELSE SubSeq(outRing, Len(O) + 1, Len(outRing))
        /\ ~torn' => ~torn /\ (k = Len(O) \/ Len(O) = Chunk)
    <3>1. ~torn' => ~torn /\ ~(k < Len(O) /\ Len(O) < Chunk)
      BY <2>1 DEF Transmits
    <3>2. ~(k < Len(O) /\ Len(O) < Chunk) => k = Len(O) \/ Len(O) = Chunk
      BY <2>2, LinkAssumption DEF LinkAssumption
    <3> QED
      BY <2>1, <3>1, <3>2 DEF Transmits
  <2>4. /\ remain' \in Seq(Pieces) /\ Len(remain') = Len(O) - k
        /\ taken \in Seq(Pieces) /\ Len(taken) = k
        /\ k = Len(O) \/ Len(O) = Chunk => taken \o remain' = O
    BY <2>2, <2>3, RestFacts
  <2>5. O \o outRing' = remain \o outRing /\ Len(O) + Len(outRing') = Len(remain) + Len(outRing)
    <3>1. CASE remain # <<>>
      BY <2>3, <3>1 DEF Outgoing
    <3>2. CASE remain = <<>>
      <4>1. O = First(outRing, Chunk) /\ Chunk \in Nat
        BY <3>2, LinkAssumption DEF Outgoing, LinkAssumption
      <4>2. O \o outRing' = outRing /\ Len(outRing') = Len(outRing) - Len(O)
        BY <1>t, <2>3, <3>2, <4>1, FirstFacts
      <4>3. remain \o outRing = outRing /\ Len(remain) = 0
        BY <1>t, <3>2, ConcatEmptySeq, EmptySeq
      <4> QED
        BY <1>t, <2>2, <4>2, <4>3
    <3> QED
      BY <3>1, <3>2
  <2> HIDE DEF O, taken
  <2>6. NothingMissing'
    <3>1. Len(host') = Len(host) + k
      BY <1>t, <2>3, <2>4, ConcatProperties
    <3>2. Len(outRing') \in Nat /\ accepted' = accepted
      BY <2>2, <2>3, LenProperties
    <3>3. k \in Nat /\ k <= Len(O)
      BY <2>2
    <3>4. (Len(host) + k) + (Len(O) - k) + Len(outRing') = Len(accepted)
      <4> DEFINE h == Len(host)  r == Len(remain)  o == Len(outRing)  a == Len(accepted)
                 n == Len(O)  q == Len(outRing')
      <4>1. h \in Nat /\ r \in Nat /\ o \in Nat /\ a \in Nat /\ h + r + o = a
        BY <1>t, <1>n
      <4>2. n \in Nat /\ q \in Nat /\ n + q = r + o /\ k \in Nat
        BY <2>2, <2>5, <3>2, <3>3
      <4> HIDE DEF h, r, o, a, n, q
      <4>3. (h + k) + (n - k) + q = a
        BY <4>1, <4>2
      <4> QED
        BY <4>3 DEF h, r, o, a, n, q
    <3> QED
      BY <2>4, <3>1, <3>2, <3>4 DEF NothingMissing
  <2>7. ASSUME ~torn' PROVE host' \o remain' \o outRing' = accepted'
    <3>1. taken \o remain' = O /\ host \o remain \o outRing = accepted
      BY <2>3, <2>4, <2>7 DEF StreamIntact
    <3>a. /\ taken \in Seq(Pieces) /\ remain' \in Seq(Pieces) /\ O \in Seq(Pieces)
          /\ outRing' \in Seq(Pieces) /\ host \in Seq(Pieces)
      BY <1>t, <2>2, <2>4
    <3>2. (host \o taken) \o remain' = host \o (taken \o remain')
      BY <3>a, Joined, Zenon
    <3>3. (host \o O) \o outRing' = host \o (O \o outRing')
      BY <3>a, Joined, Zenon
    <3>4. host \o (remain \o outRing) = (host \o remain) \o outRing
      BY <1>t, Joined, Zenon
    <3> QED
      BY <2>3, <2>5, <3>1, <3>2, <3>3, <3>4
  <2> QED
    BY <2>6, <2>7 DEF StreamIntact
<1> QED
  BY <1>1, <1>3, <1>4, <1>5
     DEF Next, ComputerWrites, Receives, ParserWakes, ParserReads, ParserRests, ParserPuts,
         MainForwards, SenderTakes, SenderSends, BusFrame, EnablesInterrupt, DisablesInterrupt,
         vars, outputVars

-------------------------------------------------------------------------------
(* The properties. *)

\* The invariant holds in every reachable state.
THEOREM LinkInvariant == Spec => []LinkInv
<1>1. Init => LinkInv
  <2>1. Init => ParserAwake /\ TransmitterAwake
    BY DEF Init, ParserAwake, TransmitterAwake
  <2>2. Init => NothingMissing /\ StreamIntact
    <3>1. <<>> \o <<>> = <<>> /\ Len(<<>>) = 0
      BY EmptySeq, ConcatEmptySeq
    <3> QED
      BY <3>1 DEF Init, NothingMissing, StreamIntact
  <2> QED
    BY <2>1, <2>2, InitTyped DEF LinkInv, Typed
<1>2. LinkInv /\ [Next]_vars => LinkInv'
  BY NextTyped, NextParser, NextTransmitter, NextStream DEF LinkInv, Typed
<1> QED
  BY <1>1, <1>2, PTL DEF Spec

\* The parse thread never sleeps on data: no wake-up is lost.
THEOREM ParserNeverOversleeps == Spec => []ParserAwake
<1>1. LinkInv => ParserAwake
  BY DEF LinkInv
<1> QED
  BY <1>1, LinkInvariant, PTL

\* Nor does the transmitter, whichever of the handler and the main thread comes first.
THEOREM TransmitterNeverOversleeps == Spec => []TransmitterAwake
<1>1. LinkInv => TransmitterAwake
  BY DEF LinkInv
<1> QED
  BY <1>1, LinkInvariant, PTL

\* Every byte that the ring took is with the computer or on its way to it, or
\* another in its place.
THEOREM NoByteMissing == Spec => []NothingMissing
<1>1. LinkInv => NothingMissing
  BY DEF LinkInv
<1> QED
  BY <1>1, LinkInvariant, PTL

\* It is the same byte, in its order, as long as only transmissions of a full
\* buffer were cut short.
THEOREM StreamKeptIntact == Spec => []StreamIntact
<1>1. LinkInv => StreamIntact
  BY DEF LinkInv
<1> QED
  BY <1>1, LinkInvariant, PTL

===============================================================================

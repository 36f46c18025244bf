------------------------------- MODULE LccLink -------------------------------
(***************************************************************************)
(* The LCC-Link: a bridge between a computer on USB and the CAN bus        *)
(* (lcc-link/src).                                                         *)
(*                                                                         *)
(* Four actors share its buffers: the handler of the USB interrupt, the    *)
(* thread that parses what the computer writes, the main thread, and the   *)
(* thread that sends to the bus.  A frame is text on the computer's side:  *)
(* here two pieces, that a full buffer or a short transmission may tear    *)
(* apart, and a line end of the link's own.                                *)
(***************************************************************************)
EXTENDS Integers, Sequences, FiniteSets

CONSTANTS
    RingSize,       \* pieces that a ring buffer holds; 1024 bytes in the code
    QueueSize,      \* frames that a message queue holds; 55 in the code
    Chunk,          \* pieces that the USB handler moves at once; 64 bytes in the code
    MaxTraffic      \* bound: frames and lone delimiters in all

ASSUME LinkAssumption ==
    /\ RingSize \in Nat \ {0} /\ QueueSize \in Nat \ {0} /\ Chunk \in Nat \ {0}
    /\ MaxTraffic \in Nat

Local == 0              \* a frame of the link's own node
Undefined == -1         \* a frame that nobody has sent
Frame == Undefined..MaxTraffic

Piece(n, p) == [n |-> n, part |-> p]
Begin(n) == Piece(n, "begin")       \* from the colon on
End(n) == Piece(n, "end")           \* up to the semicolon; of no frame when n is 0
LineEnd(n) == Piece(n, "newline")
Zero == Piece(0, "begin")           \* a buffer not yet used
Pieces == [n : 0..(2 * MaxTraffic), part : {"begin", "end", "newline"}]

VARIABLES
    \* from the computer to the bus
    sent,       \* frames that the computer has written to their end
    begun,      \* it has written the first half of the next
    junk,       \* delimiters that it has written alone
    usb,        \* written and not yet read from the USB driver
    ring,       \* ringbuf_incoming
    sem,        \* parse_sem, a binary semaphore
    parser,     \* where the parse thread is
    line,       \* the frame whose first half fills gridconnect_in, or 0
    frame,      \* the frame of the parse thread, on its stack
    parsed,     \* parsed_msgq
    txq,        \* tx_msgq
    sending,    \* the frame that the sending thread has taken
    \* from the bus to the computer
    rxq,        \* rx_msgq: the number of frames in it
    main,       \* where the main thread is in can_to_computer_send_frame
    shown,      \* frames it has put for the computer
    outRing,    \* ringbuf_outgoing
    txOn,       \* the interrupt is enabled
    buffer,     \* the static buffer of the interrupt handler
    remain,     \* tx_remain
    \* the environment and the history
    out,        \* the latest frame of the computer on the bus
    strays,     \* frames on the bus that it had not sent, or that were there
    lost,       \* a frame of the computer was lost on its way
    accepted,   \* what the ring buffer took for the computer
    host,       \* what the computer has read
    torn        \* a transmission of less than a full buffer was short

inputVars == <<sent, begun, junk, usb, ring, sem>>
parserVars == <<parser, line, frame, parsed>>
busVars == <<txq, sending, out, strays>>
showVars == <<rxq, main, shown>>
outputVars == <<outRing, txOn, buffer, remain, accepted, host, torn>>
vars == <<inputVars, parserVars, busVars, lost, showVars, outputVars>>

Traffic == sent + junk + rxq + shown + (IF begun THEN 1 ELSE 0)
MoreTraffic == Traffic < MaxTraffic

Idle == [at |-> "idle", local |-> FALSE]

-----------------------------------------------------------------------------
(***************************************************************************)
(* Buffers.                                                                *)
(***************************************************************************)

First(s, k) == SubSeq(s, 1, IF k < Len(s) THEN k ELSE Len(s))

\* Without a limit.
AcceptsAll(b, data) == data

\* ring_buf_put takes what it has room for.
Accepted(b, data) == First(data, RingSize - Len(b))

\* k_msgq_put with K_NO_WAIT.
Queued(q, f) == IF Len(q) < QueueSize THEN Append(q, f) ELSE q

Full(q) == Len(q) >= QueueSize

\* A prefix of the static buffer is overwritten, the rest stays.
Overwritten(b, data) == [i \in 1..Chunk |-> IF i <= Len(data) THEN data[i] ELSE b[i]]

-----------------------------------------------------------------------------
(***************************************************************************)
(* From the computer to the bus.                                           *)
(***************************************************************************)
\* The computer writes: the halves of its frames in turn, or a lone delimiter.
ComputerWrites ==
    /\ Len(usb) < Chunk
    /\ \/ /\ ~begun
          /\ MoreTraffic
          /\ usb' = Append(usb, Begin(sent + 1))
          /\ begun' = TRUE
          /\ UNCHANGED <<sent, junk>>
       \/ /\ begun
          /\ usb' = Append(usb, End(sent + 1))
          /\ begun' = FALSE
          /\ sent' = sent + 1
          /\ UNCHANGED junk
       \/ /\ ~begun
          /\ MoreTraffic
          /\ usb' = Append(usb, End(0))
          /\ junk' = junk + 1
          /\ UNCHANGED <<sent, begun>>
    /\ UNCHANGED <<ring, sem, parserVars, busVars, lost, showVars, outputVars>>

\* The parse thread is not told.
ReceivesSilently ==
    /\ usb # <<>>
    /\ buffer' = Overwritten(buffer, usb)
    /\ ring' = ring \o Accepted(ring, usb)
    /\ lost' = (lost \/ Len(usb) > RingSize - Len(ring))
    /\ usb' = <<>>
    /\ UNCHANGED <<sent, begun, junk, sem, parserVars, busVars, showVars, outRing, txOn, remain,
                   accepted, host, torn>>

\* irq_handler_can_usb, its receiving half, and computer_to_can_append_data.
Receives ==
    /\ usb # <<>>
    /\ buffer' = Overwritten(buffer, usb)
    /\ ring' = ring \o Accepted(ring, usb)
    /\ sem' = 1
    /\ lost' = (lost \/ Len(usb) > RingSize - Len(ring))
    /\ usb' = <<>>
    /\ UNCHANGED <<sent, begun, junk, parserVars, busVars, showVars, outRing, txOn, remain,
                   accepted, host, torn>>

\* computer_to_can_parse_thread takes the semaphore.
ParserWakes ==
    /\ parser = "waiting"
    /\ sem = 1
    /\ sem' = 0
    /\ parser' = "parsing"
    /\ UNCHANGED <<sent, begun, junk, usb, ring, line, frame, parsed, busVars, lost, showVars, outputVars>>

\* What computer_to_can_parse leaves in its frame at a semicolon: liblcc may
\* take the halves of two frames for one, or refuse them and leave it as it was.
ParsedFrames(piece) ==
    IF piece.n # 0 /\ line = piece.n THEN {piece.n} ELSE {frame, Undefined}

\* One byte of computer_to_can_parse.  Its result is not 0 at a semicolon, and
\* the thread takes -1 for a frame as well.  (Not told apart: text as long as the
\* buffer, which no frame is, and whose semicolon gives no result.)
ParserReads ==
    /\ parser = "parsing"
    /\ ring # <<>>
    /\ ring' = Tail(ring)
    /\ IF Head(ring).part = "begin"
         THEN /\ line' = Head(ring).n
              /\ UNCHANGED <<parser, frame>>
         ELSE /\ line' = 0
              /\ frame' \in ParsedFrames(Head(ring))
              /\ parser' = "putting"
    /\ UNCHANGED <<sent, begun, junk, usb, sem, parsed, busVars, lost, showVars, outputVars>>

\* The frame of the last time is taken for a new one.
EmptyIsParsed ==
    /\ parser = "parsing"
    /\ ring = <<>>
    /\ parser' = "putting"
    /\ UNCHANGED <<inputVars, line, frame, parsed, busVars, lost, showVars, outputVars>>

\* The ring is empty: there is no frame.
ParserRests ==
    /\ parser = "parsing"
    /\ ring = <<>>
    /\ parser' = "waiting"
    /\ UNCHANGED <<inputVars, line, frame, parsed, busVars, lost, showVars, outputVars>>

\* One frame for each time the semaphore is given.
PutsOnce ==
    /\ parser = "putting"
    /\ parsed' = Queued(parsed, frame)
    /\ lost' = (lost \/ Full(parsed))
    /\ parser' = "waiting"
    /\ UNCHANGED <<inputVars, line, frame, busVars, showVars, outputVars>>

\* The thread gives the semaphore to itself, to parse what is left.
ParserPuts ==
    /\ parser = "putting"
    /\ parsed' = Queued(parsed, frame)
    /\ lost' = (lost \/ Full(parsed))
    /\ sem' = 1
    /\ parser' = "waiting"
    /\ UNCHANGED <<sent, begun, junk, usb, ring, line, frame, busVars, showVars, outputVars>>

\* parse_from_computer
MainForwards ==
    /\ main = Idle
    /\ parsed # <<>>
    /\ parsed' = Tail(parsed)
    /\ txq' = Queued(txq, Head(parsed))
    /\ lost' = (lost \/ Full(txq))
    /\ UNCHANGED <<inputVars, parser, line, frame, sending, out, strays, showVars, outputVars>>

\* can_frame_send_thread takes a frame; with the bus off it drops it.
SenderTakes ==
    /\ sending = <<>>
    /\ txq # <<>>
    /\ txq' = Tail(txq)
    /\ \/ sending' = <<Head(txq)>> /\ UNCHANGED lost
       \/ lost' = TRUE /\ UNCHANGED sending
    /\ UNCHANGED <<inputVars, parserVars, out, strays, showVars, outputVars>>

\* can_send has found a free mailbox, or has failed.
SenderSends ==
    /\ sending # <<>>
    /\ sending' = <<>>
    /\ \/ /\ out' = IF sending[1] > out THEN sending[1] ELSE out
          /\ strays' = IF sending[1] > out \/ sending[1] = Local THEN strays ELSE strays + 1
          /\ UNCHANGED lost
       \/ lost' = TRUE /\ UNCHANGED <<out, strays>>
    /\ UNCHANGED <<inputVars, parserVars, txq, showVars, outputVars>>

-----------------------------------------------------------------------------
(***************************************************************************)
(* To the computer.                                                        *)
(***************************************************************************)

\* A frame of the bus that finds room; the driver drops the others.
BusFrame ==
    /\ rxq < QueueSize
    /\ MoreTraffic
    /\ rxq' = rxq + 1
    /\ UNCHANGED <<inputVars, parserVars, busVars, lost, main, shown, outputVars>>

\* can_to_computer_send_lcc_frame puts the text of a frame; what the ring does
\* not take is gone.  Every frame has a text (liblcc converts it).
Shows(isLocal) ==
    LET text == <<Begin(MaxTraffic + shown + 1), End(MaxTraffic + shown + 1)>>
    IN /\ outRing' = outRing \o Accepted(outRing, text)
       /\ accepted' = accepted \o Accepted(outRing, text)
       /\ shown' = shown + 1
       /\ main' = [at |-> "text", local |-> isLocal]
       /\ UNCHANGED <<inputVars, parserVars, busVars, lost, txOn, buffer, remain, host, torn>>

\* main_loop takes a frame of the bus.
ShowsBusFrame ==
    /\ main = Idle
    /\ rxq > 0
    /\ rxq' = rxq - 1
    /\ Shows(FALSE)

\* lcc_write_cb: liblcc, called by the main thread, sends a frame.
ShowsLocalFrame ==
    /\ main = Idle
    /\ MoreTraffic
    /\ Shows(TRUE)
    /\ UNCHANGED rxq

\* The end of the line.
PutsLineEnd ==
    /\ main.at = "text"
    /\ outRing' = outRing \o Accepted(outRing, <<LineEnd(MaxTraffic + shown)>>)
    /\ accepted' = accepted \o Accepted(outRing, <<LineEnd(MaxTraffic + shown)>>)
    /\ main' = [main EXCEPT !.at = "line"]
    /\ UNCHANGED <<inputVars, parserVars, busVars, lost, rxq, shown, txOn, buffer, remain, host, torn>>

\* The interrupt left as it is.
LeavesInterrupt ==
    /\ main.at = "line"
    /\ main' = Idle
    /\ txq' = IF main.local THEN Queued(txq, Local) ELSE txq
    /\ UNCHANGED <<inputVars, parserVars, sending, out, strays, lost, rxq, shown, outputVars>>

\* uart_irq_tx_enable; a frame of the own node goes to the bus as well.
EnablesInterrupt ==
    /\ main.at = "line"
    /\ txOn' = TRUE
    /\ main' = Idle
    /\ txq' = IF main.local THEN Queued(txq, Local) ELSE txq
    /\ UNCHANGED <<inputVars, parserVars, sending, out, strays, lost, rxq, shown,
                   outRing, buffer, remain, accepted, host, torn>>

\* What the handler has to send: the rest of last time first.
Outgoing ==
    IF remain # <<>> THEN remain
    ELSE First(outRing, Chunk)

\* No tail is kept.
NoTail(b, data, k) == <<>>

\* The head once more.
HeadOfBuffer(b, data, k) == SubSeq(b, 1, Len(data) - k)

\* The tail kept of a short transmission: that of the whole buffer.
Rest(b, data, k) == SubSeq(b, Chunk - (Len(data) - k) + 1, Chunk)

\* irq_handler_can_usb, its transmitting half: USB takes k pieces.
Transmits(k) ==
    /\ txOn
    /\ k \in 1..Len(Outgoing)
    /\ buffer' = Overwritten(buffer, Outgoing)
    /\ host' = host \o SubSeq(Outgoing, 1, k)
    /\ remain' = Rest(buffer', Outgoing, k)
    /\ outRing' = IF remain # <<>> THEN outRing ELSE SubSeq(outRing, Len(Outgoing) + 1, Len(outRing))
    /\ torn' = (torn \/ (k < Len(Outgoing) /\ Len(Outgoing) < Chunk))
    /\ UNCHANGED <<inputVars, parserVars, busVars, lost, showVars, txOn, accepted>>

\* There is nothing to read.
DisablesOnEmptyRing ==
    /\ txOn
    /\ outRing = <<>>
    /\ txOn' = FALSE
    /\ UNCHANGED <<inputVars, parserVars, busVars, lost, showVars,
                   outRing, buffer, remain, accepted, host, torn>>

\* There is nothing to send.
DisablesInterrupt ==
    /\ txOn
    /\ Outgoing = <<>>
    /\ txOn' = FALSE
    /\ UNCHANGED <<inputVars, parserVars, busVars, lost, showVars,
                   outRing, buffer, remain, accepted, host, torn>>

Init ==
    /\ sent = 0 /\ begun = FALSE /\ junk = 0 /\ usb = <<>> /\ ring = <<>> /\ sem = 0
    /\ parser = "waiting" /\ line = 0 /\ frame = Undefined /\ parsed = <<>>
    /\ txq = <<>> /\ sending = <<>> /\ out = 0 /\ strays = 0 /\ lost = FALSE
    /\ rxq = 0 /\ main = Idle /\ shown = 0
    /\ outRing = <<>> /\ txOn = FALSE /\ remain = <<>>
    /\ buffer = [i \in 1..Chunk |-> Zero]
    /\ accepted = <<>> /\ host = <<>> /\ torn = FALSE

Parser == ParserWakes \/ ParserReads \/ ParserRests \/ ParserPuts
Main == MainForwards \/ ShowsBusFrame \/ PutsLineEnd \/ EnablesInterrupt
Sender == SenderTakes \/ SenderSends
Transmitter == DisablesInterrupt \/ \E k \in 1..Chunk : Transmits(k)

Next ==
    \/ ComputerWrites \/ Receives
    \/ ParserWakes \/ ParserReads \/ ParserRests \/ ParserPuts
    \/ MainForwards \/ SenderTakes \/ SenderSends
    \/ BusFrame \/ ShowsBusFrame \/ ShowsLocalFrame \/ PutsLineEnd \/ EnablesInterrupt
    \/ (\E k \in 1..Chunk : Transmits(k)) \/ DisablesInterrupt

Spec == Init /\ [][Next]_vars

(***************************************************************************)
(* Interrupts are served, and every thread that can run runs at last: none *)
(* of them waits for anything but its queue and the hardware.  The         *)
(* computer keeps reading.                                                 *)
(***************************************************************************)
FairSpec ==
    /\ Spec
    /\ WF_vars(Receives) /\ WF_vars(Transmitter)
    /\ WF_vars(Parser) /\ WF_vars(Main) /\ WF_vars(Sender)

-----------------------------------------------------------------------------
(***************************************************************************)
(* Properties.                                                             *)
(***************************************************************************)

SeqUpTo(s, S, n) == s \in Seq(S) /\ Len(s) <= n

TypeOK ==
    /\ sent \in 0..MaxTraffic /\ begun \in BOOLEAN /\ junk \in 0..MaxTraffic
    /\ SeqUpTo(usb, Pieces, Chunk)
    /\ SeqUpTo(ring, Pieces, RingSize)
    /\ sem \in {0, 1}
    /\ parser \in {"waiting", "parsing", "putting"}
    /\ line \in 0..MaxTraffic /\ frame \in Frame
    /\ SeqUpTo(parsed, Frame, QueueSize)
    /\ SeqUpTo(txq, Frame, QueueSize) /\ SeqUpTo(sending, Frame, 1)
    /\ out \in 0..MaxTraffic /\ strays \in Nat /\ lost \in BOOLEAN
    /\ rxq \in 0..QueueSize
    /\ main \in [at : {"idle", "text", "line"}, local : BOOLEAN]
    /\ shown \in 0..MaxTraffic
    /\ SeqUpTo(outRing, Pieces, RingSize)
    /\ txOn \in BOOLEAN
    /\ buffer \in [1..Chunk -> Pieces] /\ SeqUpTo(remain, Pieces, Chunk)
    /\ accepted \in Seq(Pieces) /\ host \in Seq(Pieces) /\ torn \in BOOLEAN

\* No lost wake-up: however often the interrupt gave the binary semaphore while
\* the parse thread was busy, the thread does not sleep on data in the ring.
ParserAwake == parser = "waiting" /\ ring # <<>> => sem = 1

\* The same of the transmitter, that the handler disables and the main thread
\* enables: with something left to send it is enabled, or will be by the main
\* thread, which has not come so far.
TransmitterAwake == remain # <<>> \/ outRing # <<>> => txOn \/ main # Idle

\* However transmissions are cut short, the computer gets as many bytes as the
\* ring took for it, though not always the same ones.
NothingMissing == Len(host) + Len(remain) + Len(outRing) = Len(accepted)

\* They are the same, in the same order, as long as only transmissions of a
\* full buffer were cut short.
StreamIntact == ~torn => host \o remain \o outRing = accepted

(***************************************************************************)
(* The frames of the computer: the link is a LinkChannel.                  *)
(***************************************************************************)

\* Frames that were parsed and are not on the bus, in order.
Pipeline == sending \o txq \o parsed \o (IF parser = "putting" THEN <<frame>> ELSE <<>>)

\* Those of the computer in q that come again or that nobody sent, when the
\* latest on the bus is o.
Again(q, o) ==
    {i \in DOMAIN q : /\ q[i] # Local
                      /\ q[i] <= o \/ \E j \in 1..(i - 1) : q[j] >= q[i]}

\* The text that is not parsed, from the half line in gridconnect_in on.
Text == (IF line = 0 THEN <<>> ELSE <<Begin(line)>>) \o ring \o usb

\* Its delimiters that end no whole frame.
Torn(t) ==
    {i \in DOMAIN t : t[i].part = "end" /\ ~(i > 1 /\ t[i - 1] = Begin(t[i].n))}

Damage == Cardinality(Torn(Text)) + Cardinality(Again(Pipeline, out))

Channel == INSTANCE LinkChannel WITH delimiters <- sent + junk, damage <- Damage

\* Frames of the computer keep their order and are not duplicated, however its
\* text is cut by full buffers, except for one frame, undefined or sent again,
\* for each delimiter that ends no whole frame.
ChannelImplemented == Channel!Spec

\* Nothing is left behind: when the computer pauses, every frame it has written
\* gets to the bus without another to push it, unless one was lost to a full
\* buffer or to the bus.
FramesArrive == out < sent ~> out = sent \/ lost

\* So does all that the link has for the computer, short transmissions or not.
ComputerServed == Len(host) < Len(accepted) ~> Len(host) = Len(accepted)

-----------------------------------------------------------------------------
(***************************************************************************)
(* The inductive invariant that the proofs rest on (LccLinkProofs).        *)
(***************************************************************************)

\* What the computer writes: halves of its own frames, and lone delimiters.
Halves == [n : 0..MaxTraffic, part : {"begin", "end"}]

InputFromComputer == usb \in Seq(Halves) /\ ring \in Seq(Halves)

LinkInv ==
    /\ TypeOK /\ Traffic <= MaxTraffic /\ InputFromComputer
    /\ ParserAwake /\ TransmitterAwake
    /\ NothingMissing /\ StreamIntact

\* The frames begun in the text are begun in their order, and the ends are of
\* frames that were sent.
TextInOrder ==
    \A i \in DOMAIN Text :
        IF Text[i].part = "begin"
        THEN /\ Text[i].n <= sent + (IF begun THEN 1 ELSE 0)
             /\ \A j \in 1..(i - 1) : Text[j].part = "begin" => Text[j].n < Text[i].n
        ELSE Text[i].n <= sent

\* Frame f is not later than those sent, and every one begun in the text is.
Passed(f) ==
    /\ f <= sent
    /\ \A i \in DOMAIN Text : Text[i].part = "begin" => f < Text[i].n

ChannelInv ==
    /\ TextInOrder
    /\ Passed(Local) /\ Passed(out) /\ Passed(frame)
    /\ \A j \in DOMAIN Pipeline : Passed(Pipeline[j])

==============================================================================

------------------------------ MODULE HidFrame ------------------------------
(***************************************************************************)
(* src/src/protocol/hid_frame.c: APDUs cut into USB reports and put        *)
(* together again.  The host frames as the device does (hid_frame_tx), so  *)
(* the model sends the reports of hid_frame_tx into hid_frame_rx, with the *)
(* disorder the receiver has to stand: a report repeated or lost, the      *)
(* first of a message too, one of another channel, one too short, one with *)
(* an impossible length, and a message given up for the next.              *)
(***************************************************************************)
EXTENDS Integers, Sequences

CONSTANTS
    FrameSize,      \* HID_FRAME_SIZE
    MinApdu,        \* HID_FRAME_MIN_APDU
    MaxApdu,        \* HID_FRAME_MAX_APDU
    TxSlots,        \* frames the response queue holds
    Lengths,        \* lengths of the messages sent
    MaxMessages     \* bound: messages of one behaviour

FirstCap == FrameSize - 7
NextCap == FrameSize - 5

ASSUME FrameAssumption ==
    /\ FrameSize \in Nat /\ FrameSize > 7
    /\ MinApdu \in Nat /\ MinApdu > 0
    /\ MaxApdu \in Nat
    /\ TxSlots \in Nat /\ TxSlots > 0
    /\ MaxApdu <= FirstCap + (TxSlots - 1) * NextCap
    /\ Lengths \subseteq MinApdu..MaxApdu
    /\ MaxMessages \in Nat

VARIABLES
    rxTotal,    \* rx_total: length of the message being received, 0 when idle
    rxLen,      \* rx_len: bytes received
    rxSeq,      \* rx_seq: next sequence number
    rxApdu,     \* rx_apdu: the bytes received, the first rx_len of the buffer
    msg,        \* host: number of the message it sends
    len,        \* host: its length
    next,       \* host: sequence number of its next report
    written,    \* history: the most bytes ever copied to rx_apdu
    clean,      \* host: since its first report, nothing happened to this message
    headless,   \* host: the first report of this message was lost
    got         \* what hid_frame_rx returned with HID_FRAME_DONE

rxVars == <<rxTotal, rxLen, rxSeq, rxApdu>>
frameVars == <<rxVars, msg, len, next, clean, headless, got, written>>

Lesser(a, b) == IF a <= b THEN a ELSE b

-----------------------------------------------------------------------------
(* hid_frame_tx.                                                           *)

Pad == <<0, 0>>

\* Fault: every frame has only the room of the first.
OffsetOfEqualFrames(k) == k * FirstCap

\* Bytes of a message before its frame k, and the room in that frame.
Offset(k) == IF k = 0 THEN 0 ELSE FirstCap + (k - 1) * NextCap
Cap(k) == IF k = 0 THEN FirstCap ELSE NextCap

\* Frame k of message m: the first one carries the length, the last is padded.
Frame(m, l, k) ==
    [len |-> FrameSize, ours |-> TRUE, seq |-> k, total |-> IF k = 0 THEN l ELSE 0,
     data |-> [i \in 1..Cap(k) |-> IF Offset(k) + i <= l THEN <<m, Offset(k) + i>> ELSE Pad]]

\* while (offset < len)
Due(l, k) == Offset(k) < l

-----------------------------------------------------------------------------
(* hid_frame_rx.                                                           *)

RxReset == rxTotal' = 0 /\ rxLen' = 0 /\ rxSeq' = 0 /\ rxApdu' = <<>>

HdrLen(r) == IF r.seq = 0 THEN 7 ELSE 5

TooShort(r) == r.len < 5 \/ (r.ours /\ r.seq = 0 /\ r.len < 7)
BadTotal(r) == r.seq = 0 /\ r.total \notin MinApdu..MaxApdu

\* Fault: any report of a message in progress is taken for the next one.
OutOfSequenceUnlessIdle(r) == r.seq # 0 /\ rxTotal = 0

OutOfSequence(r) == r.seq # 0 /\ (rxTotal = 0 \/ r.seq # rxSeq)

\* Fault: the payload of the last report is copied with its padding.
TakenUnclipped(r, total, have) == r.len - HdrLen(r)

\* The bytes of the report that belong to the message.
Taken(r, total, have) == Lesser(r.len - HdrLen(r), total - have)

\* A report that fits: it starts a message or carries the next bytes of one.
Accept(r) ==
    LET total == IF r.seq = 0 THEN r.total ELSE rxTotal
        have == IF r.seq = 0 THEN 0 ELSE rxLen
        n == have + Taken(r, total, have)
        apdu == (IF r.seq = 0 THEN <<>> ELSE rxApdu) \o SubSeq(r.data, 1, n - have)
    IN /\ written' = IF n > written THEN n ELSE written
       /\ IF n >= total
          THEN RxReset /\ got' = Append(got, SubSeq(apdu, 1, total))
          ELSE /\ rxTotal' = total
               /\ rxLen' = n
               /\ rxSeq' = r.seq + 1
               /\ rxApdu' = apdu
               /\ UNCHANGED got

\* hid_frame_rx: a report that is too short or not ours changes nothing.
Rx(r) ==
    \/ (TooShort(r) \/ ~r.ours) /\ UNCHANGED <<rxVars, got, written>>
    \/ ~TooShort(r) /\ r.ours /\ (BadTotal(r) \/ OutOfSequence(r)) /\ RxReset /\ UNCHANGED <<got, written>>
    \/ ~TooShort(r) /\ r.ours /\ ~BadTotal(r) /\ ~OutOfSequence(r) /\ Accept(r)

-----------------------------------------------------------------------------
(* The host.                                                               *)

FrameInit ==
    /\ rxTotal = 0 /\ rxLen = 0 /\ rxSeq = 0 /\ rxApdu = <<>>
    /\ msg = 0 /\ len = 0 /\ next = 0 /\ clean = TRUE /\ headless = FALSE /\ got = <<>> /\ written = 0

\* The message before may not have been sent to its end.
StartMessage(l) ==
    /\ msg < MaxMessages
    /\ msg' = msg + 1
    /\ len' = l
    /\ next' = 0
    /\ clean' = TRUE
    /\ headless' = FALSE
    /\ UNCHANGED <<rxVars, got, written>>

SendReport ==
    /\ Due(len, next)
    /\ Rx(Frame(msg, len, next))
    /\ next' = next + 1
    /\ UNCHANGED <<msg, len, clean, headless>>

\* In the middle of a message: its last report again, or late.
RepeatReport ==
    /\ next > 0 /\ Due(len, next)
    /\ Rx(Frame(msg, len, next - 1))
    /\ clean' = FALSE
    /\ headless' = (headless /\ next # 1)
    /\ UNCHANGED <<msg, len, next>>

\* A report is lost.  (If it is the last, the message is given up instead.)
SkipReport ==
    /\ Due(len, next + 1)
    /\ next' = next + 1
    /\ clean' = FALSE
    /\ headless' = (headless \/ next = 0)
    /\ UNCHANGED <<rxVars, msg, len, got, written>>

Stray(l, ours, total) == [len |-> l, ours |-> ours, seq |-> 0, total |-> total, data |-> <<>>]

\* A report of another channel or tag.
ForeignReport ==
    /\ Rx(Stray(FrameSize, FALSE, MinApdu))
    /\ UNCHANGED <<msg, len, next, clean, headless>>

\* A report too short for its header: an error, but no reset.
ShortReport ==
    /\ Due(len, next)
    /\ \E l \in {4, 6} : Rx(Stray(l, TRUE, MinApdu))
    /\ clean' = (clean /\ next = 0)
    /\ UNCHANGED <<msg, len, next, headless>>

\* A first report with a length out of range.
BadLengthReport ==
    /\ Due(len, next)
    /\ \E total \in {MinApdu - 1, MaxApdu + 1} : Rx(Stray(FrameSize, TRUE, total))
    /\ clean' = (clean /\ next = 0)
    /\ UNCHANGED <<msg, len, next, headless>>

FrameNext ==
    \/ \E l \in Lengths : StartMessage(l)
    \/ SendReport
    \/ RepeatReport
    \/ SkipReport
    \/ ForeignReport
    \/ ShortReport
    \/ BadLengthReport

FrameSpec == FrameInit /\ [][FrameNext]_frameVars

-----------------------------------------------------------------------------
(* Properties.                                                             *)

\* hid_frame_rx never copies past the end of rx_apdu, whatever reports come
\* in whatever order, and what it holds is short of the length announced.
RxInBounds ==
    /\ written <= MaxApdu
    /\ rxLen = Len(rxApdu)
    /\ rxTotal = 0 => rxLen = 0 /\ rxSeq = 0
    /\ rxTotal # 0 => rxTotal \in MinApdu..MaxApdu /\ rxLen < rxTotal

\* Neither buffer of the framing overflows: reassembly stays in rx_apdu, and no
\* response is cut into more frames than the queue of hid_app.c has slots for,
\* although its first frame has less room than the others.
BuffersHold ==
    /\ RxInBounds
    /\ next <= TxSlots

\* Where the message being sent has got to, and what the receiver has begun.
Phase ==
    CASE ~Due(len, next) -> "done"
      [] Due(len, next) /\ headless -> "headless"
      [] Due(len, next) /\ ~headless -> IF clean THEN "sending" ELSE "spoiled"
Begun == IF rxTotal = 0 THEN [of |-> 0, len |-> 0] ELSE [of |-> rxApdu[1][1], len |-> rxTotal]

\* Framing implements Transport: messages arrive whole, in order and once, and
\* two are joined only where the second has lost its first report after the
\* first was given up.
Abstract == INSTANCE Transport WITH phase <- Phase, begun <- Begun
TransportSpec == Abstract!Spec
=============================================================================

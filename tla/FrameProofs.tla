---------------------------- MODULE FrameProofs ----------------------------
(***************************************************************************)
(* HID framing, proved for every frame size, message length and number of  *)
(* queue slots: the buffers are large enough, and reports implement the    *)
(* abstract transport.                                                     *)
(***************************************************************************)
EXTENDS HidFrame, SequenceTheorems, TLAPS

Byte == Nat \X Nat

\* The first n bytes of message m.
Prefix(m, n) == [i \in 1..n |-> <<m, i>>]

FrameType ==
    /\ rxTotal \in Nat /\ rxLen \in Nat /\ rxSeq \in Nat
    /\ rxApdu \in Seq(Byte)
    /\ written \in Nat
    /\ got \in Seq(Seq(Byte))
    /\ msg \in Nat /\ next \in Nat /\ clean \in BOOLEAN /\ headless \in BOOLEAN
    /\ len \in Lengths \cup {0}

(* The receiver's bounds, and the host's: it sends no report it has no     *)
(* byte for.                                                               *)
BoundsInv ==
    /\ FrameType
    /\ RxInBounds
    /\ next > 0 => Due(len, next - 1)

(* The message of which the receiver holds the beginning.                  *)
Oldest == rxApdu[1][1]

\* The first n bytes begin message b; each is of it or of a later one, in its place.
Mixed(apdu, n, b, last) ==
    /\ apdu[1] = << b, 1 >>
    /\ \A i \in 1..n : apdu[i] = Pad \/ \E m \in b..last : apdu[i] = << m, i >>

(* What the receiver holds are whole reports, each byte in its place.      *)
HeldInv ==
    rxTotal # 0 =>
        /\ rxSeq # 0
        /\ rxLen = Offset(rxSeq)
        /\ Oldest \in 1..msg
        /\ Mixed(rxApdu, rxLen, Oldest, msg)

(* It is of an older message as long as the first report of this one has   *)
(* not arrived.                                                            *)
OlderInv ==
    /\ len # 0 => msg # 0
    /\ next = 0 => clean
    /\ headless => next > 0 /\ ~clean
    /\ rxTotal # 0 /\ (next = 0 \/ headless) => Oldest < msg

(* Once it has, the receiver is idle or holds reports of this message, and *)
(* it holds them all if nothing went wrong.                                *)
MiddleInv ==
    next > 0 /\ Due(len, next) /\ ~headless =>
        /\ rxTotal # 0 =>
             /\ rxTotal = len
             /\ rxSeq \in 1..next
             /\ rxLen = Offset(rxSeq)
             /\ rxApdu = Prefix(msg, rxLen)
        /\ clean => rxTotal # 0 /\ rxSeq = next

-----------------------------------------------------------------------------
(* Frames.                                                                 *)

LEMMA Product ==
    ASSUME NEW a \in Nat, NEW b \in Nat, NEW c \in Nat, a <= b
    PROVE  a * c <= b * c /\ a * c \in Nat
<1>1. PICK d \in Nat : b = a + d
  BY b - a \in Nat
<1>2. b * c = a * c + d * c /\ a * c \in Nat /\ d * c \in Nat
  BY <1>1
<1> QED BY <1>2

LEMMA Caps ==
    ASSUME NEW k \in Nat
    PROVE  /\ FirstCap \in Nat \ {0} /\ NextCap \in Nat \ {0}
           /\ Cap(k) \in Nat \ {0}
BY FrameAssumption DEF FirstCap, NextCap, Cap

LEMMA OffsetGrows ==
    ASSUME NEW k \in Nat
    PROVE  Offset(k) \in Nat /\ Offset(k + 1) = Offset(k) + Cap(k)
<1>1. CASE k = 0
  <2>1. Offset(k) = 0 /\ Offset(k + 1) = FirstCap + 0 * NextCap /\ Cap(k) = FirstCap
    BY <1>1 DEF Offset, Cap
  <2> QED BY <2>1, Caps
<1>2. CASE k # 0
  <2>1. k - 1 \in Nat /\ (k + 1) - 1 = (k - 1) + 1
    BY <1>2
  <2>2. (k - 1) * NextCap \in Nat /\ ((k - 1) + 1) * NextCap = (k - 1) * NextCap + NextCap
    BY <2>1, Caps
  <2>3. Offset(k) = FirstCap + (k - 1) * NextCap
    BY <1>2 DEF Offset
  <2>4. Offset(k + 1) = FirstCap + ((k - 1) + 1) * NextCap
    BY <1>2, <2>1 DEF Offset
  <2> QED BY <1>2, <2>2, <2>3, <2>4, Caps DEF Cap
<1> QED BY <1>1, <1>2

LEMMA DueBefore ==
    ASSUME NEW l \in Nat, NEW k \in Nat, Due(l, k + 1)
    PROVE  Due(l, k)
BY OffsetGrows, Caps DEF Due

\* The queue holds every frame of the longest response.
LEMMA SlotsSuffice ==
    ASSUME NEW l \in Nat, l <= MaxApdu, NEW k \in Nat, Due(l, k)
    PROVE  k + 1 <= TxSlots
<1>1. SUFFICES ASSUME k >= TxSlots PROVE FALSE
  BY FrameAssumption
<1>2. k # 0 /\ k - 1 \in Nat /\ TxSlots - 1 \in Nat /\ TxSlots - 1 <= k - 1
  BY <1>1, FrameAssumption
<1>3. (TxSlots - 1) * NextCap <= (k - 1) * NextCap
      /\ (TxSlots - 1) * NextCap \in Nat /\ (k - 1) * NextCap \in Nat
  BY <1>2, Caps, Product
<1>4. FirstCap + (k - 1) * NextCap < l
  BY <1>2 DEF Due, Offset
<1> QED BY <1>3, <1>4, Caps, FrameAssumption

LEMMA FrameShape ==
    ASSUME NEW m \in Nat, NEW l \in Lengths, NEW k \in Nat
    PROVE  /\ Frame(m, l, k).data \in Seq(Byte)
           /\ Len(Frame(m, l, k).data) = Cap(k)
           /\ Frame(m, l, k).len - HdrLen(Frame(m, l, k)) = Cap(k)
           /\ Frame(m, l, k).seq = k
           /\ k = 0 => Frame(m, l, k).total = l
           /\ Frame(m, l, k).ours
           /\ ~TooShort(Frame(m, l, k))
           /\ ~BadTotal(Frame(m, l, k))
           /\ \A i \in 1..Cap(k) : Frame(m, l, k).data[i] \in {Pad, <<m, Offset(k) + i>>}
           /\ \A i \in 1..Cap(k) : Offset(k) + i <= l => Frame(m, l, k).data[i] = <<m, Offset(k) + i>>
<1> DEFINE f == Frame(m, l, k)
<1>1. f.len = FrameSize /\ f.ours /\ f.seq = k /\ f.total = (IF k = 0 THEN l ELSE 0)
      /\ f.data = [i \in 1..Cap(k) |-> IF Offset(k) + i <= l THEN <<m, Offset(k) + i>> ELSE Pad]
  BY DEF Frame
<1>2. Cap(k) \in Nat /\ Offset(k) \in Nat
  BY Caps, OffsetGrows
<1>3. \A i \in 1..Cap(k) : f.data[i] \in Byte
  BY <1>1, <1>2 DEF Pad, Byte
<1>4. f.data \in Seq(Byte) /\ Len(f.data) = Cap(k)
  <2> HIDE DEF f
  <2>1. f.data = [i \in 1..Cap(k) |-> f.data[i]]
    BY <1>1
  <2>2. f.data \in [1..Cap(k) -> Byte]
    BY <2>1, <1>3
  <2> QED BY <1>2, <2>2
<1>5. FrameSize \in Nat /\ FrameSize > 7 /\ l \in MinApdu..MaxApdu
  BY FrameAssumption
<1>6. f.len - HdrLen(f) = Cap(k)
  BY <1>1, <1>5 DEF HdrLen, Cap, FirstCap, NextCap
<1>7. ~TooShort(f) /\ ~BadTotal(f)
  BY <1>1, <1>5 DEF TooShort, BadTotal
<1> HIDE DEF f
<1>8. \A i \in 1..Cap(k) : /\ Offset(k) + i <= l => f.data[i] = <<m, Offset(k) + i>>
                            /\ f.data[i] \in {Pad, <<m, Offset(k) + i>>}
  BY <1>1
<1> QED BY <1>1, <1>4, <1>6, <1>7, <1>8 DEF f

-----------------------------------------------------------------------------
(* The receiver on a frame it accepts.                                     *)

Total(l, k) == IF k = 0 THEN l ELSE rxTotal
Have(k) == IF k = 0 THEN 0 ELSE rxLen
Held(k) == IF k = 0 THEN <<>> ELSE rxApdu
Fill(l, k) == Lesser(Cap(k), Total(l, k) - Have(k))

\* The buffer and the result after frame k, apdu being what is held by then.
Effect(k, apdu) ==
    LET n == Have(k) + Fill(len, k)
    IN /\ Total(len, k) \in MinApdu..MaxApdu
       /\ Have(k) \in Nat /\ Have(k) < Total(len, k)
       /\ Fill(len, k) \in 1..Cap(k) /\ n <= Total(len, k)
       /\ apdu \in Seq(Byte) /\ Len(apdu) = n
       /\ \A i \in 1..Have(k) : apdu[i] = rxApdu[i]
       /\ \A i \in 1..Fill(len, k) : apdu[Have(k) + i] = Frame(msg, len, k).data[i]
       /\ written' = IF n > written THEN n ELSE written
       /\ IF n >= Total(len, k)
          THEN RxReset /\ got' = Append(got, SubSeq(apdu, 1, Total(len, k)))
          ELSE /\ rxTotal' = Total(len, k)
               /\ rxLen' = n
               /\ rxSeq' = k + 1
               /\ rxApdu' = apdu
               /\ UNCHANGED got

LEMMA AcceptEffect ==
    ASSUME FrameType, RxInBounds, len \in Lengths, NEW k \in Nat,
           ~OutOfSequence(Frame(msg, len, k)), Accept(Frame(msg, len, k)),
           NEW apdu, apdu = Held(k) \o SubSeq(Frame(msg, len, k).data, 1, Fill(len, k))
    PROVE  Effect(k, apdu)
<1> DEFINE f == Frame(msg, len, k)
           t == Fill(len, k)
           part == SubSeq(f.data, 1, t)
<1>1. /\ f.data \in Seq(Byte) /\ Len(f.data) = Cap(k)
      /\ f.len - HdrLen(f) = Cap(k) /\ f.seq = k /\ (k = 0 => f.total = len)
  <2>1. msg \in Nat
    BY DEF FrameType
  <2> QED BY <2>1, FrameShape
<1>2. len \in MinApdu..MaxApdu /\ MinApdu \in Nat /\ MinApdu > 0 /\ MaxApdu \in Nat
  BY FrameAssumption
<1>3. k # 0 => rxTotal # 0 /\ k = rxSeq
  BY <1>1 DEF OutOfSequence
<1>4. Total(len, k) \in MinApdu..MaxApdu /\ Have(k) \in Nat /\ Have(k) < Total(len, k)
  BY <1>2, <1>3 DEF RxInBounds, FrameType, Total, Have
<1>5. t \in 1..Cap(k) /\ Have(k) + t <= Total(len, k)
  <2>1. Cap(k) \in Nat \ {0}
    BY Caps
  <2>2. Total(len, k) \in Nat /\ Total(len, k) - Have(k) \in Nat \ {0}
    BY <1>2, <1>4
  <2>3. t = IF Cap(k) <= Total(len, k) - Have(k) THEN Cap(k) ELSE Total(len, k) - Have(k)
    BY DEF Fill, Lesser
  <2> HIDE DEF t
  <2> QED BY <2>1, <2>2, <2>3, <1>4
<1>6. Held(k) \in Seq(Byte) /\ Len(Held(k)) = Have(k) /\ (k # 0 => Held(k) = rxApdu)
  BY EmptySeq DEF Held, Have, RxInBounds, FrameType
<1>7. part \in Seq(Byte) /\ Len(part) = t /\ \A i \in 1..t : part[i] = f.data[i]
  <2>1. Cap(k) \in Nat
    BY Caps
  <2> HIDE DEF f, t
  <2> QED BY <1>1, <1>5, <2>1, SubSeqProperties
<1>8. /\ apdu \in Seq(Byte) /\ Len(apdu) = Have(k) + t
      /\ \A i \in 1..Have(k) : apdu[i] = Held(k)[i]
      /\ \A i \in 1..t : apdu[Have(k) + i] = part[i]
  <2>1. apdu = Held(k) \o part
    OBVIOUS
  <2>2. Cap(k) \in Nat
    BY Caps
  <2>3. Have(k) \in Nat /\ t \in Nat
    BY <1>4, <1>5, <2>2
  <2> HIDE DEF part, t
  <2>4. apdu \in Seq(Byte) /\ Len(apdu) = Have(k) + t
    BY <1>6, <1>7, <2>1, ConcatProperties
  <2>5. \A i \in 1..Have(k) + t : apdu[i] = IF i <= Have(k) THEN Held(k)[i] ELSE part[i - Have(k)]
    <3>1. \A i \in 1..Len(Held(k)) + Len(part) :
             (Held(k) \o part)[i] = IF i <= Len(Held(k)) THEN Held(k)[i] ELSE part[i - Len(Held(k))]
      <4>1. Held(k) \in Seq(Byte) /\ part \in Seq(Byte)
        BY <1>6, <1>7
      <4> QED BY <4>1, ConcatProperties, Zenon
    <3>2. Len(Held(k)) = Have(k) /\ Len(part) = t
      BY <1>6, <1>7
    <3> QED BY <2>1, <3>1, <3>2
  <2>6. ASSUME NEW i \in 1..t PROVE apdu[Have(k) + i] = part[i]
    <3>1. Have(k) + i \in 1..Have(k) + t /\ ~(Have(k) + i <= Have(k)) /\ (Have(k) + i) - Have(k) = i
      BY <2>3
    <3> QED BY <2>5, <3>1
  <2>7. \A i \in 1..Have(k) : i \in 1..Have(k) + t /\ i <= Have(k)
    BY <2>3
  <2> QED BY <2>4, <2>5, <2>6, <2>7
<1>9. \A i \in 1..Have(k) : apdu[i] = rxApdu[i]
  BY <1>6, <1>8 DEF Have
<1>10. Taken(f, Total(len, k), Have(k)) = t
  <2> HIDE DEF f
  <2> QED BY <1>1 DEF Taken, Fill
<1>11. /\ written' = IF Have(k) + t > written THEN Have(k) + t ELSE written
       /\ IF Have(k) + t >= Total(len, k)
          THEN RxReset /\ got' = Append(got, SubSeq(apdu, 1, Total(len, k)))
          ELSE /\ rxTotal' = Total(len, k)
               /\ rxLen' = Have(k) + t
               /\ rxSeq' = k + 1
               /\ rxApdu' = apdu
               /\ UNCHANGED got
  <2>1. Total(len, k) = (IF f.seq = 0 THEN f.total ELSE rxTotal)
        /\ Have(k) = (IF f.seq = 0 THEN 0 ELSE rxLen)
        /\ Held(k) = (IF f.seq = 0 THEN <<>> ELSE rxApdu)
    BY <1>1 DEF Total, Have, Held
  <2>2. Accept(f) /\ f.seq = k
    BY <1>1
  <2>3. (Have(k) + t) - Have(k) = t
    BY <1>4, <1>5, Caps
  <2>4. apdu = Held(k) \o SubSeq(f.data, 1, t)
    OBVIOUS
  <2> HIDE DEF f, t
  <2> QED BY <1>10, <2>1, <2>2, <2>3, <2>4 DEF Accept
<1> QED BY <1>4, <1>5, <1>7, <1>8, <1>9, <1>11 DEF Effect

LEMMA RxCases ==
    ASSUME len \in Lengths, msg \in Nat, NEW k \in Nat, Rx(Frame(msg, len, k))
    PROVE  \/ OutOfSequence(Frame(msg, len, k)) /\ RxReset /\ UNCHANGED <<got, written>>
           \/ ~OutOfSequence(Frame(msg, len, k)) /\ Accept(Frame(msg, len, k))
BY FrameShape DEF Rx

RxType ==
    /\ rxTotal \in Nat /\ rxLen \in Nat /\ rxSeq \in Nat
    /\ rxApdu \in Seq(Byte)
    /\ written \in Nat
    /\ got \in Seq(Seq(Byte))

LEMMA ResetBounds ==
    ASSUME FrameType, RxInBounds, RxReset, UNCHANGED <<got, written>>
    PROVE  RxType' /\ RxInBounds'
<1>1. rxApdu' = <<>> /\ Len(<<>>) = 0 /\ <<>> \in Seq(Byte)
  BY EmptySeq DEF RxReset
<1> QED BY <1>1 DEF RxReset, RxType, RxInBounds, FrameType

LEMMA FrameBounds ==
    ASSUME FrameType, RxInBounds, len \in Lengths, NEW k \in Nat, Rx(Frame(msg, len, k))
    PROVE  RxType' /\ RxInBounds'
<1>1. CASE OutOfSequence(Frame(msg, len, k))
  BY <1>1, RxCases, ResetBounds DEF FrameType
<1>2. CASE ~OutOfSequence(Frame(msg, len, k))
  <2> DEFINE apdu == Held(k) \o SubSeq(Frame(msg, len, k).data, 1, Fill(len, k))
             n == Have(k) + Fill(len, k)
  <2>1. Accept(Frame(msg, len, k))
    BY <1>2, RxCases DEF FrameType
  <2>2. /\ Total(len, k) \in MinApdu..MaxApdu
        /\ Have(k) \in Nat /\ Fill(len, k) \in 1..Cap(k) /\ n <= Total(len, k)
        /\ apdu \in Seq(Byte) /\ Len(apdu) = n
        /\ written' = IF n > written THEN n ELSE written
        /\ IF n >= Total(len, k)
           THEN RxReset /\ got' = Append(got, SubSeq(apdu, 1, Total(len, k)))
           ELSE rxTotal' = Total(len, k) /\ rxLen' = n /\ rxSeq' = k + 1 /\ rxApdu' = apdu /\ UNCHANGED got
    <3>1. Effect(k, apdu)
      BY <1>2, <2>1, AcceptEffect
    <3> QED BY <3>1 DEF Effect
  <2> HIDE DEF apdu
  <2>3. n \in Nat \ {0} /\ MinApdu \in Nat \ {0} /\ MaxApdu \in Nat
    <3>1. Cap(k) \in Nat /\ MinApdu \in Nat \ {0} /\ MaxApdu \in Nat
      BY Caps, FrameAssumption
    <3>2. Fill(len, k) \in Nat \ {0} /\ Have(k) \in Nat
      BY <2>2, <3>1
    <3> QED BY <3>1, <3>2
  <2>4. written' \in Nat /\ written' <= MaxApdu
    BY <2>2, <2>3 DEF RxInBounds, FrameType
  <2> HIDE DEF n
  <2>5. CASE n >= Total(len, k)
    <3>1. rxApdu' = <<>> /\ Len(<<>>) = 0 /\ <<>> \in Seq(Byte)
      BY <2>2, <2>5, EmptySeq DEF RxReset
    <3>2. n = Total(len, k)
      BY <2>2, <2>3, <2>5
    <3>3. SubSeq(apdu, 1, Total(len, k)) = apdu
      BY <2>2, <3>2, SubSeqFull
    <3>4. got' = Append(got, apdu) /\ got \in Seq(Seq(Byte)) /\ apdu \in Seq(Byte)
      BY <2>2, <2>5, <3>3 DEF FrameType
    <3>5. got' \in Seq(Seq(Byte))
      BY <3>4, AppendProperties
    <3> QED BY <2>2, <2>4, <2>5, <3>1, <3>5 DEF RxReset, RxType, RxInBounds
  <2>6. CASE ~(n >= Total(len, k))
    BY <2>2, <2>3, <2>4, <2>6 DEF RxType, RxInBounds, FrameType
  <2> QED BY <2>5, <2>6
<1> QED BY <1>1, <1>2

\* The host's own moves leave the receiver alone.
LEMMA RxUntouched ==
    ASSUME FrameType, RxInBounds, UNCHANGED <<rxVars, got, written>>
    PROVE  RxType' /\ RxInBounds'
BY DEF rxVars, FrameType, RxType, RxInBounds

LEMMA ForeignUntouched ==
    ASSUME ForeignReport
    PROVE  UNCHANGED <<rxVars, got, written, msg, len, next, clean, headless>>
<1> DEFINE r == Stray(FrameSize, FALSE, MinApdu)
<1>1. ~r.ours
  BY DEF Stray
<1> QED BY <1>1 DEF Rx, ForeignReport

LEMMA ShortUntouched ==
    ASSUME ShortReport
    PROVE  /\ UNCHANGED <<rxVars, got, written, msg, len, next, headless>>
           /\ clean' = (clean /\ next = 0) /\ Due(len, next)
<1>1. PICK l \in {4, 6} : Rx(Stray(l, TRUE, MinApdu))
  BY DEF ShortReport
<1>2. TooShort(Stray(l, TRUE, MinApdu))
  BY DEF Stray, TooShort
<1> QED BY <1>1, <1>2 DEF Rx, ShortReport

LEMMA BadLengthResets ==
    ASSUME BadLengthReport
    PROVE  /\ RxReset /\ UNCHANGED <<got, written, msg, len, next, headless>>
           /\ clean' = (clean /\ next = 0) /\ Due(len, next)
<1>1. PICK total \in {MinApdu - 1, MaxApdu + 1} : Rx(Stray(FrameSize, TRUE, total))
  BY DEF BadLengthReport
<1> DEFINE r == Stray(FrameSize, TRUE, total)
<1>2. r.len = FrameSize /\ r.ours /\ r.seq = 0 /\ r.total = total
  BY DEF Stray
<1>3. FrameSize \in Nat /\ FrameSize > 7 /\ total \notin MinApdu..MaxApdu
  BY <1>1, FrameAssumption
<1> HIDE DEF r
<1>4. ~TooShort(r) /\ BadTotal(r)
  BY <1>2, <1>3 DEF TooShort, BadTotal
<1> QED BY <1>1, <1>2, <1>4 DEF r, Rx, BadLengthReport

\* A host that is due has a message.
LEMMA DueMessage ==
    ASSUME FrameType, NEW k \in Nat, Due(len, k)
    PROVE  len \in Lengths /\ len \in Nat /\ len <= MaxApdu
<1>1. len # 0
  BY OffsetGrows DEF Due
<1> QED BY <1>1, FrameAssumption DEF FrameType

-----------------------------------------------------------------------------
(* Bounds.                                                                 *)

LEMMA BoundsInit == FrameInit => BoundsInv
<1>1. <<>> \in Seq(Byte) /\ <<>> \in Seq(Seq(Byte)) /\ Len(<<>>) = 0
  BY EmptySeq
<1>2. SUFFICES ASSUME FrameInit PROVE BoundsInv
  OBVIOUS
<1>3. FrameType
  BY <1>1, <1>2 DEF FrameInit, FrameType
<1> QED BY <1>1, <1>2, <1>3, FrameAssumption DEF FrameInit, BoundsInv, RxInBounds

LEMMA BoundsStep ==
    ASSUME BoundsInv, [FrameNext]_frameVars
    PROVE  BoundsInv'
<1> USE DEF BoundsInv
<1>1. ASSUME NEW l \in Lengths, StartMessage(l) PROVE BoundsInv'
  <2>1. /\ msg' = msg + 1 /\ len' = l /\ next' = 0 /\ clean' \in BOOLEAN /\ headless' \in BOOLEAN
        /\ UNCHANGED <<rxVars, got, written>>
    BY <1>1, Zenon DEF StartMessage
  <2>2. RxType' /\ RxInBounds'
    BY <2>1, RxUntouched
  <2> QED BY <2>1, <2>2 DEF FrameType, RxType
<1>2. CASE SendReport
  <2>1. len \in Lengths /\ Rx(Frame(msg, len, next)) /\ next' = next + 1 /\ (next + 1) - 1 = next
        /\ Due(len, next) /\ UNCHANGED <<msg, len, clean, headless>> /\ next \in Nat
    BY <1>2, DueMessage DEF SendReport, FrameType
  <2>2. RxType' /\ RxInBounds'
    BY <2>1, FrameBounds
  <2> QED BY <2>1, <2>2 DEF FrameType, RxType
<1>3. CASE RepeatReport
  <2>1. next - 1 \in Nat /\ len \in Lengths /\ Rx(Frame(msg, len, next - 1)) /\ clean' = FALSE
        /\ headless' \in BOOLEAN /\ UNCHANGED <<msg, len, next>>
    BY <1>3, DueMessage DEF RepeatReport, FrameType
  <2>2. RxType' /\ RxInBounds'
    BY <2>1, FrameBounds
  <2> QED BY <2>1, <2>2 DEF FrameType, RxType
<1>4. CASE SkipReport
  <2>1. next + 1 \in Nat /\ Due(len, next + 1) /\ next' = next + 1 /\ clean' = FALSE /\ headless' \in BOOLEAN
        /\ UNCHANGED <<msg, len, rxVars, got, written>> /\ (next + 1) - 1 = next /\ next \in Nat
    BY <1>4 DEF SkipReport, FrameType
  <2>2. Due(len, next)
    BY <2>1, DueMessage, DueBefore
  <2> QED BY <2>1, <2>2, RxUntouched DEF FrameType, RxType
<1>5. CASE ForeignReport
  BY <1>5, ForeignUntouched, RxUntouched DEF FrameType, RxType
<1>6. CASE ShortReport
  BY <1>6, ShortUntouched, RxUntouched DEF FrameType, RxType
<1>7. CASE BadLengthReport
  BY <1>7, BadLengthResets, ResetBounds DEF FrameType, RxType
<1>8. CASE UNCHANGED frameVars
  BY <1>8, RxUntouched DEF frameVars, FrameType, RxType
<1> QED BY <1>1, <1>2, <1>3, <1>4, <1>5, <1>6, <1>7, <1>8 DEF FrameNext

\* hid_frame_rx never copies past the end of rx_apdu (hid_frame.c:42), for every
\* report size and every order of good and bad reports, and a response of the
\* longest length fits the frames of the queue (tx_frames in hid_callbacks.c).
THEOREM BuffersHoldAlways == FrameSpec => []BuffersHold
<1>1. BoundsInv => BuffersHold
  <2>1. SUFFICES ASSUME BoundsInv, next > 0 PROVE next <= TxSlots
    BY FrameAssumption DEF BoundsInv, FrameType, BuffersHold
  <2>2. next - 1 \in Nat /\ Due(len, next - 1) /\ (next - 1) + 1 = next
    BY <2>1 DEF BoundsInv, FrameType
  <2>3. len \in Nat /\ len <= MaxApdu
    BY <2>1, <2>2, DueMessage DEF BoundsInv
  <2> QED BY <2>2, <2>3, SlotsSuffice
<1> QED BY <1>1, BoundsInit, BoundsStep, PTL DEF FrameSpec

-----------------------------------------------------------------------------
(* What a frame does to the receiver.                                      *)

\* Receiver and host agree on what frame k follows.
Joins(k) == k # 0 => rxTotal = len /\ rxLen = Offset(k) /\ rxApdu = Prefix(msg, rxLen)

\* The receiver after it has taken frame k for the next of the same message.
Advance(k) ==
    IF Due(len, k + 1)
    THEN /\ rxTotal' = len /\ rxSeq' = k + 1
         /\ rxLen' = Offset(k + 1) /\ rxApdu' = Prefix(msg, Offset(k + 1))
         /\ UNCHANGED got
    ELSE RxReset /\ got' = Append(got, Abstract!Whole(msg, len))

LEMMA AcceptAdvances ==
    ASSUME FrameType, RxInBounds, NEW k \in Nat, Due(len, k), Joins(k),
           ~OutOfSequence(Frame(msg, len, k)), Accept(Frame(msg, len, k))
    PROVE  Advance(k)
<1> DEFINE n == Have(k) + Fill(len, k)
<1>0. PICK apdu : apdu = Held(k) \o SubSeq(Frame(msg, len, k).data, 1, Fill(len, k))
  OBVIOUS
<1>1. len \in Lengths /\ len \in Nat /\ msg \in Nat
  BY DueMessage DEF FrameType
<1>2. /\ Have(k) \in Nat /\ Have(k) < Total(len, k)
      /\ Fill(len, k) \in 1..Cap(k) /\ n <= Total(len, k)
      /\ apdu \in Seq(Byte) /\ Len(apdu) = n
      /\ \A i \in 1..Have(k) : apdu[i] = rxApdu[i]
      /\ \A i \in 1..Fill(len, k) : apdu[Have(k) + i] = Frame(msg, len, k).data[i]
      /\ IF n >= Total(len, k)
         THEN RxReset /\ got' = Append(got, SubSeq(apdu, 1, Total(len, k)))
         ELSE rxTotal' = Total(len, k) /\ rxLen' = n /\ rxSeq' = k + 1 /\ rxApdu' = apdu /\ UNCHANGED got
  <2>1. Effect(k, apdu)
    BY <1>0, <1>1, AcceptEffect
  <2> QED BY <2>1 DEF Effect
<1>3. Offset(k) \in Nat /\ Cap(k) \in Nat \ {0} /\ Offset(k + 1) = Offset(k) + Cap(k)
  BY OffsetGrows, Caps
<1>4. Total(len, k) = len /\ Have(k) = Offset(k)
  BY DEF Joins, Total, Have, Offset
<1>5. n = IF Offset(k + 1) <= len THEN Offset(k + 1) ELSE len
  BY <1>1, <1>2, <1>3, <1>4 DEF Fill, Lesser
<1>6. Fill(len, k) \in Nat /\ n \in Nat /\ n <= len /\ n = Offset(k) + Fill(len, k)
  BY <1>1, <1>2, <1>3, <1>4
<1> HIDE DEF n
<1>7. \A i \in 1..Offset(k) : apdu[i] = <<msg, i>>
  <2>1. CASE k = 0
    BY <2>1 DEF Offset
  <2>2. CASE k # 0
    <3>1. rxApdu = Prefix(msg, Offset(k))
      BY <2>2 DEF Joins
    <3>2. \A i \in 1..Offset(k) : rxApdu[i] = <<msg, i>>
      BY <3>1 DEF Prefix
    <3> QED BY <3>2, <1>2, <1>4
  <2> QED BY <2>1, <2>2
<1>8. \A i \in 1..Fill(len, k) : apdu[Offset(k) + i] = <<msg, Offset(k) + i>>
  <2>1. \A i \in 1..Cap(k) : Offset(k) + i <= len =>
            Frame(msg, len, k).data[i] = <<msg, Offset(k) + i>>
    BY <1>1, FrameShape
  <2>2. \A i \in 1..Fill(len, k) : i \in 1..Cap(k) /\ Offset(k) + i <= len
    BY <1>1, <1>2, <1>3, <1>6
  <2> QED BY <2>1, <2>2, <1>2, <1>4
<1>9. apdu = Prefix(msg, n)
  <2>1. ASSUME NEW i \in 1..n PROVE apdu[i] = <<msg, i>>
    <3>1. CASE i <= Offset(k)
      BY <3>1, <1>3, <1>6, <1>7
    <3>2. CASE ~(i <= Offset(k))
      <4>1. i - Offset(k) \in 1..Fill(len, k) /\ Offset(k) + (i - Offset(k)) = i
        BY <3>2, <1>3, <1>6
      <4> QED BY <4>1, <1>8
    <3> QED BY <3>1, <3>2
  <2>2. apdu = [i \in 1..n |-> apdu[i]]
    BY <1>2, <1>6
  <2> QED BY <2>1, <2>2 DEF Prefix
<1>10. CASE Due(len, k + 1)
  <2>1. n = Offset(k + 1) /\ n < len
    BY <1>10, <1>1, <1>3, <1>5 DEF Due
  <2>2. ~(n >= Total(len, k))
    BY <2>1, <1>1, <1>4, <1>6
  <2> QED BY <1>2, <1>4, <1>9, <1>10, <2>1, <2>2 DEF Advance
<1>11. CASE ~Due(len, k + 1)
  <2>1. n = len
    BY <1>11, <1>1, <1>3, <1>5 DEF Due
  <2>2. RxReset /\ got' = Append(got, SubSeq(apdu, 1, len))
    BY <1>2, <1>4, <1>1, <2>1
  <2>3. SubSeq(apdu, 1, len) = apdu
    BY <1>2, <2>1, SubSeqFull
  <2> QED BY <1>9, <1>11, <2>1, <2>2, <2>3 DEF Advance, Prefix, Abstract!Whole
<1> QED BY <1>10, <1>11

\* The receiver after it has taken frame k for the next of an older message.
Extend(k) ==
    \/ /\ rxTotal' = rxTotal /\ rxSeq' = k + 1 /\ rxLen' = Offset(k + 1)
       /\ Mixed(rxApdu', Offset(k + 1), Oldest, msg)
       /\ UNCHANGED got
    \/ /\ RxReset
       /\ \E last \in Seq(Byte) :
                    /\ got' = Append(got, last)
                    /\ Len(last) = rxTotal
                    /\ Mixed(last, rxTotal, Oldest, msg)

LEMMA AcceptExtends ==
    ASSUME FrameType, RxInBounds, HeldInv, NEW k \in Nat \ {0}, Due(len, k), rxTotal # 0,
           ~OutOfSequence(Frame(msg, len, k)), Accept(Frame(msg, len, k))
    PROVE  Extend(k)
<1> DEFINE n == Have(k) + Fill(len, k)
<1>0. PICK apdu : apdu = Held(k) \o SubSeq(Frame(msg, len, k).data, 1, Fill(len, k))
  OBVIOUS
<1>1. len \in Lengths /\ msg \in Nat /\ rxTotal \in Nat
  BY DueMessage DEF FrameType
<1>2. Frame(msg, len, k).seq = k
  BY DEF Frame
<1>3. rxSeq = k
  BY <1>2 DEF OutOfSequence
<1>4. rxLen = Offset(k) /\ Oldest \in 1..msg /\ Mixed(rxApdu, rxLen, Oldest, msg)
  BY <1>3 DEF HeldInv
<1>5. Total(len, k) = rxTotal /\ Have(k) = Offset(k)
  BY <1>4 DEF Total, Have
<1>6. /\ Have(k) \in Nat /\ Have(k) < rxTotal
      /\ Fill(len, k) \in 1..Cap(k) /\ n <= rxTotal
      /\ apdu \in Seq(Byte) /\ Len(apdu) = n
      /\ \A i \in 1..Have(k) : apdu[i] = rxApdu[i]
      /\ \A i \in 1..Fill(len, k) : apdu[Have(k) + i] = Frame(msg, len, k).data[i]
      /\ IF n >= rxTotal
         THEN RxReset /\ got' = Append(got, SubSeq(apdu, 1, rxTotal))
         ELSE rxTotal' = rxTotal /\ rxLen' = n /\ rxSeq' = k + 1 /\ rxApdu' = apdu /\ UNCHANGED got
  <2>1. Effect(k, apdu)
    BY <1>0, <1>1, AcceptEffect
  <2> QED BY <1>5, <2>1 DEF Effect
<1>7. /\ Offset(k) \in Nat \ {0} /\ Cap(k) \in Nat \ {0} /\ Offset(k + 1) = Offset(k) + Cap(k)
  <2>1. k - 1 \in Nat /\ (k - 1) + 1 = k
    OBVIOUS
  <2>2. Offset(k) = Offset(k - 1) + Cap(k - 1) /\ Offset(k - 1) \in Nat /\ Cap(k - 1) \in Nat \ {0}
    BY <2>1, OffsetGrows, Caps
  <2> QED BY <2>2, OffsetGrows, Caps
<1>8. Fill(len, k) \in Nat /\ n \in Nat /\ n = Offset(k) + Fill(len, k)
  BY <1>5, <1>6, <1>7
<1>9. Fill(len, k) = IF Cap(k) <= rxTotal - Offset(k) THEN Cap(k) ELSE rxTotal - Offset(k)
  BY <1>5 DEF Fill, Lesser
<1> HIDE DEF n
<1>10. Mixed(apdu, n, Oldest, msg)
  <2>1. apdu[1] = << Oldest, 1 >>
    <3>1. 1 \in 1..Have(k)
      BY <1>5, <1>7
    <3> QED BY <1>4, <1>6, <3>1 DEF Mixed
  <2>2. ASSUME NEW i \in 1..n
        PROVE  apdu[i] = Pad \/ \E m \in Oldest..msg : apdu[i] = << m, i >>
    <3>1. CASE i <= Offset(k)
      <4>1. i \in 1..Have(k) /\ i \in 1..rxLen
        BY <1>4, <1>5, <1>7, <1>8, <3>1
      <4> QED BY <1>4, <1>6, <4>1 DEF Mixed
    <3>2. CASE ~(i <= Offset(k))
      <4>1. PICK j \in 1..Fill(len, k) : i = Offset(k) + j
        <5>1. i - Offset(k) \in 1..Fill(len, k) /\ i = Offset(k) + (i - Offset(k))
          BY <1>7, <1>8, <3>2
        <5> QED BY <5>1
      <4>2. j \in 1..Cap(k)
        BY <1>6, <1>7, <1>8
      <4>3. Frame(msg, len, k).data[j] \in {Pad, << msg, i >>}
        BY <1>1, <4>1, <4>2, FrameShape
      <4>4. msg \in Oldest..msg
        BY <1>1, <1>4
      <4> QED BY <1>5, <1>6, <4>1, <4>3, <4>4
    <3> QED BY <3>1, <3>2
  <2> QED BY <2>1, <2>2 DEF Mixed
<1>11. CASE n >= rxTotal
  <2>1. n = rxTotal
    BY <1>1, <1>6, <1>8, <1>11
  <2>2. SubSeq(apdu, 1, rxTotal) = apdu
    BY <1>6, <2>1, SubSeqFull
  <2>3. RxReset /\ got' = Append(got, apdu)
    BY <1>6, <1>11, <2>2
  <2> QED BY <1>6, <1>10, <2>1, <2>3 DEF Extend
<1>12. CASE ~(n >= rxTotal)
  <2>1. n = Offset(k + 1)
    BY <1>1, <1>7, <1>8, <1>9, <1>12
  <2> QED BY <1>6, <1>10, <1>12, <2>1 DEF Extend
<1> QED BY <1>11, <1>12

-----------------------------------------------------------------------------
(* Refinement of Transport.                                                *)

RefineInv == BoundsInv /\ HeldInv /\ OlderInv /\ MiddleInv

LEMMA RefineInit == FrameInit => RefineInv
BY BoundsInit DEF FrameInit, RefineInv, HeldInv, OlderInv, MiddleInv

\* A frame in sequence follows what the receiver holds.
LEMMA InSequenceJoins ==
    ASSUME RefineInv, NEW k \in Nat, k <= next, Due(len, next), ~headless \/ k = 0,
           ~OutOfSequence(Frame(msg, len, k))
    PROVE  Joins(k)
<1>1. SUFFICES ASSUME k # 0 PROVE rxTotal = len /\ rxLen = Offset(k) /\ rxApdu = Prefix(msg, rxLen)
  BY DEF Joins
<1>2. next \in Nat /\ next > 0
  BY <1>1 DEF RefineInv, BoundsInv, FrameType
<1>3. Frame(msg, len, k).seq = k
  BY DEF Frame
<1>4. rxTotal # 0 /\ rxSeq = k
  BY <1>1, <1>3 DEF OutOfSequence
<1> QED BY <1>1, <1>2, <1>4 DEF RefineInv, MiddleInv

Dropped(k) == k # 0 /\ RxReset /\ UNCHANGED got /\ ~(clean /\ k = next)
Followed(k) == (~headless \/ k = 0) /\ (k # 0 => rxTotal # 0) /\ Advance(k)
Mistaken(k) == headless /\ k # 0 /\ rxTotal # 0 /\ Extend(k)

\* What a frame of the message being sent does to the receiver.
LEMMA FrameTaken ==
    ASSUME RefineInv, NEW k \in Nat, k <= next, Due(len, k), Due(len, next), Rx(Frame(msg, len, k))
    PROVE  Dropped(k) \/ Followed(k) \/ Mistaken(k)
<1>1. len \in Lengths /\ msg \in Nat /\ next \in Nat /\ FrameType /\ RxInBounds /\ HeldInv
  BY DueMessage DEF RefineInv, BoundsInv, FrameType
<1>2. Frame(msg, len, k).seq = k
  BY DEF Frame
<1>3. CASE OutOfSequence(Frame(msg, len, k))
  <2>1. k # 0 /\ (rxTotal = 0 \/ k # rxSeq)
    BY <1>2, <1>3 DEF OutOfSequence
  <2>2. ~(clean /\ k = next)
    BY <1>1, <2>1 DEF RefineInv, OlderInv, MiddleInv
  <2> QED BY <1>1, <1>3, <2>1, <2>2, RxCases DEF Dropped
<1>4. CASE ~OutOfSequence(Frame(msg, len, k))
  <2>1. Accept(Frame(msg, len, k))
    BY <1>1, <1>4, RxCases
  <2>2. k # 0 => rxTotal # 0
    BY <1>2, <1>4 DEF OutOfSequence
  <2>3. CASE ~headless \/ k = 0
    <3>1. Joins(k)
      BY <1>4, <2>3, InSequenceJoins
    <3> QED BY <1>1, <1>4, <2>1, <2>2, <2>3, <3>1, AcceptAdvances DEF Followed
  <2>4. CASE ~(~headless \/ k = 0)
    <3>1. k \in Nat \ {0} /\ headless /\ rxTotal # 0
      BY <2>2, <2>4
    <3> QED BY <1>1, <1>4, <2>1, <3>1, AcceptExtends DEF Mistaken
  <2> QED BY <2>3, <2>4
<1> QED BY <1>3, <1>4

LEMMA SendTaken ==
    ASSUME RefineInv, SendReport
    PROVE  /\ next \in Nat /\ Due(len, next) /\ next' = next + 1 /\ UNCHANGED <<msg, len, clean, headless>>
           /\ Dropped(next) \/ Followed(next) \/ Mistaken(next)
<1>1. next \in Nat /\ Due(len, next) /\ Rx(Frame(msg, len, next)) /\ next <= next
  BY DEF SendReport, RefineInv, BoundsInv, FrameType
<1> QED BY <1>1, FrameTaken DEF SendReport

LEMMA RepeatTaken ==
    ASSUME RefineInv, RepeatReport, NEW k, k = next - 1
    PROVE  /\ k \in Nat /\ next = k + 1 /\ Due(len, next) /\ clean' = FALSE /\ UNCHANGED <<msg, len, next>>
           /\ headless' = (headless /\ k # 0)
           /\ Dropped(k) \/ Followed(k) \/ Mistaken(k)
<1>1. next \in Nat /\ k \in Nat /\ k <= next /\ next = k + 1
  BY DEF RepeatReport, RefineInv, BoundsInv, FrameType
<1>2. len \in Nat
  BY <1>1, DueMessage DEF RepeatReport, RefineInv, BoundsInv
<1>3. Due(len, k)
  BY <1>1, <1>2, DueBefore DEF RepeatReport
<1>4. Due(len, next) /\ Rx(Frame(msg, len, k))
  BY DEF RepeatReport
<1>5. headless' = (headless /\ k # 0)
  BY <1>1 DEF RepeatReport
<1> QED BY <1>1, <1>3, <1>4, <1>5, FrameTaken DEF RepeatReport

\* A report is skipped only in a message with more to come.
LEMMA SkipTaken ==
    ASSUME RefineInv, SkipReport
    PROVE  /\ next \in Nat /\ Due(len, next) /\ Due(len, next + 1) /\ next' = next + 1 /\ clean' = FALSE
           /\ headless' = (headless \/ next = 0)
           /\ UNCHANGED <<rxTotal, rxLen, rxSeq, rxApdu, msg, len, got>>
<1>1. next \in Nat /\ next + 1 \in Nat /\ Due(len, next + 1)
  BY DEF SkipReport, RefineInv, BoundsInv, FrameType
<1>2. len \in Nat
  BY <1>1, DueMessage DEF RefineInv, BoundsInv
<1>3. Due(len, next)
  BY <1>1, <1>2, DueBefore
<1> QED BY <1>1, <1>3 DEF SkipReport, rxVars

-----------------------------------------------------------------------------
(* The invariant of the refinement.                                        *)

LEMMA OffsetPositive ==
    ASSUME NEW k \in Nat, k # 0
    PROVE  Offset(k) \in Nat \ {0}
<1>1. k - 1 \in Nat /\ (k - 1) + 1 = k
  OBVIOUS
<1>2. Offset(k) = Offset(k - 1) + Cap(k - 1) /\ Offset(k - 1) \in Nat /\ Cap(k - 1) \in Nat \ {0}
  BY <1>1, OffsetGrows, Caps
<1> QED BY <1>2

LEMMA DueHasMessage ==
    ASSUME RefineInv, Due(len, next)
    PROVE  len \in Nat \ {0} /\ msg \in Nat \ {0} /\ next \in Nat
<1>1. next \in Nat /\ msg \in Nat
  BY DEF RefineInv, BoundsInv, FrameType
<1>2. len \in Nat /\ Offset(next) \in Nat
  BY <1>1, DueMessage, OffsetGrows DEF RefineInv, BoundsInv
<1> QED BY <1>1, <1>2 DEF RefineInv, OlderInv, Due

\* The receiver after the first reports of the message being sent.
Begins(k) ==
    /\ rxTotal' = len /\ rxSeq' = k + 1
    /\ rxLen' = Offset(k + 1) /\ rxApdu' = Prefix(msg, Offset(k + 1))

LEMMA BeginsInv ==
    ASSUME NEW k \in Nat, Begins(k), msg \in Nat \ {0}, UNCHANGED msg
    PROVE  /\ rxSeq' # 0 /\ rxLen' = Offset(rxSeq') /\ Oldest' \in 1..msg'
           /\ Mixed(rxApdu', rxLen', Oldest', msg')
           /\ Oldest' = msg
<1>1. k + 1 \in Nat /\ k + 1 # 0 /\ Offset(k + 1) \in Nat \ {0}
  BY OffsetPositive
<1>2. \A i \in 1..Offset(k + 1) : rxApdu'[i] = << msg, i >>
  BY DEF Begins, Prefix
<1>3. 1 \in 1..Offset(k + 1)
  BY <1>1
<1>4. rxApdu'[1] = << msg, 1 >> /\ Oldest' = msg
  BY <1>2, <1>3 DEF Oldest
<1>5. msg \in msg..msg /\ msg \in 1..msg
  OBVIOUS
<1>6. rxSeq' = k + 1 /\ rxLen' = Offset(k + 1)
  BY DEF Begins
<1>7. Mixed(rxApdu', Offset(k + 1), msg, msg)
  BY <1>2, <1>4, <1>5 DEF Mixed
<1> QED BY <1>1, <1>4, <1>5, <1>6, <1>7

LEMMA TakenHeld ==
    ASSUME RefineInv, NEW k \in Nat, Due(len, k), UNCHANGED <<msg, len>>, msg # 0,
           Dropped(k) \/ Followed(k) \/ Mistaken(k)
    PROVE  /\ HeldInv'
           /\ rxTotal' # 0 => \/ k = 0
                              \/ ~headless
                              \/ rxTotal # 0 /\ Oldest' = Oldest
<1>1. msg \in Nat \ {0} /\ HeldInv /\ k + 1 \in Nat /\ k + 1 # 0
  BY DEF RefineInv, BoundsInv, FrameType
<1>2. CASE RxReset
  BY <1>2 DEF HeldInv, RxReset
<1>3. CASE ~RxReset /\ Followed(k)
  <2>1. Begins(k) /\ (k = 0 \/ ~headless)
    BY <1>3 DEF Followed, Advance, Begins
  <2>2. /\ rxSeq' # 0 /\ rxLen' = Offset(rxSeq') /\ Oldest' \in 1..msg'
        /\ Mixed(rxApdu', rxLen', Oldest', msg')
    BY <1>1, <2>1, BeginsInv
  <2>3. Offset(rxSeq)' = Offset(rxSeq')
    BY DEF Offset
  <2>4. Mixed(rxApdu, rxLen, Oldest, msg)' <=> Mixed(rxApdu', rxLen', Oldest', msg')
    BY DEF Mixed, Oldest, Pad
  <2> QED BY <2>1, <2>2, <2>3, <2>4 DEF HeldInv
<1>4. CASE ~RxReset /\ Mistaken(k)
  <2>1. /\ rxTotal # 0 /\ rxSeq' = k + 1 /\ rxLen' = Offset(k + 1)
        /\ Mixed(rxApdu', Offset(k + 1), Oldest, msg)
    BY <1>4 DEF Mistaken, Extend
  <2>2. Oldest \in 1..msg
    BY <1>1, <2>1 DEF HeldInv
  <2>3. rxApdu'[1] = << Oldest, 1 >>
    BY <2>1 DEF Mixed
  <2>4. Oldest' = Oldest
    BY <2>3 DEF Oldest
  <2>5. Offset(rxSeq)' = Offset(rxSeq')
    BY DEF Offset
  <2>6. Mixed(rxApdu, rxLen, Oldest, msg)' <=> Mixed(rxApdu', rxLen', Oldest', msg')
    BY DEF Mixed, Oldest, Pad
  <2>7. Mixed(rxApdu', rxLen', Oldest', msg')
    BY <2>1, <2>4
  <2> QED BY <1>1, <2>1, <2>2, <2>4, <2>5, <2>6, <2>7 DEF HeldInv
<1> QED BY <1>2, <1>3, <1>4 DEF Dropped

\* What the receiver keeps stays in its place, whatever message is next.
LEMMA UntouchedHeld ==
    ASSUME HeldInv, msg \in Nat, msg' \in {msg, msg + 1}, UNCHANGED <<rxTotal, rxLen, rxSeq, rxApdu>>
    PROVE  HeldInv' /\ Oldest' = Oldest
<1>1. Oldest' = Oldest
  BY DEF Oldest
<1>2. Offset(rxSeq)' = Offset(rxSeq)
  BY DEF Offset
<1>3. SUFFICES ASSUME rxTotal # 0 PROVE Oldest \in 1..msg' /\ Mixed(rxApdu, rxLen, Oldest, msg')
  <2>1. Mixed(rxApdu, rxLen, Oldest, msg)' <=> Mixed(rxApdu, rxLen, Oldest, msg')
    BY <1>1 DEF Mixed, Pad
  <2> QED BY <1>1, <1>2, <2>1 DEF HeldInv
<1>4. Oldest \in 1..msg /\ Mixed(rxApdu, rxLen, Oldest, msg)
  BY <1>3 DEF HeldInv
<1>5. Oldest \in 1..msg' /\ \A m \in Oldest..msg : m \in Oldest..msg'
  BY <1>4
<1> QED BY <1>4, <1>5 DEF Mixed

LEMMA HeldStep ==
    ASSUME RefineInv, [FrameNext]_frameVars
    PROVE  HeldInv' /\ OlderInv'
<1>0. next \in Nat /\ msg \in Nat /\ HeldInv /\ OlderInv /\ clean \in BOOLEAN /\ headless \in BOOLEAN
  BY DEF RefineInv, BoundsInv, FrameType
<1>1. ASSUME NEW l \in Lengths, StartMessage(l) PROVE HeldInv' /\ OlderInv'
  <2>1. msg' = msg + 1 /\ next' = 0 /\ clean' = TRUE /\ headless' = FALSE
        /\ UNCHANGED <<rxTotal, rxLen, rxSeq, rxApdu>>
    BY <1>1 DEF StartMessage, rxVars
  <2>2. HeldInv' /\ Oldest' = Oldest
    BY <1>0, <2>1, UntouchedHeld
  <2>3. rxTotal # 0 => Oldest \in 1..msg
    BY <1>0 DEF HeldInv
  <2> QED BY <1>0, <2>1, <2>2, <2>3 DEF OlderInv
<1>2. CASE SendReport
  <2>1. /\ Due(len, next) /\ next' = next + 1 /\ UNCHANGED <<msg, len, clean, headless>>
        /\ Dropped(next) \/ Followed(next) \/ Mistaken(next)
    BY <1>2, SendTaken
  <2>2. msg # 0
    BY <2>1, DueHasMessage
  <2>3. HeldInv' /\ (rxTotal' # 0 => next = 0 \/ ~headless \/ (rxTotal # 0 /\ Oldest' = Oldest))
    BY <1>0, <2>1, <2>2, TakenHeld
  <2> QED BY <1>0, <2>1, <2>3 DEF OlderInv
<1>3. CASE RepeatReport
  <2>0. PICK k : k = next - 1
    OBVIOUS
  <2>1. /\ k \in Nat /\ next = k + 1 /\ Due(len, next) /\ clean' = FALSE /\ UNCHANGED <<msg, len, next>>
        /\ headless' = (headless /\ k # 0)
        /\ Dropped(k) \/ Followed(k) \/ Mistaken(k)
    BY <1>3, <2>0, RepeatTaken
  <2>2. msg # 0 /\ len \in Nat
    BY <2>1, DueHasMessage
  <2>3. Due(len, k)
    BY <2>1, <2>2, DueBefore
  <2>4. HeldInv' /\ (rxTotal' # 0 => k = 0 \/ ~headless \/ (rxTotal # 0 /\ Oldest' = Oldest))
    BY <2>1, <2>2, <2>3, TakenHeld
  <2> QED BY <1>0, <2>1, <2>4 DEF OlderInv
<1>4. CASE SkipReport
  <2>1. /\ next' = next + 1 /\ clean' = FALSE /\ headless' = (headless \/ next = 0)
        /\ UNCHANGED <<rxTotal, rxLen, rxSeq, rxApdu, msg, len>>
    BY <1>4, SkipTaken
  <2>2. HeldInv' /\ Oldest' = Oldest
    BY <1>0, <2>1, UntouchedHeld
  <2> QED BY <1>0, <2>1, <2>2 DEF OlderInv
<1>5. CASE UNCHANGED <<rxTotal, rxLen, rxSeq, rxApdu, msg, len, next, headless>> /\ clean' \in {clean, clean /\ next = 0}
  <2>1. HeldInv' /\ Oldest' = Oldest
    BY <1>0, <1>5, UntouchedHeld
  <2>2. next' = next /\ headless' = headless /\ msg' = msg /\ len' = len /\ rxTotal' = rxTotal
    BY <1>5
  <2>3. clean' = clean \/ clean' = (clean /\ next = 0)
    BY <1>5
  <2> QED BY <1>0, <2>1, <2>2, <2>3 DEF OlderInv
<1>6. CASE ForeignReport
  BY <1>5, <1>6, ForeignUntouched DEF rxVars
<1>7. CASE ShortReport
  BY <1>5, <1>7, ShortUntouched DEF rxVars
<1>8. CASE BadLengthReport
  <2>1. RxReset /\ UNCHANGED <<msg, len, next, headless>> /\ clean' = (clean /\ next = 0)
    BY <1>8, BadLengthResets
  <2> QED BY <1>0, <2>1 DEF RxReset, HeldInv, OlderInv
<1>9. CASE UNCHANGED frameVars
  BY <1>5, <1>9 DEF frameVars, rxVars
<1> QED BY <1>1, <1>2, <1>3, <1>4, <1>6, <1>7, <1>8, <1>9 DEF FrameNext

\* The middle of a message, after a report that was taken or that reset.
LEMMA TakenMiddle ==
    ASSUME RefineInv, NEW k \in Nat, k + 1 = next', Due(len, k + 1), len # 0, UNCHANGED <<msg, len>>,
           ~headless' => ~headless \/ k = 0,
           clean' => clean /\ k = next,
           Dropped(k) \/ Followed(k) \/ Mistaken(k)
    PROVE  MiddleInv'
<1>1. CASE Dropped(k)
  BY <1>1 DEF MiddleInv, Dropped, RxReset
<1>2. CASE Followed(k)
  <2>1. rxTotal' = len /\ rxSeq' = k + 1 /\ rxLen' = Offset(k + 1) /\ rxApdu' = Prefix(msg, Offset(k + 1))
    BY <1>2 DEF Followed, Advance
  <2>2. Offset(rxSeq') = rxLen' /\ rxApdu' = Prefix(msg', rxLen') /\ rxSeq' \in 1..next' /\ rxTotal' = len'
    BY <2>1
  <2> QED BY <2>1, <2>2 DEF MiddleInv, Offset, Prefix
<1>3. CASE Mistaken(k)
  BY <1>3 DEF Mistaken, MiddleInv
<1> QED BY <1>1, <1>2, <1>3

LEMMA MiddleStep ==
    ASSUME RefineInv, [FrameNext]_frameVars
    PROVE  MiddleInv'
<1>0. next \in Nat /\ MiddleInv /\ clean \in BOOLEAN /\ headless \in BOOLEAN
  BY DEF RefineInv, BoundsInv, FrameType
<1>1. ASSUME NEW l \in Lengths, StartMessage(l) PROVE MiddleInv'
  BY <1>1 DEF StartMessage, MiddleInv
<1>2. CASE SendReport
  <2>1. /\ Due(len, next) /\ next' = next + 1 /\ UNCHANGED <<msg, len, clean, headless>>
        /\ Dropped(next) \/ Followed(next) \/ Mistaken(next)
    BY <1>2, SendTaken
  <2>2. len # 0
    BY <2>1, DueHasMessage
  <2>3. CASE Due(len, next + 1)
    BY <1>0, <2>1, <2>2, <2>3, TakenMiddle
  <2>4. CASE ~Due(len, next + 1)
    <3>1. ~Due(len, next)'
      BY <2>1, <2>4 DEF Due, Offset
    <3> QED BY <3>1 DEF MiddleInv
  <2> QED BY <2>3, <2>4
<1>3. CASE RepeatReport
  <2>0. PICK k : k = next - 1
    OBVIOUS
  <2>1. /\ k \in Nat /\ next = k + 1 /\ Due(len, next) /\ clean' = FALSE /\ UNCHANGED <<msg, len, next>>
        /\ headless' = (headless /\ k # 0)
        /\ Dropped(k) \/ Followed(k) \/ Mistaken(k)
    BY <1>3, <2>0, RepeatTaken
  <2>2. len # 0
    BY <2>1, DueHasMessage
  <2> QED BY <2>1, <2>2, TakenMiddle
<1>4. CASE SkipReport
  <2>1. /\ Due(len, next) /\ next' = next + 1 /\ clean' = FALSE /\ headless' = (headless \/ next = 0)
        /\ UNCHANGED <<rxTotal, rxLen, rxSeq, rxApdu, msg, len>>
    BY <1>4, SkipTaken
  <2>2. CASE headless'
    BY <2>2 DEF MiddleInv
  <2>3. CASE ~headless'
    <3>0. next # 0 /\ ~headless
      BY <2>1, <2>3, Zenon
    <3>1. next > 0 /\ ~headless
      BY <1>0, <3>0
    <3>2. rxTotal # 0 => rxTotal = len /\ rxSeq \in 1..next + 1 /\ rxLen = Offset(rxSeq) /\ rxApdu = Prefix(msg, rxLen)
      BY <1>0, <2>1, <3>1 DEF MiddleInv
    <3> QED BY <2>1, <3>2 DEF MiddleInv, Offset, Prefix
  <2> QED BY <2>2, <2>3
<1>5. CASE UNCHANGED <<rxTotal, rxLen, rxSeq, rxApdu, msg, len, next, headless>> /\ (clean' => clean)
  BY <1>0, <1>5 DEF MiddleInv, Due, Offset, Prefix
<1>6. CASE ForeignReport
  BY <1>5, <1>6, ForeignUntouched DEF rxVars
<1>7. CASE ShortReport
  BY <1>5, <1>7, ShortUntouched DEF rxVars
<1>8. CASE BadLengthReport
  <2>1. rxTotal' = 0 /\ next' = next /\ clean' = (clean /\ next = 0)
    BY <1>8, BadLengthResets DEF RxReset
  <2>2. next' # 0 => ~clean'
    BY <2>1, Zenon
  <2> QED BY <1>0, <2>1, <2>2 DEF MiddleInv
<1>9. CASE UNCHANGED frameVars
  BY <1>5, <1>9 DEF frameVars, rxVars
<1> QED BY <1>1, <1>2, <1>3, <1>4, <1>6, <1>7, <1>8, <1>9 DEF FrameNext

-----------------------------------------------------------------------------
(* Every step is one of Transport, or none.                                *)

LEMMA TransportInit == FrameInit => Abstract!Init
<1>1. FrameInit => ~Due(len, next)
  BY DEF FrameInit, Due, Offset
<1> QED BY <1>1 DEF FrameInit, Abstract!Init, Abstract!Nothing, Phase, Begun

\* What the receiver has begun, seen from the host.
LEMMA BegunIs ==
    ASSUME RefineInv, Due(len, next)
    PROVE  /\ rxTotal = 0 => Begun = Abstract!Nothing
           /\ rxTotal # 0 => Begun # Abstract!Nothing /\ Begun.of = Oldest /\ Begun.len = rxTotal
           /\ rxTotal # 0 /\ next > 0 /\ ~headless => Begun = Abstract!Current
           /\ next = 0 \/ headless => Begun # Abstract!Current
           /\ rxTotal # 0 /\ headless => Oldest < msg
<1>1. len \in Nat \ {0} /\ msg \in Nat \ {0} /\ next \in Nat
  BY DueHasMessage
<1>2. Abstract!Nothing = [of |-> 0, len |-> 0] /\ Abstract!Current = [of |-> msg, len |-> len]
  BY DEF Abstract!Nothing, Abstract!Current
<1>3. Begun = IF rxTotal = 0 THEN [of |-> 0, len |-> 0] ELSE [of |-> Oldest, len |-> rxTotal]
  BY DEF Begun, Oldest
<1>4. ASSUME rxTotal # 0, next > 0, ~headless PROVE rxTotal = len /\ Oldest = msg
  <2>1. rxTotal = len /\ rxSeq \in 1..next /\ rxLen = Offset(rxSeq) /\ rxApdu = Prefix(msg, rxLen)
    BY <1>4 DEF RefineInv, MiddleInv
  <2>2. rxLen \in Nat \ {0}
    BY <1>1, <2>1, OffsetPositive
  <2>3. 1 \in 1..rxLen
    BY <2>2
  <2>4. rxApdu[1] = << msg, 1 >>
    BY <2>1, <2>3 DEF Prefix
  <2> QED BY <2>1, <2>4 DEF Oldest
<1>5. rxTotal # 0 /\ (next = 0 \/ headless) => Oldest < msg
  BY DEF RefineInv, OlderInv
<1> QED BY <1>1, <1>2, <1>3, <1>4, <1>5

LEMMA BegunAfter ==
    ASSUME UNCHANGED <<msg, len>>
    PROVE  /\ RxReset => Begun' = Abstract!Nothing
           /\ UNCHANGED <<rxTotal, rxApdu>> => Begun' = Begun
BY DEF RxReset, Begun, Abstract!Nothing

\* The first report has arrived, or one that follows it.
LEMMA BegunCurrent ==
    ASSUME RefineInv, NEW k \in Nat, Due(len, next), Advance(k), Due(len, k + 1), UNCHANGED <<msg, len>>
    PROVE  Begun' = Abstract!Current /\ UNCHANGED got
<1>1. Begins(k) /\ len # 0 /\ msg \in Nat \ {0} /\ UNCHANGED got
  BY DueHasMessage DEF Advance, Begins
<1>2. Oldest' = msg /\ rxTotal' = len
  BY <1>1, BeginsInv DEF Begins
<1> QED BY <1>1, <1>2 DEF Begun, Oldest, Abstract!Current

\* A report taken for the next of an older message, which may complete it.
LEMMA MistakenJoins ==
    ASSUME RefineInv, NEW k \in Nat, Due(len, next), Mistaken(k), UNCHANGED <<msg, len>>, Phase = "headless"
    PROVE  \/ UNCHANGED got /\ Begun' = Begun
           \/ Phase' \in {"headless", "done"} => Abstract!Join
<1>1. headless /\ rxTotal # 0 /\ Extend(k)
  BY DEF Mistaken
<1>2. /\ Begun # Abstract!Nothing /\ Begun.of = Oldest /\ Begun.len = rxTotal /\ Oldest < msg
  BY <1>1, BegunIs
<1>3. CASE rxTotal' = rxTotal /\ Mixed(rxApdu', Offset(k + 1), Oldest, msg) /\ UNCHANGED got
  <2>1. Oldest' = Oldest
    BY <1>3 DEF Mixed, Oldest
  <2> QED BY <1>1, <1>3, <2>1 DEF Begun, Oldest
<1>4. CASE RxReset /\ ~UNCHANGED rxTotal
  <2>1. PICK last \in Seq(Byte) : got' = Append(got, last) /\ Len(last) = rxTotal /\ Mixed(last, rxTotal, Oldest, msg)
    BY <1>1, <1>4 DEF Extend, RxReset
  <2>2. got \in Seq(Seq(Byte))
    BY DEF RefineInv, BoundsInv, FrameType
  <2>3. Len(got') = Len(got) + 1 /\ got'[Len(got')] = last
    BY <2>1, <2>2, AppendProperties
  <2>4. Abstract!Mixture(last)
    BY <1>2, <2>1 DEF Mixed, Abstract!Mixture, Abstract!Filler, Pad
  <2>5. Begun' = Abstract!Nothing
    BY <1>4, BegunAfter
  <2> QED BY <1>2, <2>1, <2>3, <2>4, <2>5 DEF Abstract!Join
<1>5. rxTotal # 0 /\ RxReset => ~UNCHANGED rxTotal
  BY DEF RxReset
<1> QED BY <1>1, <1>3, <1>4, <1>5 DEF Extend

LEMMA PhaseIs ==
    ASSUME RefineInv
    PROVE  /\ ~Due(len, next) => Phase = "done"
           /\ Due(len, next) => /\ headless => Phase = "headless"
                                /\ ~headless => Phase = IF clean THEN "sending" ELSE "spoiled"
                                /\ next = 0 => Phase = "sending"
BY DEF RefineInv, OlderInv, Phase

LEMMA PhaseAfter ==
    ASSUME NEW k, next' = k, UNCHANGED len
    PROVE  /\ ~Due(len, k) => Phase' = "done"
           /\ Due(len, k) => /\ headless' => Phase' = "headless"
                             /\ ~headless' => Phase' = IF clean' THEN "sending" ELSE "spoiled"
<1>1. Due(len, next)' <=> Due(len, k)
  BY DEF Due, Offset
<1> QED BY <1>1 DEF Phase

AbstractStep == Abstract!Next \/ UNCHANGED <<msg, len, Phase, Begun, got>>

LEMMA SendMaps ==
    ASSUME RefineInv, SendReport
    PROVE  AbstractStep
<1>1. /\ next \in Nat /\ Due(len, next) /\ next' = next + 1 /\ UNCHANGED <<msg, len, clean, headless>>
      /\ Dropped(next) \/ Followed(next) \/ Mistaken(next)
  BY SendTaken
<1>2. clean \in BOOLEAN /\ (headless => next > 0 /\ ~clean)
  BY DEF RefineInv, BoundsInv, FrameType, OlderInv
<1>3. /\ ~Due(len, next + 1) => Phase' = "done"
      /\ Due(len, next + 1) => Phase' = Phase
  BY <1>1, PhaseIs, PhaseAfter
<1>4. Phase \in {"sending", "spoiled", "headless"} /\ Phase # "done"
  BY <1>1, PhaseIs
<1>5. CASE Dropped(next)
  <2>1. Phase \in {"spoiled", "headless"} /\ Begun' = Abstract!Nothing /\ UNCHANGED got
    BY <1>1, <1>2, <1>5, PhaseIs, BegunAfter DEF Dropped
  <2> QED BY <1>1, <1>3, <1>4, <2>1 DEF AbstractStep, Abstract!Next, Abstract!Forget, Abstract!Lose
<1>6. CASE Followed(next)
  <2>1. ~headless /\ Advance(next) /\ (next # 0 => Begun = Abstract!Current)
    BY <1>1, <1>2, <1>6, BegunIs DEF Followed
  <2>2. CASE Due(len, next + 1)
    <3>1. Begun' = Abstract!Current /\ UNCHANGED got
      BY <1>1, <2>1, <2>2, BegunCurrent
    <3>2. CASE next = 0
      BY <1>1, <1>3, <1>4, <2>2, <3>1, <3>2, PhaseIs DEF AbstractStep, Abstract!Next, Abstract!Begin
    <3>3. CASE next # 0
      BY <1>1, <1>3, <2>1, <2>2, <3>1, <3>3 DEF AbstractStep
    <3> QED BY <3>2, <3>3
  <2>3. CASE ~Due(len, next + 1)
    <3>1. got' = Append(got, Abstract!Whole(msg, len)) /\ Begun' = Abstract!Nothing
      BY <1>1, <2>1, <2>3, BegunAfter DEF Advance
    <3>2. Phase = "sending" \/ (Phase = "spoiled" /\ Begun = Abstract!Current)
      BY <1>1, <2>1, PhaseIs
    <3> QED BY <1>1, <1>3, <2>3, <3>1, <3>2 DEF AbstractStep, Abstract!Next, Abstract!Receive
  <2> QED BY <2>2, <2>3
<1>7. CASE Mistaken(next)
  <2>1. Phase = "headless"
    BY <1>1, <1>7, PhaseIs DEF Mistaken
  <2>2. Phase' \in {"headless", "done"}
    BY <1>3, <2>1
  <2>3. CASE Abstract!Join
    BY <2>3 DEF AbstractStep, Abstract!Next
  <2>4. CASE UNCHANGED got /\ Begun' = Begun
    BY <1>1, <1>3, <2>1, <2>4 DEF AbstractStep, Abstract!Next, Abstract!Lose
  <2> QED BY <1>1, <1>7, <2>1, <2>2, <2>3, <2>4, MistakenJoins
<1> QED BY <1>1, <1>5, <1>6, <1>7

LEMMA RepeatMaps ==
    ASSUME RefineInv, RepeatReport
    PROVE  AbstractStep
<1>0. PICK k : k = next - 1
  OBVIOUS
<1>1. /\ k \in Nat /\ next = k + 1 /\ Due(len, next) /\ clean' = FALSE /\ UNCHANGED <<msg, len, next>>
      /\ headless' = (headless /\ k # 0)
      /\ Dropped(k) \/ Followed(k) \/ Mistaken(k)
  BY <1>0, RepeatTaken
<1>2. clean \in BOOLEAN /\ next > 0 /\ next' = next /\ (clean => rxTotal # 0)
  BY <1>1 DEF RefineInv, BoundsInv, FrameType, OlderInv, MiddleInv
<1>3. Phase' = IF headless /\ k # 0 THEN "headless" ELSE "spoiled"
  BY <1>1, <1>2, PhaseAfter
<1>4. Phase = IF headless THEN "headless" ELSE IF clean THEN "sending" ELSE "spoiled"
  BY <1>1, PhaseIs
<1>5. CASE Dropped(k)
  <2>1. k # 0 /\ Begun' = Abstract!Nothing /\ UNCHANGED got
    BY <1>1, <1>5, BegunAfter DEF Dropped
  <2> QED BY <1>1, <1>3, <1>4, <2>1 DEF AbstractStep, Abstract!Next, Abstract!Forget, Abstract!Spoil
<1>6. CASE Followed(k)
  <2>1. Begun' = Abstract!Current /\ UNCHANGED got /\ (~headless \/ k = 0)
    BY <1>1, <1>6, BegunCurrent DEF Followed
  <2>2. Phase' = "spoiled"
    BY <1>3, <2>1
  <2>3. CASE Phase = "sending"
    <3>1. Begun = Abstract!Current
      BY <1>1, <1>2, <1>4, <2>3, BegunIs
    <3> QED BY <1>1, <2>1, <2>2, <2>3, <3>1 DEF AbstractStep, Abstract!Next, Abstract!Spoil
  <2>4. CASE Phase # "sending"
    BY <1>1, <1>4, <2>1, <2>2, <2>4 DEF AbstractStep, Abstract!Next, Abstract!Begin
  <2> QED BY <2>3, <2>4
<1>7. CASE Mistaken(k)
  <2>1. Phase = "headless" /\ Phase' = "headless"
    BY <1>3, <1>4, <1>7 DEF Mistaken
  <2> QED BY <1>1, <1>7, <2>1, MistakenJoins DEF AbstractStep, Abstract!Next
<1> QED BY <1>1, <1>5, <1>6, <1>7

LEMMA SkipMaps ==
    ASSUME RefineInv, SkipReport
    PROVE  AbstractStep
<1>1. /\ next \in Nat /\ Due(len, next) /\ Due(len, next + 1) /\ next' = next + 1 /\ clean' = FALSE
      /\ headless' = (headless \/ next = 0)
      /\ UNCHANGED <<rxTotal, rxLen, rxSeq, rxApdu, msg, len, got>>
  BY SkipTaken
<1>2. Begun' = Begun
  BY <1>1, BegunAfter
<1>3. Phase' = IF headless \/ next = 0 THEN "headless" ELSE "spoiled"
  BY <1>1, PhaseAfter
<1>4. Phase = IF headless THEN "headless" ELSE IF clean THEN "sending" ELSE "spoiled"
  BY <1>1, PhaseIs
<1>5. next = 0 => Begun # Abstract!Current /\ Phase = "sending"
  BY <1>1, BegunIs, PhaseIs
<1> QED BY <1>1, <1>2, <1>3, <1>4, <1>5 DEF AbstractStep, Abstract!Next, Abstract!Spoil

LEMMA ShortMaps ==
    ASSUME RefineInv, ShortReport
    PROVE  AbstractStep
<1>1. /\ UNCHANGED <<rxTotal, rxApdu, got, msg, len, next, headless>>
      /\ clean' = (clean /\ next = 0) /\ Due(len, next)
  BY ShortUntouched DEF rxVars
<1>2. Begun' = Begun
  BY <1>1, BegunAfter
<1>3. headless => ~clean
  BY DEF RefineInv, OlderInv
<1>4. Phase' = IF headless THEN "headless" ELSE IF clean /\ next = 0 THEN "sending" ELSE "spoiled"
  BY <1>1, PhaseAfter
<1>5. Phase = (IF headless THEN "headless" ELSE IF clean THEN "sending" ELSE "spoiled")
      /\ (next = 0 => Phase = "sending")
  BY <1>1, PhaseIs
<1> QED BY <1>1, <1>2, <1>4, <1>5 DEF AbstractStep, Abstract!Next, Abstract!Spoil

LEMMA BadLengthMaps ==
    ASSUME RefineInv, BadLengthReport
    PROVE  AbstractStep
<1>1. /\ RxReset /\ UNCHANGED <<got, msg, len, next, headless>>
      /\ clean' = (clean /\ next = 0) /\ Due(len, next)
  BY BadLengthResets
<1>2. Begun' = Abstract!Nothing
  BY <1>1, BegunAfter
<1>3. Phase' = IF headless THEN "headless" ELSE IF clean /\ next = 0 THEN "sending" ELSE "spoiled"
  BY <1>1, PhaseAfter
<1>4. Phase = (IF headless THEN "headless" ELSE IF clean THEN "sending" ELSE "spoiled")
      /\ (next = 0 => Phase = "sending" /\ Begun # Abstract!Current)
  BY <1>1, PhaseIs, BegunIs
<1> QED BY <1>1, <1>2, <1>3, <1>4 DEF AbstractStep, Abstract!Next, Abstract!Spoil, Abstract!Forget

LEMMA TransportStep ==
    ASSUME RefineInv, [FrameNext]_frameVars
    PROVE  [Abstract!Next]_(Abstract!transportVars)
<1>1. ASSUME NEW l \in Lengths, StartMessage(l) PROVE Abstract!Next
  <2>1. msg < MaxMessages /\ msg' = msg + 1 /\ len' = l /\ next' = 0 /\ clean' = TRUE /\ headless' = FALSE
        /\ UNCHANGED <<rxTotal, rxApdu, got>>
    BY <1>1 DEF StartMessage, rxVars
  <2>2. l \in Nat /\ 0 < l
    BY FrameAssumption
  <2>3. Phase' = "sending"
    BY <2>1, <2>2 DEF Phase, Due, Offset
  <2>4. Begun' = Begun
    BY <2>1 DEF Begun
  <2> QED BY <2>1, <2>3, <2>4 DEF Abstract!Next, Abstract!Start
<1>2. AbstractStep => [Abstract!Next]_(Abstract!transportVars)
  BY DEF AbstractStep, Abstract!transportVars
<1>3. ASSUME UNCHANGED <<rxTotal, rxApdu, msg, len, next, clean, headless, got>> PROVE AbstractStep
  BY <1>3 DEF AbstractStep, Phase, Begun, Due, Offset
<1>4. CASE ForeignReport
  BY <1>2, <1>3, <1>4, ForeignUntouched DEF rxVars
<1>5. CASE UNCHANGED frameVars
  BY <1>2, <1>3, <1>5 DEF frameVars, rxVars
<1> QED BY <1>1, <1>2, <1>4, <1>5, SendMaps, RepeatMaps, SkipMaps, ShortMaps, BadLengthMaps DEF FrameNext

\* Framing implements the transport (hid_frame_rx): a message whose reports
\* arrive in order is received once and whole.  One disturbed after its first
\* report is received whole or not at all.  One that loses its first report may
\* end what an abandoned message began (hid_frame.c:44 compares only sequence
\* numbers), and then every byte is still in its place, of one of the two or of
\* a message between them, or padding: nothing else is ever received.
THEOREM TransportImplemented == FrameSpec => TransportSpec
<1>1. RefineInv /\ [FrameNext]_frameVars => RefineInv'
  BY BoundsStep, HeldStep, MiddleStep DEF RefineInv
<1>2. RefineInv /\ [FrameNext]_frameVars => [Abstract!Next]_(Abstract!transportVars)
  BY TransportStep
<1> QED BY <1>1, <1>2, RefineInit, TransportInit, PTL DEF FrameSpec, TransportSpec, Abstract!Spec
=============================================================================

------------------------------ MODULE Display ------------------------------
(***************************************************************************)
(* What the review screen makes of a transaction: the decimal amount of    *)
(* main.c, and the text of screens.c and ssd1306_min.c.  A text is a       *)
(* sequence of hex digits and of the characters below.                     *)
(***************************************************************************)
EXTENDS Words

EthDecimals == 18
ShownDecimals == 6
Width == 128            \* SSD1306_WIDTH
Height == 64            \* SSD1306_HEIGHT
TextRoom == 24          \* of the buffers the text is formatted into
TmpRoom == 32           \* of tmp in be_dec, for the bytes of the amount
DecRoom == 80           \* of rev and dec, for its digits
WholeRoom == 64         \* of ip, for those before the point
Dot == 16
LetterX == 17
Unit == <<18, 19, 20, 21>>      \* " ETH"

\* More was written than a buffer holds, and nothing can be said of the text.
Overrun == [ok |-> FALSE]

\* be_dec: the quotient by ten replaces the bytes; n is then where its last
\* byte that is not zero ends.
BeDec(be) ==
    LET Divide(tmp) ==
            Iterate(LAMBDA s, i : [rem |-> (s.rem * 256 + tmp[i]) % 10,
                                   q |-> Append(s.q, (s.rem * 256 + tmp[i]) \div 10)],
                    [rem |-> 0, q |-> <<>>], Len(tmp))
        UpTo(q) == CHOOSE n \in 0..Len(q) : (n = 0 \/ q[n] # 0) /\ \A i \in n + 1..Len(q) : q[i] = 0
        Step(s, k) == IF s.tmp = <<>> THEN s
                      ELSE LET d == Divide(s.tmp)
                           IN [tmp |-> SubSeq(d.q, 1, UpTo(d.q)), text |-> <<d.rem>> \o s.text]
        zero == \A i \in 1..Len(be) : be[i] = 0
        first == CHOOSE i \in 1..Len(be) : be[i] # 0 /\ \A j \in 1..i - 1 : be[j] = 0
        bytes == SubSeq(be, first, Len(be))
        text == Iterate(Step, [tmp |-> bytes, text |-> <<>>], 3 * Len(bytes)).text
    IN IF zero THEN [ok |-> TRUE, text |-> <<0>>]
       ELSE IF Len(bytes) > TmpRoom THEN Overrun
       ELSE IF Len(text) >= DecRoom THEN Overrun
       ELSE [ok |-> TRUE, text |-> text]

\* u64_dec
U64Dec(v) ==
    LET Step(s, k) == IF s.v = 0 THEN s ELSE [v |-> s.v \div 10, text |-> <<s.v % 10>> \o s.text]
    IN IF v = 0 THEN <<0>> ELSE Iterate(Step, [v |-> v, text |-> <<>>], 10).text

\* Fault: digits of a small amount are not moved behind the point.
FractionUnpadded(dec) == IF Len(dec) <= EthDecimals THEN dec ELSE Slice(dec, Len(dec) - EthDecimals, Len(dec))

FractionDigits(dec) ==
    IF Len(dec) <= EthDecimals THEN Zeros(EthDecimals - Len(dec)) \o dec
    ELSE Slice(dec, Len(dec) - EthDecimals, Len(dec))

\* fmt_eth from the digits be_dec gives on: zeros at the end go, then what is
\* beyond six decimals, then what does not fit the text.
EthText(dec) ==
    LET ip == IF Len(dec) <= EthDecimals THEN <<0>> ELSE Slice(dec, 0, Len(dec) - EthDecimals)
        frac == FractionDigits(dec)
        trimmed == CHOOSE n \in 0..Len(frac) : (n = 0 \/ frac[n] # 0) /\ \A i \in n + 1..Len(frac) : frac[i] = 0
        fl == IF trimmed > ShownDecimals THEN ShownDecimals ELSE trimmed
        text == ip \o (IF fl = 0 THEN <<>> ELSE <<Dot>> \o SubSeq(frac, 1, fl)) \o Unit
    IN IF Len(dec) >= DecRoom \/ Len(ip) >= WholeRoom THEN Overrun
       ELSE [ok |-> TRUE, text |-> SubSeq(text, 1, IF Len(text) < TextRoom THEN Len(text) ELSE TextRoom - 1)]

\* fmt_eth
FmtEth(value) ==
    LET dec == BeDec(value)
    IN IF \A i \in 1..Len(value) : value[i] = 0 THEN [ok |-> TRUE, text |-> <<0>> \o Unit]
       ELSE IF dec.ok THEN EthText(dec.text) ELSE Overrun

\* short_addr and short_addr_of: the first two bytes and the last two, in hex.
ShortAddr(a) ==
    LET Nibbles(bytes) == Joined([i \in 1..Len(bytes) |-> <<bytes[i] \div 16, bytes[i] % 16>>])
    IN <<0, LetterX>> \o Nibbles(SubSeq(a, 1, 2)) \o <<Dot, Dot, Dot>> \o Nibbles(Slice(a, Len(a) - 2, Len(a)))

-----------------------------------------------------------------------------
(* The buffer of the display is the set of its bits that are set: a byte    *)
(* and a bit in it.  A glyph is drawn as if all its dots were set.          *)

Cleared == {}

\* SSD1306_DrawPixel: what is outside is not drawn.
CellsOf(pixels) ==
    {<<q[1] + (q[2] \div 8) * Width, q[2] % 8>> : q \in {q \in pixels : q[1] \in 0..Width - 1 /\ q[2] \in 0..Height - 1}}

DrawFastHLine(buffer, x, y, w) == buffer \cup CellsOf({<<i, y>> : i \in x..x + w - 1})

CharPixels(x, y, scale) == (x..x + 5 * scale - 1) \X (y..y + 7 * scale - 1)

\* Five columns and a gap a character.
CharAt(x, i, scale) == x + (i - 1) * 6 * scale

DrawString(buffer, x, y, text, scale) ==
    buffer \cup UNION {CellsOf(CharPixels(CharAt(x, i, scale), y, scale)) : i \in 1..Len(text)}

\* SSD1306_UpdateScreen: what the panel shows, page after page.
UpdateScreen(buffer) ==
    UNION {{<<b[1] - page * Width, 8 * page + b[2]>> :
            b \in {b \in buffer : b[1] \in page * Width..(page + 1) * Width - 1}} : page \in 0..7}

-----------------------------------------------------------------------------
(* Screens.                                                                *)

\* C divides towards zero.
Half(w) == IF w >= 0 THEN w \div 2 ELSE -((-w) \div 2)
CentredAt(text, scale) == Half(Width - Len(text) * 6 * scale)

UiTextCenter(buffer, y, text, scale) == DrawString(buffer, CentredAt(text, scale), y, text, scale)

UiTitle(buffer, title) == DrawFastHLine(DrawString(buffer, 2, 1, title, 1), 0, 10, Width)

UiHint(buffer, left, right) ==
    LET lined == DrawString(DrawFastHLine(buffer, 0, 54, Width), 2, 56, left, 1)
    IN DrawString(lined, Width - 2 - Len(right) * 6, 56, right, 1)

ReviewTitle == Zeros(9)     \* "VALUE 2/2", "REJECT", "HOLD OK"
ReviewHints == <<Zeros(6), Zeros(7)>>

\* The second page of render_review.
ReviewValue(text) == UiHint(UiTextCenter(UiTitle(Cleared, ReviewTitle), 26, text, 2), ReviewHints[1], ReviewHints[2])
=============================================================================

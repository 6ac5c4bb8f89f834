------------------------------ MODULE Formats ------------------------------
(***************************************************************************)
(* What is read from others and written for them: DER and Base58 of        *)
(* lib/trezor-crypto, the wallet's transactions, and the amounts it shows. *)
(***************************************************************************)
EXTENDS Session, Der, EthTx, Display, Base58

CONSTANTS
    Halves,         \* values of r and of s, as sequences of IntBytes bytes
    SampleBytes,    \* bytes put into encodings to disturb them
    Nonces256,      \* integers of a transaction, as big-endian bytes
    Chains,         \* chain ids, and values of v, as big-endian bytes
    DataLengths,    \* of the data of a transaction
    DigitCounts,    \* of the decimal amount of a transaction
    Payloads        \* sequences of bytes: payloads of Base58, amounts in wei

ASSUME FormatsAssumption == DigitCounts \subseteq Nat \ {0}

-----------------------------------------------------------------------------
(* DER.                                                                    *)

WriteSignature == session' \in [of : {"der"}, r : Halves, s : Halves]

\* s with one byte replaced, removed or added.
Disturbed(s) ==
    {[s EXCEPT ![i] = b] : i \in 1..Len(s), b \in SampleBytes}
      \cup {SubSeq(s, 1, i - 1) \o SubSeq(s, i + 1, Len(s)) : i \in 1..Len(s)}
      \cup {SubSeq(s, 1, i) \o <<b>> \o SubSeq(s, i + 1, Len(s)) : i \in 0..Len(s), b \in SampleBytes}

DerReadStrictly ==
    session.of = "der" =>
        LET sig == session.r \o session.s
            der == EcdsaSigToDer(sig)
            padded == <<DerInteger, 1 + IntBytes, 0>> \o session.r
            r == SubSeq(der, 3, 4 + der[4])
        IN /\ EcdsaSigFromDer(der) = [ok |-> TRUE, sig |-> sig]
           /\ DerReencodeInt(Reader(padded), Writer(8)).data = r
           /\ ~DerReencodeInt(Reader(padded), Writer(Len(r) - 1)).ok
           /\ \A near \in Disturbed(der) :
                /\ LET read == EcdsaSigFromDer(near) IN read.ok => EcdsaSigToDer(read.sig) = near
                /\ LET item == DerReadItem(Reader(near))
                       content == item.buf.data
                   IN item.ok => /\ item.r.pos <= Len(near) /\ content = SubSeq(near, 1, item.r.pos)
                                 /\ Slice(content, 1, item.buf.pos)
                                      = DerWriteLength(Writer(8), Len(content) - item.buf.pos).data

\* A signature has one encoding: it is read back, and a byte string near to it
\* that is accepted is the encoding of what was read.  The general reader of DER
\* items stays inside its data even when a length wraps around, and writes an
\* integer exactly as the signature code does.
DerStrict == [][End => DerReadStrictly]_session

-----------------------------------------------------------------------------
(* Transactions.                                                           *)

Styles == {"plain", "long", "trailing", "extra", "missing", "cut"}
Malformations == {"wide", "negative", "outside", "below"}

Propose ==
    \E type \in {Legacy, Eip1559}, to \in {0, 19, 20}, style \in Styles \cup Malformations, access \in {0, 1, 60} :
        /\ style \in Malformations => access = 1
        /\ \/ session' \in [of : {"tx"}, type : {type}, to : {to}, style : {style}, access : {access},
                            chain : Chains, nonce : {<<9>>}, data : {0}]
           \/ to = 20 /\ session' \in [of : {"tx"}, type : {type}, to : {to}, style : {style}, access : {access},
                                       chain : {<<1, 3>>}, nonce : Nonces256, data : DataLengths]

Ascending(n) == [i \in 1..n |-> (i + 4) % 256]

\* An item whose length has a byte more than the word it is read into.
Wide(bytes) == <<183 + LengthBytes + 1, 1>> \o DigitsOf(Len(bytes), 256, LengthBytes) \o bytes

\* Two items: the length of the first takes back all of its bytes but one, and
\* they are read again as the second.
Negative == <<183 + LengthBytes + 1, 128 + LengthBytes>> \o DigitsOf(LengthWord - (LengthBytes + 1), 256, LengthBytes)

\* An item whose length takes back more than there is of it.
Below == <<183 + LengthBytes, 128>> \o Zeros(LengthBytes - 1)

\* The list of a transaction as its sender writes it: the access list is one
\* string in a list, the data perhaps with a length longer than need be.
FieldsOf(s) ==
    LET bytes == Ascending(s.data)
        data == CASE s.style = "long" /\ s.data < 56 -> <<184, s.data>> \o bytes
                  [] s.style = "wide" -> Wide(bytes)
                  [] OTHER -> RlpOf(bytes)
        first == CASE s.style = "outside" -> <<Negative>>
                   [] s.type = Legacy -> <<RlpNumber(7), RlpOf(s.nonce)>>
                   [] OTHER -> <<RlpNumber(7), RlpNumber(8)>>
        rest == <<RlpNumber(21000), RlpOf(Ascending(s.to)), RlpOf(s.nonce), data>>
        signature == CASE s.style = "negative" -> <<Negative>>
                       [] s.style = "below" -> <<Below, RlpOf(Ascending(32))>>
                       [] OTHER -> <<RlpOf(Ascending(32)), RlpOf(Ascending(32))>>
    IN IF s.type = Legacy THEN first \o rest \o <<RlpOf(s.chain)>> \o signature
       ELSE <<RlpOf(s.chain)>> \o first \o <<RlpOf(s.nonce)>> \o rest
              \o <<RlpListOf(<<RlpOf(Ascending(s.access))>>), RlpNumber(1)>> \o signature

RawOf(s) ==
    LET fields == FieldsOf(s)
        n == Len(fields)
        list == RlpListOf(CASE s.style = "extra" -> Append(fields, RlpNumber(5))
                            [] s.style = "missing" -> SubSeq(fields, 1, n - 1)
                            [] OTHER -> fields)
        raw == (IF s.type = Legacy THEN <<>> ELSE <<2>>) \o list
    IN CASE s.style = "trailing" -> Append(raw, 0)
         [] s.style = "cut" -> SubSeq(raw, 1, Len(raw) - 1)
         [] OTHER -> raw

ChainOf(s) ==
    LET v == Number(s.chain, 256)
    IN IF s.type = Eip1559 THEN v ELSE IF v < 35 THEN 0 ELSE (v - 35) \div 2

ToBeSigned(s) ==
    LET n == RlpOf(ShortestForm(s.nonce))
        rest == <<n, RlpNumber(21000), RlpOf(Ascending(s.to)), n, RlpOf(Ascending(s.data))>>
        chain == RlpNumber(ChainOf(s))
    IN IF s.type = Legacy
       THEN RlpListOf(<<RlpNumber(7)>> \o rest \o IF ChainOf(s) = 0 THEN <<>> ELSE <<chain, <<128>>, <<128>>>>)
       ELSE <<2>> \o RlpListOf(<<chain, RlpNumber(7), RlpNumber(8)>> \o rest
                                 \o <<RlpListOf(<<RlpOf(Ascending(s.access))>>)>>)

SighashCommitted ==
    session.of = "tx" =>
        LET raw == RawOf(session)
            v == Number(session.chain, 256)
            valid == /\ session.style \in {"plain", "long", "wide", "negative", "outside"} /\ session.to \in {0, 20} /\ Len(raw) <= MaxLen
                     /\ Len(session.chain) <= ChainBytes
                     /\ session.type = Legacy => v \in {0, 27, 28} \/ v >= 35
            parsed == EthTxParse(raw)
            tx == parsed.tx
        IN /\ parsed.ok = valid
           /\ valid =>
                /\ tx.to = Ascending(session.to) /\ tx.value = session.nonce
                /\ tx.data = Ascending(session.data) /\ tx.chain = ChainOf(session)
                /\ tx.inside = (session.style # "outside")
                /\ tx.inside => SighashBytes(tx) = ToBeSigned(session)
                /\ session.style = "plain" /\ session.data = 0 =>
                     FmtEth(tx.value).ok = (Len(ShortestForm(tx.value)) <= TmpRoom)
                /\ session.to = 20 => Number(SubSeq(ShortAddr(tx.to), 3, 6), 16) = Number(SubSeq(tx.to, 1, 2), 256)
                                        /\ Number(SubSeq(ShortAddr(tx.to), 10, 13), 16) = Number(SubSeq(tx.to, 19, 20), 256)
                /\ \A parity \in {0, 1} :
                    LET base == CASE tx.type = Eip1559 -> 0 [] tx.type = Legacy /\ tx.chain = 0 -> 27
                                  [] OTHER -> 2 * tx.chain + 35
                    IN (VByte(tx, parity) - base) % 256 = parity

\* What is signed is the one encoding of exactly the recipient, amount, data and
\* chain that were parsed, however loosely the transaction was written, and the
\* host, which knows the chain, has the parity back from the v byte.  What is
\* malformed is refused in part: a list that is cut, too long or too short, and an
\* item that takes less than nothing.  A length is read modulo the word, so that
\* one with bytes too many is accepted (eth_tx.c:34), and so is one that is
\* negative as an int (:35), in r and s, which are not hashed, and in a field that
\* is, which then ends behind the transaction.  This is not "any malformation is a
\* hard reject" (eth_tx.h:5).  An amount of any length is accepted as well, and
\* fmt_eth has room for 32 bytes of it.
SighashCommits == [][End => SighashCommitted]_session

-----------------------------------------------------------------------------
(* Amounts.                                                                *)

Digit0(kind, i, n) ==
    CASE kind = "round" -> IF i = 1 THEN 1 ELSE 0
      [] kind = "nines" -> 9
      [] kind = "mixed" -> ((i * 7) % 9) + 1
      [] OTHER -> IF i \in {1, n} THEN 1 ELSE 0

ShowAmount ==
    \E n \in DigitCounts, kind \in {"round", "nines", "mixed", "ends"} :
        session' = [of |-> "amount", dec |-> [i \in 1..n |-> Digit0(kind, i, n)]]

\* From the digits of the amount on, the screen shows it as long as there are
\* fewer of them than dec has room for (79; an amount with more overruns it, and
\* one of more than 32 bytes overruns be_dec before): as much of its integer part
\* as fits the text, and after it nothing that could be taken for a digit of it;
\* where all of it fits, its fraction, cut and never rounded after six decimals;
\* on its page it meets neither the title nor the hints; and of a text of ten
\* characters or fewer the panel shows every dot, while of a longer one not.
AmountCut ==
    session.of = "amount" =>
        LET dec == session.dec
            made == EthText(dec)
            text == made.text
            wei == Zeros(EthDecimals + 1) \o dec
            integer == IF Len(dec) <= EthDecimals THEN <<0>> ELSE SubSeq(dec, 1, Len(dec) - EthDecimals)
            millionths == SubSeq(wei, Len(wei) - EthDecimals + 1, Len(wei) - EthDecimals + ShownDecimals)
            n == Len(integer)
            fits == IF n < TextRoom THEN n ELSE TextRoom - 1
            around == UpdateScreen(UiHint(UiTitle(Cleared, ReviewTitle), ReviewHints[1], ReviewHints[2]))
            shown == UpdateScreen(ReviewValue(text))
            Drawn(i) == CharPixels(CharAt(CentredAt(text, 2), i, 2), 26, 2)
            decimals == SubSeq(text, n + 2, Len(text) - Len(Unit))
        IN /\ made.ok = (Len(dec) < DecRoom)
           /\ made.ok =>
                /\ Len(text) < TextRoom
                /\ SubSeq(text, 1, fits) = SubSeq(integer, 1, fits)
                /\ Len(text) > n => text[n + 1] \in {Dot, Unit[1]}
                /\ n + 1 + ShownDecimals + Len(Unit) < TextRoom =>
                     /\ decimals \o Zeros(ShownDecimals - Len(decimals)) = millionths
                     /\ SubSeq(text, Len(text) - 3, Len(text)) = Unit
                     /\ decimals = <<>> => text[n + 1] = Unit[1]
                     /\ decimals # <<>> =>
                          text[n + 1] = Dot /\ (decimals[Len(decimals)] # 0 \/ Len(decimals) = ShownDecimals)
                /\ (\A i \in 1..Len(text) : Drawn(i) \subseteq shown) = (Len(text) <= 10)
                /\ \A i \in 1..Len(text) : Drawn(i) \cap around = {}
                /\ shown \ around \subseteq UNION {Drawn(i) : i \in 1..Len(text)}
           /\ Len(dec) <= 9 => U64Dec(Number(dec, 10)) = dec

\* What be_dec says of itself: the decimal digits of a big-endian number.
AmountInDecimal ==
    session.of = "bytes" /\ Len(session.data) \in 1..3 =>
        LET v == Number(session.data, 256)
        IN BeDec(session.data) = [ok |-> TRUE, text |-> U64Dec(v)]

-----------------------------------------------------------------------------
(* Base58.                                                                 *)

WritePayload == session' \in [of : {"bytes"}, data : Payloads]

Summed[m \in Seq(Nat)] == [i \in 1..8 |-> Iterate(LAMBDA a, j : (31 * a + m[j] + i) % 256, 7, Len(m))]

Base58ReadBack ==
    session.of = "bytes" =>
        LET data == session.data
            n == Len(data)
            made == Base58EncodeCheck(data, Summed, 128)
            text == made.text
            address == EcdsaGetAddress(<<2>> \o data, 5, Summed, 128).text
        IN /\ made.ok /\ ~Base58EncodeCheck(data, Summed, Len(text)).ok
           /\ Base58DecodeCheck(text, Summed, n) = [ok |-> TRUE, data |-> data]
           /\ n > 0 /\ data[1] # 0 => ~Base58DecodeCheck(text, Summed, n - 1).ok
           /\ n \in 1..3 => LET plain == B58Enc(data, 128).text
                            IN Number(plain, 58) = Number(data, 256) /\ B58ToBin(plain, n).bin = data
           /\ \A near \in Disturbed(text) :
                LET read == Base58DecodeCheck(near, Summed, n)
                IN read.ok => Base58EncodeCheck(read.data, Summed, 128).text = near
           /\ EcdsaAddressDecode(address, 5, Summed).data = EcdsaGetAddressRaw(<<2>> \o data, 5, Summed)
           /\ ~EcdsaAddressDecode(address, 6, Summed).ok /\ ~EcdsaAddressDecode(address, 300, Summed).ok
           /\ EcdsaAddressDecode(EcdsaGetAddressSegwit(<<2>> \o data, 300, Summed, 128).text, 300, Summed).ok
           /\ Base58DecodeCheck(EcdsaGetWif(data, 128, Summed, 128).text, Summed, n + 2).data = <<128>> \o data \o <<1>>

\* Data come back from their text, leading zeros included, and no text but that
\* one is accepted for them; a number of up to three bytes has the digits of that
\* number; an address comes back under its own version only.
Base58RoundTrip == [][End => Base58ReadBack]_session
=============================================================================

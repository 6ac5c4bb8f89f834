------------------------------- MODULE EthTx -------------------------------
(***************************************************************************)
(* src/src/protocol/eth_tx.c: the RLP decoder, the rules of a transaction  *)
(* and the bytes whose hash is signed; and the v byte of the answer, from  *)
(* wallet_handlers.c.  A transaction is its real bytes; the word a length   *)
(* is read into has LengthBytes bytes and a chain id has ChainBytes.        *)
(***************************************************************************)
EXTENDS Words

CONSTANTS
    ChainBytes,     \* sizeof(uint64_t)
    LengthBytes     \* sizeof(uint32_t), and of int

\* Half a word is more than the longest transaction.
ASSUME ChainAssumption == ChainBytes \in Nat \ {0}
ASSUME LengthAssumption == LengthBytes \in Nat /\ LengthBytes >= 2

MaxLen == 2048          \* ETH_TX_MAX_LEN
MaxFields == 12         \* MAX_TX_FIELDS
ShortMax == 55
Legacy == 0
Eip1559 == 2
Malformed == [ok |-> FALSE]

LengthWord == 256^LengthBytes

\* l = (l << 8) | buf[1 + i]: the bytes in front of the last few are shifted out.
LengthOf(bytes) == Iterate(LAMBDA l, i : (l * 256 + bytes[i]) % LengthWord, 0, Len(bytes))

\* (int)l
AsInt(l) == IF l < LengthWord \div 2 THEN l ELSE l - LengthWord

\* One item of the bytes buf: its length, what it takes of them, and as much of
\* its content as lies in them; of a list, the whole encoding.  A form tells
\* where the length is.  A length that is negative as an int passes for short,
\* and only one that takes less than nothing is refused, by both callers.
\* (Of a sum that is more than an int holds, which is undefined, either outcome
\* is refused: it is more than there is, or negative.)
RlpDecode(buf) ==
    LET b == buf[1]
        base == CASE b < 128 -> 0
                  [] b \in 128..183 -> 128
                  [] b \in 184..191 -> 183
                  [] b \in 192..247 -> 192
                  [] OTHER -> 247
        long == base \in {183, 247}
        list == base >= 192
        ll == IF long THEN b - base ELSE 0
        len == IF long THEN LengthOf(SubSeq(buf, 2, 1 + ll)) ELSE b - base
        used == 1 + ll + AsInt(len)
    IN IF buf = <<>> THEN Malformed
       ELSE IF base = 0 THEN [ok |-> TRUE, list |-> FALSE, used |-> 1, len |-> 1, content |-> <<b>>]
       ELSE IF Len(buf) < 1 + ll THEN Malformed
       ELSE IF Len(buf) < used \/ used < 0 THEN Malformed
       ELSE IF list THEN [ok |-> TRUE, list |-> TRUE, used |-> used, len |-> used, content |-> SubSeq(buf, 1, used)]
       ELSE [ok |-> TRUE, list |-> FALSE, used |-> used, len |-> len,
             content |-> SubSeq(buf, 2 + ll, IF AsInt(len) < 0 THEN Len(buf) ELSE used)]

RlpListHdr(b) == IF b <= 247 THEN 1 ELSE 1 + (b - 247)

-----------------------------------------------------------------------------
(* Encoders.                                                               *)

MinimalBe(v) == LET n == CHOOSE n \in 0..4 : 256^n > v /\ (n > 0 => 256^(n - 1) <= v) IN DigitsOf(v, 256, n)

Header(len, base) ==
    IF len <= ShortMax THEN <<base + len>>
    ELSE <<base + ShortMax + Len(MinimalBe(len))>> \o MinimalBe(len)

RlpPutStr(s) == IF Len(s) = 1 /\ s[1] < 128 THEN s ELSE Header(Len(s), 128) \o s

\* Fault: the zeros in front of an integer stay.
WithLeadingZeros(be) == be

WithoutLeadingZeros(be) ==
    LET zeros == CHOOSE n \in 0..Len(be) : (\A i \in 1..n : be[i] = 0) /\ (n = Len(be) \/ be[n + 1] # 0)
    IN SubSeq(be, zeros + 1, Len(be))

RlpPutInt(be) == RlpPutStr(WithoutLeadingZeros(be))
RlpPutList(payload) == Header(Len(payload), 192) \o payload

FieldToU64(f) == IF f.len > ChainBytes THEN Malformed ELSE [ok |-> TRUE, v |-> Number(f.content, 256)]

-----------------------------------------------------------------------------
(* Parsing.                                                                *)

\* The items of the payload, one after the other, at most MaxFields.
Items(payload) ==
    LET Step(s, n) ==
            LET item == RlpDecode(s.rest)
            IN IF ~s.ok \/ s.rest = <<>> THEN s
               ELSE IF ~item.ok THEN [s EXCEPT !.ok = FALSE]
               ELSE [s EXCEPT !.f = Append(@, item), !.rest = SubSeq(@, item.used + 1, Len(@))]
        end == Iterate(Step, [ok |-> TRUE, f |-> <<>>, rest |-> payload], MaxFields)
    IN [ok |-> end.ok /\ end.rest = <<>>, f |-> end.f]

LegacyChain(v) ==
    IF ~v.ok THEN Malformed
    ELSE IF v.v \in {0, 27, 28} THEN [ok |-> TRUE, v |-> 0]
    ELSE IF v.v >= 35 THEN [ok |-> TRUE, v |-> (v.v - 35) \div 2]
    ELSE Malformed

\* The fields in the order they are signed in; `to` and the others by name; and
\* whether they all end inside the transaction, which nothing checks.
Fields(type, f, chain) ==
    LET C(i) == f[i].content
        inside == \A i \in (IF type = Legacy THEN 1..6 ELSE 2..9) : f[i].len = Len(f[i].content)
    IN IF type = Legacy
       THEN [type |-> type, chain |-> chain, ints |-> <<C(1), C(2), C(3)>>, to |-> C(4), value |-> C(5), data |-> C(6),
             access |-> <<>>, inside |-> inside]
       ELSE [type |-> type, chain |-> chain, ints |-> <<C(2), C(3), C(4), C(5)>>, to |-> C(6), value |-> C(7),
             data |-> C(8), access |-> C(9), inside |-> inside]

EthTxParse(raw) ==
    LET type == IF raw[1] = 2 THEN Eip1559 ELSE Legacy
        body == IF type = Eip1559 THEN Tail(raw) ELSE raw
        outer == RlpDecode(body)
        hdr == RlpListHdr(outer.content[1])
        items == Items(SubSeq(outer.content, hdr + 1, Len(outer.content)))
        f == items.f
        chain == IF type = Legacy THEN LegacyChain(FieldToU64(f[7])) ELSE FieldToU64(f[1])
        tx == Fields(type, f, chain.v)
    IN IF raw = <<>> \/ Len(raw) > MaxLen THEN Malformed
       ELSE IF raw[1] # 2 /\ raw[1] < 192 THEN Malformed
       ELSE IF ~outer.ok THEN Malformed
       ELSE IF ~outer.list \/ outer.used # Len(body) THEN Malformed
       ELSE IF ~items.ok \/ Len(f) # (IF type = Legacy THEN 9 ELSE 12) THEN Malformed
       ELSE IF ~chain.ok \/ (type = Eip1559 /\ ~f[9].list) THEN Malformed
       ELSE IF f[IF type = Legacy THEN 4 ELSE 6].len \notin {0, 20} THEN Malformed
       ELSE [ok |-> TRUE, tx |-> tx]

\* What is hashed: every integer without zeros in front, the list as it came.
SighashBytes(tx) ==
    LET common == Joined([i \in 1..Len(tx.ints) |-> RlpPutInt(tx.ints[i])])
                    \o RlpPutStr(tx.to) \o RlpPutInt(tx.value) \o RlpPutStr(tx.data)
        chain == RlpPutInt(MinimalBe(tx.chain))
    IN IF tx.type = Legacy
       THEN RlpPutList(common \o (IF tx.chain = 0 THEN <<>> ELSE chain \o RlpPutStr(<<>>) \o RlpPutStr(<<>>)))
       ELSE <<2>> \o RlpPutList(chain \o common \o tx.access)

\* v_byte: what the host tells the parity from, with the chain id it knows.
VByte(tx, parity) ==
    CASE tx.type = Eip1559 -> parity
      [] tx.type = Legacy /\ tx.chain = 0 -> 27 + parity
      [] OTHER -> (2 * tx.chain + 35 + parity) % 256
=============================================================================

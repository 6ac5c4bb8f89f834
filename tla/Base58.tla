------------------------------- MODULE Base58 ------------------------------
(***************************************************************************)
(* src/lib/trezor-crypto/base58.c, and the addresses of ecdsa.c that are   *)
(* written in it.  A text is a sequence of digits below 58, or of          *)
(* something else; '1' is the digit 0.  Words of the decoder have          *)
(* AlmostBytes bytes.  Digest is the hash of the sequence it is given.     *)
(***************************************************************************)
EXTENDS Words

CONSTANTS
    AlmostBytes,    \* sizeof(b58_almostmaxint_t)
    HashBytes       \* bytes of a public key hash in an address: 20

ASSUME Base58Assumption == AlmostBytes \in Nat \ {0} /\ HashBytes \in Nat \ {0}

CheckBytes == 4
DataMax == 128
AlmostMax == 256^AlmostBytes
BadText == [ok |-> FALSE]

LeadingZeros(s) == CHOOSE n \in 0..Len(s) : (\A i \in 1..n : s[i] = 0) /\ (n = Len(s) \/ s[n + 1] # 0)

\* The bytes at the end of a buffer of binsz.
B58ToBin(text, binsz) ==
    LET words == (binsz + AlmostBytes - 1) \div AlmostBytes
        partial == binsz % AlmostBytes
        zeros == LeadingZeros(text)
        Digit(s, n) ==
            LET c == text[zeros + n]
                Times(t, k) == LET v == t.out[words + 1 - k] * 58 + t.carry
                               IN [carry |-> v \div AlmostMax, out |-> [t.out EXCEPT ![words + 1 - k] = v % AlmostMax]]
                done == Iterate(Times, [carry |-> c, out |-> s.out], words)
                tooBig == done.carry # 0 \/ (partial > 0 /\ done.out[1] >= 256^partial)
            IN IF ~s.ok \/ c \notin 0..57 THEN [s EXCEPT !.ok = FALSE] ELSE [ok |-> ~tooBig, out |-> done.out]
        end == Iterate(Digit, [ok |-> TRUE, out |-> Zeros(words)], Len(text) - zeros)
        whole == Joined([i \in 1..words |-> DigitsOf(end.out[i], 256, AlmostBytes)])
        bin == Slice(whole, Len(whole) - binsz, Len(whole))
        i == LeadingZeros(bin)
    IN IF binsz = 0 \/ ~end.ok \/ zeros > i THEN BadText
       ELSE [ok |-> TRUE, bin |-> Slice(bin, i - zeros, binsz)]

\* Fault: the room is rounded down.
DigitsRoomShort(n) == (n * 138) \div 100

DigitsRoom(n) == (n * 138) \div 100 + 1

\* Each byte is carried through the digits so far; they are never read above.
B58Enc(bin, room) ==
    LET zeros == LeadingZeros(bin)
        size == DigitsRoom(Len(bin) - zeros)
        \* j counts from 1 here; above `high` the loop runs on only with a carry.
        Byte(s, n) ==
            LET Times(t, k) ==
                    LET j == size + 1 - k
                        v == t.carry + 256 * t.buf[j]
                    IN IF t.stopped \/ (j <= s.high /\ t.carry = 0)
                       THEN [t EXCEPT !.stopped = TRUE, !.at = IF t.stopped THEN @ ELSE j]
                       ELSE [t EXCEPT !.buf = [@ EXCEPT ![j] = v % 58], !.carry = v \div 58]
                end == Iterate(Times, [buf |-> s.buf, carry |-> bin[zeros + n], stopped |-> FALSE, at |-> 1], size)
            IN [buf |-> end.buf, high |-> end.at]
        buf == Iterate(Byte, [buf |-> Zeros(size), high |-> size], Len(bin) - zeros).buf
        skipped == LeadingZeros(buf)
    IN IF room <= zeros + size - skipped THEN BadText
       ELSE [ok |-> TRUE, text |-> Zeros(zeros) \o Slice(buf, skipped, size)]

\* At least four bytes, the last of them the start of the hash of the others,
\* and as many zeros as the text has.
B58Check(bin, text, Digest) ==
    LET n == Len(bin)
        body == SubSeq(bin, 1, n - CheckBytes)
    IN IF n < CheckBytes THEN -4
       ELSE IF ~Consteq(Slice(bin, n - CheckBytes, n), SubSeq(Digest[body], 1, CheckBytes)) THEN -1
       ELSE IF LeadingZeros(bin) # LeadingZeros(text) THEN -3
       ELSE bin[1]

Base58EncodeCheck(data, Digest, room) ==
    IF Len(data) > DataMax THEN BadText ELSE B58Enc(data \o SubSeq(Digest[data], 1, CheckBytes), room)

Base58DecodeCheck(text, Digest, datalen) ==
    LET read == B58ToBin(text, datalen + CheckBytes)
    IN IF datalen > DataMax \/ ~read.ok THEN BadText
       ELSE IF B58Check(read.bin, text, Digest) < 0 THEN BadText
       ELSE [ok |-> TRUE, data |-> SubSeq(read.bin, 1, Len(read.bin) - CheckBytes)]

-----------------------------------------------------------------------------
(* Addresses: a prefix and a hash, or a private key.                       *)

\* address_write_prefix_bytes: the shortest form of the version.
PrefixBytes(version) ==
    DigitsOf(version, 256, IF version < 256 THEN 1 ELSE IF version < 65536 THEN 2 ELSE 3)

\* A key hashes in its own form; the point at infinity is one byte.
EcdsaGetPubkeyHash(key, Digest) ==
    SubSeq(Digest[IF key[1] = 0 THEN SubSeq(key, 1, 1) ELSE key], 1, HashBytes)

EcdsaGetAddressRaw(key, version, Digest) == PrefixBytes(version) \o EcdsaGetPubkeyHash(key, Digest)

EcdsaGetAddress(key, version, Digest, room) ==
    Base58EncodeCheck(EcdsaGetAddressRaw(key, version, Digest), Digest, room)

EcdsaGetAddressSegwit(key, version, Digest, room) ==
    LET script == <<0, HashBytes>> \o EcdsaGetPubkeyHash(key, Digest)
    IN Base58EncodeCheck(PrefixBytes(version) \o SubSeq(Digest[script], 1, HashBytes), Digest, room)

EcdsaGetWif(priv, version, Digest, room) ==
    Base58EncodeCheck(PrefixBytes(version) \o priv \o <<1>>, Digest, room)

EcdsaAddressDecode(text, version, Digest) ==
    LET prefix == PrefixBytes(version)
        read == Base58DecodeCheck(text, Digest, HashBytes + Len(prefix))
    IN IF ~read.ok THEN BadText
       ELSE IF Len(read.data) # HashBytes + Len(prefix) \/ SubSeq(read.data, 1, Len(prefix)) # prefix THEN BadText
       ELSE read
=============================================================================

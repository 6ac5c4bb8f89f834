-------------------------------- MODULE Der --------------------------------
(***************************************************************************)
(* buffer.c and der.c of src/lib/trezor-crypto, and the DER form of a      *)
(* signature in ecdsa.c.  A reader is data and a position in it; a function *)
(* that may refuse returns a record with ok.  A size_t has SizeBytes bytes *)
(* and wraps.                                                              *)
(***************************************************************************)
EXTENDS Words

CONSTANTS
    IntBytes,       \* bytes of r and of s: 32
    SizeBytes       \* sizeof(size_t)

ASSUME DerAssumption == IntBytes \in Nat \ {0} /\ SizeBytes \in Nat \ {0}

SizeT == 256^SizeBytes
Refused == [ok |-> FALSE]

-----------------------------------------------------------------------------
(* Buffers.                                                                *)

Reader(data) == [data |-> data, pos |-> 0]
Writer(room) == [data |-> <<>>, room |-> room, ok |-> TRUE]

BufferRemaining(r) == IF r.pos > Len(r.data) THEN 0 ELSE Len(r.data) - r.pos
BufferRest(r) == SubSeq(r.data, r.pos + 1, Len(r.data))

BufferPeek(r) ==
    IF r.pos >= Len(r.data) THEN Refused ELSE [ok |-> TRUE, byte |-> r.data[r.pos + 1]]
BufferGet(r) ==
    IF r.pos >= Len(r.data) THEN Refused ELSE [ok |-> TRUE, byte |-> r.data[r.pos + 1], r |-> [r EXCEPT !.pos = @ + 1]]
BufferSeek(r, pos) == IF pos > Len(r.data) THEN Refused ELSE [ok |-> TRUE, r |-> [r EXCEPT !.pos = pos]]

\* The sum of position and size wraps before it is compared.
BufferReadBuffer(r, size) ==
    LET end == (r.pos + size) % SizeT
    IN IF end > Len(r.data) THEN Refused
       ELSE [ok |-> TRUE, dest |-> Reader(SubSeq(r.data, r.pos + 1, r.pos + size)), r |-> [r EXCEPT !.pos = end]]

BufferLstrip(r, byte) ==
    [r EXCEPT !.pos = CHOOSE n \in r.pos..Len(r.data) :
        /\ \A i \in r.pos + 1..n : r.data[i] = byte
        /\ n = Len(r.data) \/ r.data[n + 1] # byte]

\* A writer that has refused once stays refused, as its callers leave it there.
BufferWriteArray(w, bytes) ==
    IF ~w.ok \/ Len(w.data) + Len(bytes) > w.room THEN [w EXCEPT !.ok = FALSE] ELSE [w EXCEPT !.data = @ \o bytes]
BufferPut(w, byte) == BufferWriteArray(w, <<byte>>)
BufferWriteBuffer(w, r) == BufferWriteArray(w, BufferRest(r))

-----------------------------------------------------------------------------
(* Items.                                                                  *)

\* The shortest form only: one byte below 128, else the number of the bytes
\* that follow, none of them a leading zero.
DerReadLength(r) ==
    LET init == BufferGet(r)
        n == init.byte % 128
        long == Slice(r.data, r.pos + 1, r.pos + 1 + n)
        len == Number(long, 256)
    IN CASE ~init.ok -> Refused
         [] init.ok /\ init.byte < 128 -> [ok |-> TRUE, len |-> init.byte, r |-> init.r]
         [] OTHER ->
              IF init.byte \in {128, 255} \/ n > SizeBytes \/ BufferRemaining(init.r) < n
                   \/ long[1] = 0 \/ len < 128
              THEN Refused
              ELSE [ok |-> TRUE, len |-> len, r |-> [init.r EXCEPT !.pos = @ + n]]

DerWriteLength(w, len) ==
    LET n == CHOOSE n \in 0..SizeBytes : 256^n > len /\ (n > 0 => 256^(n - 1) <= len)
    IN IF len < 128 THEN BufferPut(w, len) ELSE BufferWriteArray(w, <<128 + n>> \o DigitsOf(len, 256, n))

\* The item with its header, and a position behind the header.
DerReadItem(r) ==
    LET id == BufferGet(r)
        length == DerReadLength(id.r)
        header == length.r.pos - r.pos
        taken == BufferReadBuffer(r, (header + length.len) % SizeT)
        content == BufferSeek(taken.dest, header)
    IN IF ~id.ok \/ id.byte % 32 = 31 \/ ~length.ok \/ ~taken.ok \/ ~content.ok THEN Refused
       ELSE [ok |-> TRUE, id |-> id.byte, buf |-> content.r, r |-> taken.r]

DerInteger == 2

\* Fault: the zero byte is written for every integer.
NeedsNullAlways(msb) == TRUE

\* A positive integer starts with a zero byte iff its next one has the top bit.
NeedsNull(msb) == ~msb.ok \/ msb.byte >= 128

DerReencodeInt(r, w) ==
    LET item == DerReadItem(r)
        content == BufferLstrip(item.buf, 0)
        null == NeedsNull(BufferPeek(content))
        headed == DerWriteLength(BufferPut(w, DerInteger), BufferRemaining(content) + (IF null THEN 1 ELSE 0))
    IN IF ~item.ok \/ item.id # DerInteger THEN [w EXCEPT !.ok = FALSE]
       ELSE BufferWriteBuffer(IF null THEN BufferPut(headed, 0) ELSE headed, content)

-----------------------------------------------------------------------------
(* Signatures: r and s, IntBytes bytes each.                               *)

EcdsaSigToDer(sig) ==
    LET Integer(bytes) ==
            LET first == CHOOSE i \in 1..IntBytes : (i = IntBytes \/ bytes[i] # 0) /\ \A j \in 1..i - 1 : bytes[j] = 0
                content == (IF bytes[first] >= 128 THEN <<0>> ELSE <<>>) \o SubSeq(bytes, first, IntBytes)
            IN <<DerInteger, Len(content)>> \o content
        both == Integer(SubSeq(sig, 1, IntBytes)) \o Integer(SubSeq(sig, IntBytes + 1, 2 * IntBytes))
    IN <<48, Len(both)>> \o both

EcdsaSigFromDer(der) ==
    LET Read(s, i) ==
            LET len == der[s.pos + 2]
                at == s.pos + 2
                null == len > 1 /\ der[at + 1] = 0
                int == SubSeq(der, at + 1 + (IF null THEN 1 ELSE 0), at + len)
            IN IF ~s.ok \/ Len(der) < s.pos + 2 THEN Refused
               ELSE IF der[s.pos + 1] # DerInteger \/ at + len > Len(der) THEN Refused
               ELSE IF len = 0 \/ der[at + 1] > 127 THEN Refused
               ELSE IF (null /\ int[1] < 128) \/ Len(int) > IntBytes THEN Refused
               ELSE [ok |-> TRUE, pos |-> at + len, sig |-> s.sig \o Zeros(IntBytes - Len(int)) \o int]
        read == Iterate(Read, [ok |-> TRUE, pos |-> 2, sig |-> <<>>], 2)
    IN IF Len(der) < 2 \/ Len(der) > 2 * IntBytes + 8 THEN Refused
       ELSE IF der[1] # 48 \/ der[2] # Len(der) - 2 THEN Refused
       ELSE IF ~read.ok \/ read.pos # Len(der) THEN Refused
       ELSE [ok |-> TRUE, sig |-> read.sig]
=============================================================================

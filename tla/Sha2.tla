------------------------------- MODULE Sha2 --------------------------------
(***************************************************************************)
(* src/lib/trezor-crypto/sha2.c: SHA-1, SHA-256, SHA-384 and SHA-512, for  *)
(* lanes of any width.  A family is a record of rotation amounts, numbers  *)
(* of rounds and of state lanes; its constants only have to differ from    *)
(* each other here.  The streaming functions take the compression F as an  *)
(* argument: any function of a state and the sixteen lanes of a block.     *)
(***************************************************************************)
EXTENDS Words

CONSTANT LaneBytes      \* bytes of a word: 4, and 8 in SHA-384 and SHA-512

LaneBits == 8 * LaneBytes
Lane == 2^LaneBits
BlockLength == 16 * LaneBytes
ShortBlockLength == BlockLength - 2 * LaneBytes

\* A count of bits that wraps around still tells how full the block is.
ASSUME LaneAssumption ==
    /\ LaneBytes \in Nat \ {0}
    /\ Lane \in Nat \ {0} /\ Lane % (8 * BlockLength) = 0

Shr(b, x) == x \div 2^b
Rotr(b, x) == LET n == b % LaneBits IN x \div 2^n + (x % 2^n) * 2^(LaneBits - n)
Rotl(b, x) == Rotr(LaneBits - (b % LaneBits), x)

Ch(x, y, z) == (x & y) ^^ ((Lane - 1 - x) & z)
Maj(x, y, z) == ((x & y) ^^ (x & z)) ^^ (y & z)
Parity(x, y, z) == (x ^^ y) ^^ z
BigSigma(n, x) == (Rotr(n[1], x) ^^ Rotr(n[2], x)) ^^ Rotr(n[3], x)
SmallSigma(n, x) == (Rotr(n[1], x) ^^ Rotr(n[2], x)) ^^ Shr(n[3], x)

Sha256 == [Sigma0 |-> <<2, 13, 22>>, Sigma1 |-> <<6, 11, 25>>,
           sigma0 |-> <<7, 18, 3>>, sigma1 |-> <<17, 19, 10>>, rounds |-> 64, lanes |-> 8]
Sha512 == [Sigma0 |-> <<28, 34, 39>>, Sigma1 |-> <<14, 18, 41>>,
           sigma0 |-> <<1, 8, 7>>, sigma1 |-> <<19, 61, 6>>, rounds |-> 80, lanes |-> 8]
Sha384 == [Sha512 EXCEPT !.lanes = 6]
Sha1 == [rounds |-> 80, lanes |-> 5]

ShaK(j) == (97 * j + 61) % Lane

\* The circular schedule of sixteen lanes: w[j & 15] gives way to lane j.
LaneAt(w, j) == w[(j % 16) + 1]
Scheduled(h, w, j) ==
    IF j < 16 THEN w
    ELSE [w EXCEPT ![(j % 16) + 1] =
              (@ + SmallSigma(h.sigma1, LaneAt(w, j + 14)) + LaneAt(w, j + 9) + SmallSigma(h.sigma0, LaneAt(w, j + 1))) % Lane]

T1(h, v, lane, j) == (v[8] + BigSigma(h.Sigma1, v[5]) + Ch(v[5], v[6], v[7]) + ShaK(j) + lane) % Lane
T2(h, v) == BigSigma(h.Sigma0, v[1]) + Maj(v[1], v[2], v[3])

Plus(s, v) == [i \in 1..Len(s) |-> (s[i] + v[i]) % Lane]

\* The compact rounds move every register to the next one.
CompactRounds(h, state, block) ==
    LET Step(s, n) ==
            With(Scheduled(h, s.w, n - 1), LAMBDA w :
                LET t1 == T1(h, s.v, LaneAt(w, n - 1), n - 1)
                    new == (t1 + T2(h, s.v)) % Lane
                IN [w |-> w, v |-> <<new, s.v[1], s.v[2], s.v[3], (s.v[4] + t1) % Lane, s.v[5], s.v[6], s.v[7]>>])
    IN Plus(state, Iterate(Step, [w |-> block, v |-> state], h.rounds).v)

\* The unrolled ones leave the registers and rename them: in round j register
\* r plays the part r + j, two of them change, and eight rounds restore the names.
UnrolledRounds(h, state, block) ==
    LET Register(part, j) == ((part - 1 + 7 * j) % 8) + 1
        Step(s, n) ==
            With(Scheduled(h, s.w, n - 1), LAMBDA w :
                LET R(part) == Register(part, n - 1)
                    v == [part \in 1..8 |-> s.v[R(part)]]
                    t1 == T1(h, v, LaneAt(w, n - 1), n - 1)
                IN [w |-> w, v |-> [s.v EXCEPT ![R(4)] = (@ + t1) % Lane, ![R(8)] = (t1 + T2(h, v)) % Lane]])
    IN Plus(state, Iterate(Step, [w |-> block, v |-> state], h.rounds).v)

Sha256Transform[state \in Seq(Nat), block \in Seq(Nat)] == CompactRounds(Sha256, state, block)
Sha256TransformUnrolled[state \in Seq(Nat), block \in Seq(Nat)] == UnrolledRounds(Sha256, state, block)
Sha512Transform[state \in Seq(Nat), block \in Seq(Nat)] == CompactRounds(Sha512, state, block)
Sha512TransformUnrolled[state \in Seq(Nat), block \in Seq(Nat)] == UnrolledRounds(Sha512, state, block)

-----------------------------------------------------------------------------
(* SHA-1: five registers, a function and a constant for every twenty rounds. *)

Sha1Scheduled(w, j) ==
    IF j < 16 THEN w
    ELSE [w EXCEPT ![(j % 16) + 1] = Rotl(1, (LaneAt(w, j + 13) ^^ LaneAt(w, j + 8)) ^^ (LaneAt(w, j + 2) ^^ @))]

Sha1Mixed(j, b, c, d) ==
    CASE j < 20 -> Ch(b, c, d)
      [] j \in 40..59 -> Maj(b, c, d)
      [] OTHER -> Parity(b, c, d)

Sha1New(v, lane, j) == (Rotl(5, v[1]) + Sha1Mixed(j, v[2], v[3], v[4]) + v[5] + ShaK(j \div 20) + lane) % Lane

Sha1Transform[state \in Seq(Nat), block \in Seq(Nat)] ==
    LET Step(s, n) ==
            With(Sha1Scheduled(s.w, n - 1), LAMBDA w :
                [w |-> w, v |-> <<Sha1New(s.v, LaneAt(w, n - 1), n - 1), s.v[1], Rotl(30, s.v[2]), s.v[3], s.v[4]>>])
    IN Plus(state, Iterate(Step, [w |-> block, v |-> state], Sha1.rounds).v)

Sha1TransformUnrolled[state \in Seq(Nat), block \in Seq(Nat)] ==
    LET Step(s, n) ==
            With(Sha1Scheduled(s.w, n - 1), LAMBDA w :
                LET R(part) == ((part - 1 + 4 * (n - 1)) % 5) + 1
                    v == [part \in 1..5 |-> s.v[R(part)]]
                IN [w |-> w, v |-> [s.v EXCEPT ![R(5)] = Sha1New(v, LaneAt(w, n - 1), n - 1), ![R(2)] = Rotl(30, @)]])
    IN Plus(state, Iterate(Step, [w |-> block, v |-> state], Sha1.rounds).v)

-----------------------------------------------------------------------------
(* Contexts.  The count of bits is two lanes, low and high: one integer of *)
(* twice the width in SHA-1 and SHA-256, two with a carry in SHA-512.      *)

InitialState(h) == [i \in 1..h.lanes |-> (31 * i + 5) % Lane]

Sha256InitEx(state, count) == [state |-> state, buffer |-> Zeros(BlockLength), count |-> count]
Sha256Init == Sha256InitEx(InitialState(Sha256), [low |-> 0, high |-> 0])
Sha512Init == Sha256InitEx(InitialState(Sha512), [low |-> 0, high |-> 0])
Sha384Init == Sha256InitEx([i \in 1..8 |-> (29 * i + 11) % Lane], [low |-> 0, high |-> 0])
Sha1Init == Sha256InitEx(InitialState(Sha1), [low |-> 0, high |-> 0])

\* ADDINC128: the wrap of the low word shows that it must be carried.
AddInc(count, n) ==
    LET low == (count.low + n) % Lane
    IN [low |-> low, high |-> IF low < n THEN (count.high + 1) % Lane ELSE count.high]

\* REVERSE32 and REVERSE64 of every word: the bytes of each, backwards, in place.
Reversed(buffer) ==
    [i \in 1..Len(buffer) |-> buffer[LaneBytes * ((i - 1) \div LaneBytes) + LaneBytes - ((i - 1) % LaneBytes)]]

\* The words of the reversed buffer as a little-endian machine reads them.
HostWords(buffer) ==
    [i \in 1..Len(buffer) \div LaneBytes |-> Number([b \in 1..LaneBytes |-> buffer[LaneBytes * i + 1 - b]], 256)]

\* The first n bytes of words as such a machine keeps them.
HostBytes(words, n) ==
    [k \in 1..n |-> DigitsOf(words[(k - 1) \div LaneBytes + 1], 256, LaneBytes)[LaneBytes - ((k - 1) % LaneBytes)]]

ShaUsed(ctx) == (ctx.count.low \div 8) % BlockLength

Overwritten(buffer, at, data) ==
    [i \in 1..Len(buffer) |-> IF i - at \in 1..Len(data) THEN data[i - at] ELSE buffer[i]]

Compressed(F, ctx, buffer) ==
    [ctx EXCEPT !.state = F[@, HostWords(Reversed(buffer))], !.buffer = Reversed(buffer)]

Counted(ctx, bytes) == [ctx EXCEPT !.count = AddInc(@, 8 * bytes)]

\* Fault: what is left over is not counted.
SavedUncounted(ctx, data) == [ctx EXCEPT !.buffer = Overwritten(@, 0, data)]

Saved(ctx, data) == Counted([ctx EXCEPT !.buffer = Overwritten(@, 0, data)], Len(data))

\* n whole blocks, straight from the data.
BlocksTaken(F, ctx, data, from, n) ==
    LET Block(c, i) == LET at == from + BlockLength * (i - 1)
                       IN Counted(Compressed(F, c, Slice(data, at, at + BlockLength)), BlockLength)
    IN Loop(Block, ctx, 0, n)

ShaUpdate(F, ctx, data) ==
    LET used == ShaUsed(ctx)
        free == IF used = 0 THEN 0 ELSE BlockLength - used
        filled == IF used = 0 THEN ctx
                  ELSE Counted(Compressed(F, ctx, Overwritten(ctx.buffer, used, SubSeq(data, 1, free))), free)
        blocks == (Len(data) - free) \div BlockLength
        left == Slice(data, free + BlockLength * blocks, Len(data))
    IN IF data = <<>> THEN ctx
       ELSE IF used > 0 /\ Len(data) < free
            THEN Counted([ctx EXCEPT !.buffer = Overwritten(@, used, data)], Len(data))
       ELSE Saved(BlocksTaken(F, filled, data, free, blocks), left)

\* The words of the last block: its data, then the count, high word first.
ShaFinal(F, ctx, lanes) ==
    LET used == ShaUsed(ctx) + 1
        marked == Overwritten(ctx.buffer, used - 1, <<128>>)
        Cleared(buffer, from) == SubSeq(buffer, 1, from) \o Zeros(BlockLength - from)
        twice == used > ShortBlockLength
        last == IF twice THEN Compressed(F, ctx, Cleared(marked, used)) ELSE [ctx EXCEPT !.buffer = marked]
        buffer == Cleared(last.buffer, IF twice THEN 0 ELSE used)
        words == SubSeq(HostWords(Reversed(buffer)), 1, 14) \o <<ctx.count.high, ctx.count.low>>
    IN Reversed(HostBytes(F[last.state, words], LaneBytes * lanes))

ShaRaw(F, init, data, lanes) == ShaFinal(F, ShaUpdate(F, init, data), lanes)

Hex(digest) == Joined([i \in 1..Len(digest) |-> <<digest[i] \div 16, digest[i] % 16>>])

Sha1Update(ctx, data) == ShaUpdate(Sha1Transform, ctx, data)
Sha1Final(ctx) == ShaFinal(Sha1Transform, ctx, Sha1.lanes)
Sha1End(ctx) == Hex(Sha1Final(ctx))
Sha1Raw(data) == ShaRaw(Sha1Transform, Sha1Init, data, Sha1.lanes)
Sha256Update(ctx, data) == ShaUpdate(Sha256Transform, ctx, data)
Sha256Final(ctx) == ShaFinal(Sha256Transform, ctx, Sha256.lanes)
Sha256End(ctx) == Hex(Sha256Final(ctx))
Sha256Raw(data) == ShaRaw(Sha256Transform, Sha256Init, data, Sha256.lanes)
Sha512Update(ctx, data) == ShaUpdate(Sha512Transform, ctx, data)
Sha512Final(ctx) == ShaFinal(Sha512Transform, ctx, Sha512.lanes)
Sha512End(ctx) == Hex(Sha512Final(ctx))
Sha512Raw(data) == ShaRaw(Sha512Transform, Sha512Init, data, Sha512.lanes)
Sha384Raw(data) == ShaRaw(Sha512Transform, Sha384Init, data, Sha384.lanes)
=============================================================================

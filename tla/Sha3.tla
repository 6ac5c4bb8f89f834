------------------------------- MODULE Sha3 --------------------------------
(***************************************************************************)
(* src/lib/trezor-crypto/sha3.c: Keccak and SHA-3 for lanes of any width   *)
(* that divides 64 bits.  The permutation is written as the code does it,  *)
(* in place; the streaming functions take it as an argument.               *)
(***************************************************************************)
EXTENDS Words

CONSTANT KeccakBytes    \* bytes of a lane: 8

ASSUME KeccakAssumption == KeccakBytes \in Nat \ {0} /\ 8 % KeccakBytes = 0

KeccakBits == 8 * KeccakBytes
NumberOfRounds == 24
Keccak_Rotl(x, n) ==
    LET r == n % KeccakBits
    IN (x % 2^(KeccakBits - r)) * 2^r + x \div 2^(KeccakBits - r)
KeccakNot(x) == 2^KeccakBits - 1 - x

\* Lane n of the code is A[n + 1].
KeccakTheta(A) ==
    LET column == [x \in 0..4 |-> (((A[x + 1] ^^ A[x + 6]) ^^ A[x + 11]) ^^ A[x + 16]) ^^ A[x + 21]]
        d == [x \in 0..4 |-> Keccak_Rotl(column[(x + 1) % 5], 1) ^^ column[(x + 4) % 5]]
    IN [i \in 1..25 |-> A[i] ^^ d[(i - 1) % 5]]

RhoOffsets == <<0, 1, 62, 28, 27, 36, 44, 6, 55, 20, 3, 10, 43, 25, 39, 41, 45, 15, 21, 8, 18, 2, 61, 56, 14>>
KeccakRho(A) == [i \in 1..25 |-> Keccak_Rotl(A[i], RhoOffsets[i])]

\* One cycle through all lanes but lane 0: each takes the next one of the list.
PiCycle == <<1, 6, 9, 22, 14, 20, 2, 12, 13, 19, 23, 15, 4, 24, 21, 8, 16, 5, 3, 18, 17, 11, 7, 10>>
KeccakPi(A) ==
    Iterate(LAMBDA s, n : [s EXCEPT ![PiCycle[n] + 1] = IF n < 24 THEN s[PiCycle[n + 1] + 1] ELSE A[PiCycle[1] + 1]],
            A, 24)

\* Fault: the first lanes of a row are read again after they were changed.
KeptTooLate(A, s, i) == <<s[i + 1], s[i + 2]>>

\* The first two lanes of the row at i, of A before and of s so far.
KeptOfRow(A, s, i) == <<A[i + 1], A[i + 2]>>

\* In place along a row: the first two lanes are kept for the last two.
KeccakChi(A) ==
    LET Step(s, n) ==
            LET i == 5 * (n - 1)
                InRow(t, k) ==
                    LET kept == KeptOfRow(A, t, i)
                        One == IF k = 5 THEN kept[1] ELSE t[i + k + 1]
                        Two == IF k >= 4 THEN kept[k - 3] ELSE t[i + k + 2]
                    IN [t EXCEPT ![i + k] = @ ^^ (KeccakNot(One) & Two)]
            IN Iterate(InRow, s, 5)
    IN Iterate(Step, A, 5)

RoundConstant(round) == (53 * round * round + 17 * round + 1) % 2^KeccakBits

Sha3Permutation[state \in Seq(Nat)] ==
    LET Round(s, n) ==
            LET t == KeccakChi(KeccakPi(KeccakRho(KeccakTheta(s)))) IN [t EXCEPT ![1] = @ ^^ RoundConstant(n - 1)]
    IN Iterate(Round, state, NumberOfRounds)

-----------------------------------------------------------------------------
(* Contexts.  The size of the block tells the variant: the state less two  *)
(* digests.                                                                *)

StateLength == 25 * KeccakBytes

KeccakInit(bits) ==
    [hash |-> Zeros(25), message |-> Zeros(StateLength), rest |-> 0,
     size |-> StateLength - (2 * bits * KeccakBytes) \div 64]

Sha3_224_Init == KeccakInit(224)
Sha3_256_Init == KeccakInit(256)
Sha3_384_Init == KeccakInit(384)
Sha3_512_Init == KeccakInit(512)

\* Little-endian lanes of bytes.
LaneOf(bytes, n) == Number([b \in 1..KeccakBytes |-> bytes[KeccakBytes * (n + 1) + 1 - b]], 256)

\* The lanes mixed in, block size by block size; the last group but one only
\* with FULL_SHA3_FAMILY_SUPPORT.
Absorbed(size) ==
    LET Above(n) == size > n * KeccakBytes
    IN IF Above(17) THEN 18 ELSE IF Above(13) THEN 17 ELSE IF Above(9) THEN 13 ELSE 9

Sha3ProcessBlock(Permutation, hash, block, size) ==
    Permutation[[i \in 1..25 |-> IF i <= Absorbed(size) THEN hash[i] ^^ LaneOf(block, i - 1) ELSE hash[i]]]

MessageWith(message, at, data) ==
    [i \in 1..Len(message) |-> IF i - at \in 1..Len(data) THEN data[i - at] ELSE message[i]]

\* Fault: a block that is filled exactly waits for more.
FillsBlockLate(size, left) == size > left

FillsBlock(size, left) == size >= left

\* n whole blocks, straight from the data when they are aligned, and through
\* the message buffer otherwise: the hash is the same.
Sha3Blocks(Permutation, hash, data, from, n, size) ==
    LET Block(h, i) == LET at == from + size * (i - 1)
                       IN Sha3ProcessBlock(Permutation, h, Slice(data, at, at + size), size)
    IN Loop(Block, hash, 0, n)

Sha3Update(Permutation, ctx, data) ==
    LET idx == ctx.rest
        left == IF idx = 0 THEN 0 ELSE ctx.size - idx
        rested == [ctx EXCEPT !.rest = (idx + Len(data)) % ctx.size]
        filled == IF idx = 0 THEN rested
                  ELSE LET m == MessageWith(ctx.message, idx, SubSeq(data, 1, left))
                       IN [rested EXCEPT !.message = m, !.hash = Sha3ProcessBlock(Permutation, @, m, ctx.size)]
        blocks == (Len(data) - left) \div ctx.size
        over == Slice(data, left + ctx.size * blocks, Len(data))
    IN IF data = <<>> THEN ctx
       ELSE IF idx > 0 /\ ~FillsBlock(Len(data), left) THEN [rested EXCEPT !.message = MessageWith(@, idx, data)]
       ELSE [filled EXCEPT !.hash = Sha3Blocks(Permutation, @, data, left, blocks, ctx.size),
                           !.message = MessageWith(@, 0, over)]

KeccakDigest(hash, n) ==
    SubSeq(Joined([i \in 1..25 |-> [b \in 1..KeccakBytes |-> (hash[i] \div 2^(8 * (b - 1))) % 256]]), 1, n)

\* The first bit of the padding and the last may fall on one byte.
Padded(ctx, domain) ==
    [i \in 1..Len(ctx.message) |->
        LET byte == IF i <= ctx.rest THEN ctx.message[i] ELSE IF i <= ctx.size THEN 0 ELSE ctx.message[i]
            first == IF i = ctx.rest + 1 THEN byte | domain ELSE byte
        IN IF i = ctx.size THEN first | 128 ELSE first]

Finished(Permutation, ctx, domain) ==
    KeccakDigest(Sha3ProcessBlock(Permutation, ctx.hash, Padded(ctx, domain), ctx.size), (StateLength - ctx.size) \div 2)

Sha3Final(Permutation, ctx) == Finished(Permutation, ctx, 6)
KeccakFinal(Permutation, ctx) == Finished(Permutation, ctx, 1)

Sha3_256(data) == Sha3Final(Sha3Permutation, Sha3Update(Sha3Permutation, Sha3_256_Init, data))
Sha3_512(data) == Sha3Final(Sha3Permutation, Sha3Update(Sha3Permutation, Sha3_512_Init, data))
Keccak_256(data) == KeccakFinal(Sha3Permutation, Sha3Update(Sha3Permutation, Sha3_256_Init, data))
Keccak_512(data) == KeccakFinal(Sha3Permutation, Sha3Update(Sha3Permutation, Sha3_512_Init, data))
=============================================================================

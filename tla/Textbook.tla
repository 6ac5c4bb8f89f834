------------------------------ MODULE Textbook -----------------------------
(***************************************************************************)
(* What the functions of lib/trezor-crypto promise, in the terms of the    *)
(* standards they implement rather than of their code: numbers instead of  *)
(* limbs, double-and-add instead of signed digits, a message padded as a   *)
(* whole instead of a context.                                             *)
(***************************************************************************)
EXTENDS Ecdsa, Mac

-----------------------------------------------------------------------------
(* Numbers modulo m, for m below 2^20: a product is taken in two halves so *)
(* that it stays below 2^31.                                               *)

TimesMod(a, b, m) ==
    LET x == a % m
        y == b % m
    IN (((x * (y \div 1024)) % m) * 1024 + x * (y % 1024)) % m

PowerMod(b, e, m) ==
    Iterate(LAMBDA s, i : LET q == TimesMod(s, s, m) IN IF (e \div 2^(NumBits - i)) % 2 = 1 THEN TimesMod(q, b, m) ELSE q,
            1, NumBits)

\* The shortest digits of v, at least one.
Shortest(v, base) == DigitsOf(v, base, CHOOSE n \in 1..LimbBits * Limbs : base^n > v /\ (n > 1 => base^(n - 1) <= v))

\* v with `decimals` digits behind the point, which go without their zeros at
\* the end unless `trailing`, and a separator between groups of three before it.
Printed(v, decimals, trailing, thousands) ==
    LET whole == Shortest(v \div Ten^decimals, Ten)
        part == DigitsOf(v, Ten, decimals)
        n == CHOOSE n \in 0..decimals : (n = 0 \/ trailing \/ part[n] # 0)
                                       /\ \A i \in n + 1..decimals : ~trailing /\ part[i] = 0
        Group(i) == IF thousands /\ i > 1 /\ (Len(whole) + 1 - i) % 3 = 0 THEN <<Separator>> ELSE <<>>
    IN Joined([i \in 1..Len(whole) |-> Group(i) \o <<whole[i]>>])
         \o (IF n = 0 THEN <<>> ELSE <<DecimalPoint>> \o SubSeq(part, 1, n))

IsSquare(v, p) == PowerMod(v, (p - 1) \div 2, p) = 1

\* r is the bignum of v; of v modulo p, perhaps plus p; of v modulo p.
Is(r, v) == Normalized(r) /\ Value(r) = v
IsPartly(r, v, p) == Normalized(r) /\ Value(r) < 2 * p /\ (Value(r) - v) % p = 0
IsFully(r, v, p) == Is(r, v % p)

-----------------------------------------------------------------------------
(* Multiples of a point, from the binary digits of the factor.             *)

Multiple(c, k, p) ==
    Iterate(LAMBDA q, i : LET d == PointDouble(c, q)
                          IN IF (k \div 2^(NumBits - i)) % 2 = 1 THEN PointAdd(c, p, d) ELSE d,
            Infinity, NumBits)

-----------------------------------------------------------------------------
(* Hashes of whole messages.                                               *)

BigEndian(words, n) ==
    [k \in 1..LaneBytes * n |-> DigitsOf(words[(k - 1) \div LaneBytes + 1], 256, LaneBytes)[((k - 1) % LaneBytes) + 1]]

\* FIPS 180: a mark, zeros, and the length in bits, counted from `before`.
PaddedLanes(m, before) ==
    LET zeros == CHOOSE z \in 0..BlockLength - 1 : (Len(m) + 1 + z) % BlockLength = ShortBlockLength
        body == m \o <<128>> \o Zeros(zeros)
        bits == 8 * Len(m) + before
    IN [i \in 1..Len(body) \div LaneBytes |-> Number(Slice(body, (i - 1) * LaneBytes, i * LaneBytes), 256)]
         \o <<(bits \div Lane) % Lane, bits % Lane>>

ShaChain(F, state, lanes) == Loop(LAMBDA s, i : F[s, Slice(lanes, 16 * (i - 1), 16 * i)], state, 0, Len(lanes) \div 16)

ShaOf(F, state, m, before, n) == BigEndian(ShaChain(F, state, PaddedLanes(m, before)), n)

\* FIPS 202: the permutation's steps on a square of lanes.
KeccakRound(A) ==
    LET a(x, y) == A[x + 5 * y + 1]
        C == [x \in 0..4 |-> Iterate(LAMBDA s, y : s ^^ a(x, y - 1), 0, 5)]
        theta == [x \in 0..4 |-> [y \in 0..4 |-> (a(x, y) ^^ C[(x + 4) % 5]) ^^ Keccak_Rotl(C[(x + 1) % 5], 1)]]
        Turn(s, t) == [o |-> [s.o EXCEPT ![s.x][s.y] = ((t * (t + 1)) \div 2) % 64], x |-> s.y, y |-> (2 * s.x + 3 * s.y) % 5]
        offset == Iterate(Turn, [o |-> [x \in 0..4 |-> [y \in 0..4 |-> 0]], x |-> 1, y |-> 0], 24).o
        From(x, y) == CHOOSE p \in (0..4) \X (0..4) : p[2] = x /\ (2 * p[1] + 3 * p[2]) % 5 = y
        B == [x \in 0..4 |-> [y \in 0..4 |->
                LET p == From(x, y) IN Keccak_Rotl(theta[p[1]][p[2]], offset[p[1]][p[2]])]]
    IN [i \in 1..25 |-> LET x == (i - 1) % 5
                            y == (i - 1) \div 5
                        IN B[x][y] ^^ (KeccakNot(B[(x + 1) % 5][y]) & B[(x + 2) % 5][y])]

SpongeChain(P, size, padded) ==
    LET Absorb(h, i) == P[[j \in 1..25 |-> IF j <= size \div KeccakBytes
                             THEN h[j] ^^ LaneOf(Slice(padded, (i - 1) * size, i * size), j - 1) ELSE h[j]]]
    IN Loop(Absorb, Zeros(25), 0, Len(padded) \div size)

SpongeOf(P, init, m, domain) ==
    LET zeros == CHOOSE z \in 0..init.size - 1 : (Len(m) + 1 + z) % init.size = 0
        raw == m \o <<domain>> \o Zeros(zeros)
        padded == [raw EXCEPT ![Len(raw)] = @ | 128]
    IN KeccakDigest(SpongeChain(P, init.size, padded), (StateLength - init.size) \div 2)

-----------------------------------------------------------------------------
(* RFC 2104, RFC 2898 and SP 800-90A over a hash of whole messages.        *)

HmacOf(H(_), key, m) ==
    LET short == IF Len(key) > BlockLength THEN H(key) ELSE key
        block == short \o Zeros(BlockLength - Len(short))
    IN H(XorBytes(block, OuterPad) \o H(XorBytes(block, InnerPad) \o m))

Pbkdf2Of(PRF(_, _), pass, salt, iterations, keylen) ==
    LET Sum(nr) ==
            LET Step(s, i) == With(PRF(pass, s.u), LAMBDA u : [u |-> u, t |-> XorLanes(s.t, u)])
                u1 == PRF(pass, salt \o DigitsOf(nr, 256, 4))
            IN Iterate(Step, [u |-> u1, t |-> u1], iterations - 1).t
        blocks == (keylen + DigestLength - 1) \div DigestLength
    IN SubSeq(Joined([nr \in 1..blocks |-> Sum(nr)]), 1, keylen)

DrbgUpdateOf(PRF(_, _), kv, data) ==
    LET Once(s, domain) == With(PRF(s.k, s.v \o <<domain>> \o data), LAMBDA k : [k |-> k, v |-> PRF(k, s.v)])
    IN IF data = <<>> THEN Once(kv, 0) ELSE Once(Once(kv, 0), 1)

DrbgOf(PRF(_, _), seed) ==
    DrbgUpdateOf(PRF, [k |-> Zeros(DigestLength), v |-> [i \in 1..DigestLength |-> 1]], seed)

DrbgOutputOf(PRF(_, _), kv, len) ==
    LET Step(s, i) == With(PRF(kv.k, s.v), LAMBDA v : [v |-> v, out |-> s.out \o v])
        end == Iterate(Step, [v |-> kv.v, out |-> <<>>], (len + DigestLength - 1) \div DigestLength)
    IN [kv |-> DrbgUpdateOf(PRF, [kv EXCEPT !.v = end.v], <<>>), out |-> SubSeq(end.out, 1, len)]

-----------------------------------------------------------------------------
(* RLP, and the bytes whose hash EIP-155 and EIP-1559 have signed.         *)

ShortestForm(be) == CHOOSE s \in {SubSeq(be, k, Len(be)) : k \in 1..Len(be) + 1} :
    /\ \A i \in 1..Len(be) - Len(s) : be[i] = 0
    /\ s = <<>> \/ s[1] # 0

RlpLength(n, base) == IF n < 56 THEN <<base + n>> ELSE LET be == ShortestForm(DigitsOf(n, 256, 4))
                                                      IN <<base + 55 + Len(be)>> \o be
RlpOf(s) == IF s \in {<<b>> : b \in 0..127} THEN s ELSE RlpLength(Len(s), 128) \o s
RlpListOf(items) == With(Joined(items), LAMBDA all : RlpLength(Len(all), 192) \o all)
RlpNumber(n) == RlpOf(ShortestForm(DigitsOf(n, 256, 4)))
=============================================================================

------------------------------ MODULE Bignum -------------------------------
(***************************************************************************)
(* src/lib/trezor-crypto/bignum.c: 256-bit numbers in nine limbs of 29     *)
(* bits.  The model keeps the limbs, the wrap of the 32-bit and the 64-bit *)
(* accumulators and every mask and shift, for any number and width of      *)
(* limbs with the proportions of the code.  A bignum is a sequence of      *)
(* limbs, least significant first: val[i] of the code is x[i + 1].         *)
(***************************************************************************)
EXTENDS Words

CONSTANTS
    Limbs,      \* BN_LIMBS
    LimbBits,   \* BN_BITS_PER_LIMB
    Extra,      \* BN_EXTRA_BITS
    Ten         \* radix of printed numbers

ASSUME BignumAssumption ==
    /\ Limbs \in Nat \ {0, 1} /\ LimbBits \in Nat \ {0} /\ Extra \in Nat \ {0}
    /\ (Limbs - 1) * Extra < LimbBits
    /\ Ten \in Nat \ {0, 1}

Base == 2^LimbBits                          \* BN_BASE
Word == 2^(LimbBits + Extra)                \* uint32_t
Dword == Word * Word                        \* uint64_t
NumBits == (Limbs - 1) * (LimbBits + Extra) \* 256
TopBits == NumBits - (Limbs - 1) * LimbBits \* BN_BITS_LAST_LIMB

Index == 1..Limbs
Normalized(x) == Len(x) = Limbs /\ \A i \in Index : x[i] \in 0..Base - 1

\* The number a bignum stands for, and the bignum of a number.
Value(x) == Iterate(LAMBDA s, i : s * Base + x[Len(x) + 1 - i], 0, Len(x))
LimbsOf(v) == Iterate(LAMBDA s, i : Append(s, (v \div Base^(i - 1)) % Base), <<>>, Limbs)

\* The loop all additions share: one term a limb, an accumulator `wide` bits
\* wide, its low bits kept and the rest carried on.
Ripple(term, acc0, wide) ==
    LET Step(s, i) == LET acc == (s.acc + term[i]) % wide
                      IN [acc |-> acc \div Base, val |-> Append(s.val, acc % Base)]
    IN Iterate(Step, [acc |-> acc0, val |-> <<>>], Len(term))

Carried(term, acc0) == Ripple(term, acc0, Word).val

-----------------------------------------------------------------------------
(* Reading and writing.  Bytes come four at a time (read_be, write_le...), *)
(* so a number outside is a sequence of Limbs - 1 words.                   *)

BnCopyLower(x) == SubSeq(x, 1, Limbs)

BnReadLe(in) ==
    LET Step(s, i) ==
            LET temp == (s.temp + in[i] * 2^(Extra * (i - 1))) % Word
            IN [temp |-> in[i] \div 2^(LimbBits + Extra - Extra * i), val |-> Append(s.val, temp % Base)]
        end == Iterate(Step, [temp |-> 0, val |-> <<>>], Limbs - 1)
    IN Append(end.val, end.temp)

Mirror(s) == [i \in 1..Len(s) |-> s[Len(s) + 1 - i]]

BnReadBe(in) == BnReadLe(Mirror(in))

\* From the top limb down; out[i] gathers limb i and the low bits of limb i + 1.
BnWriteLe(x) ==
    LET Step(s, k) ==
            LET i == Limbs - k
            IN [temp |-> x[i],
                out |-> <<(s.temp * 2^(LimbBits - Extra * (i - 1)) + x[i] \div 2^(Extra * (i - 1))) % Word>> \o s.out]
    IN Iterate(Step, [temp |-> x[Limbs], out |-> <<>>], Limbs - 1).out

BnWriteBe(x) == Mirror(BnWriteLe(x))

BnRshift(x) ==
    [i \in Index |-> x[i] \div 2 + (IF i < Limbs THEN (x[i + 1] % 2) * 2^(LimbBits - 1) ELSE 0)]

BnLshift(x) ==
    [i \in Index |-> ((x[i] * 2) % Base) + (IF i > 1 THEN x[i - 1] \div 2^(LimbBits - 1) ELSE 0)]

BnReadBe512(in) ==
    LET lower == BnReadBe(SubSeq(in, Limbs, 2 * Limbs - 2))
        upper == BnReadBe(SubSeq(in, 1, Limbs - 1))
        room == LimbBits * Limbs - NumBits
        shift == upper[1] % 2^room
    IN [lower EXCEPT ![Limbs] = @ | (shift * 2^(LimbBits - room))]
         \o Iterate(LAMBDA s, i : BnRshift(s), upper, room)

BnReadUint32(n) == [i \in Index |-> IF i = 1 THEN n % Base ELSE IF i = 2 THEN n \div Base ELSE 0]

BnReadUint64(n) ==
    [i \in Index |-> CASE i = 1 -> n % Base
                       [] i = 2 -> (n \div Base) % Base
                       [] i = 3 -> n \div Base^2
                       [] OTHER -> 0]

BnWriteUint64(x) == (((x[3] * Base) | x[2]) * Base) | x[1]

-----------------------------------------------------------------------------
(* Tests and bits.                                                         *)

BnZero == [i \in Index |-> 0]
BnOne == [i \in Index |-> IF i = 1 THEN 1 ELSE 0]
BnIsZero(x) == \A i \in Index : x[i] = 0
BnIsOne(x) == x[1] = 1 /\ \A i \in 2..Limbs : x[i] = 0
BnIsEqual(x, y) == \A i \in Index : x[i] = y[i]
BnIsEven(x) == x[1] % 2 = 0

\* Two words collect where the limbs differ, the highest limb in the highest bit.
BnIsLess(x, y) ==
    LET Collect(P(_)) == Iterate(LAMBDA s, k : s * 2 + (IF P(Limbs + 1 - k) THEN 1 ELSE 0), 0, Limbs)
    IN Collect(LAMBDA i : x[i] < y[i]) > Collect(LAMBDA i : x[i] > y[i])

\* The masks made of cond select without a branch.
BnCmov(cond, truecase, falsecase) == IF cond THEN truecase ELSE falsecase

BnSetbit(x, i) == [x EXCEPT ![i \div LimbBits + 1] = @ | 2^(i % LimbBits)]
BnTestbit(x, i) == (x[i \div LimbBits + 1] \div 2^(i % LimbBits)) % 2
BnClearbit(x, i) == [x EXCEPT ![i \div LimbBits + 1] = @ - BnTestbit(x, i) * 2^(i % LimbBits)]
BnXor(x, y) == [i \in Index |-> x[i] ^^ y[i]]

BitLength(limb) == CHOOSE b \in 0..LimbBits + Extra : 2^b > limb /\ (b > 0 => 2^(b - 1) <= limb)

BnBitcount(x) ==
    IF BnIsZero(x) THEN 0
    ELSE LET top == CHOOSE i \in Index : x[i] # 0 /\ \A j \in i + 1..Limbs : x[j] = 0
         IN (top - 1) * LimbBits + BitLength(x[top])

-----------------------------------------------------------------------------
(* Sums and differences.                                                   *)

BnNormalize(x) == Carried(x, 0)
BnAdd(x, y) == Carried([i \in Index |-> x[i] + y[i]], 0)
BnAddi(x, y) == Carried(x, y)
BnSubtract(x, y) == Carried([i \in Index |-> Base - 1 + x[i] - y[i]], 1)
BnSubi(x, y, prime) == Carried([i \in Index |-> x[i] + prime[i]], (-y) % Word)
BnSubtractmod(x, y, prime) == Carried([i \in Index |-> Base - 1 + x[i] + 2 * prime[i] - y[i]], 1)

\* Fault: one bit is taken off the top limb too many.
FastModCoefShort(x) == x[Limbs] \div 2^(TopBits + 1)

FastModCoef(x) == x[Limbs] \div 2^TopBits

\* The low limbs too may exceed Base: the code gives it sums and multiples.
BnFastMod(x, prime) ==
    LET shift == LimbBits + Extra - TopBits
        coef == FastModCoef(x)
    IN Ripple([i \in Index |-> (Base - 1) * 2^shift + x[i] - prime[i] * coef], 2^shift, Dword).val

BnMod(x, prime) == BnCmov(BnIsLess(x, prime), x, BnSubtract(x, prime))

BnAddmod(x, y, prime) == BnFastMod([i \in Index |-> (x[i] + y[i]) % Word], prime)

BnMultK(x, k, prime) == BnFastMod([i \in Index |-> (k * x[i]) % Word], prime)

BnCnegate(cond, x, prime) ==
    LET r == BnMod(x, prime)
        acc1 == Carried([i \in Index |-> Base - 1 + 2 * prime[i] - r[i]], 1)
        acc2 == Carried([i \in Index |-> prime[i] + r[i]], 0)
    IN BnCmov(cond, acc1, acc2)

\* The carry moves down: bit 0 of a limb is the top bit of the one below.
BnMultHalf(x, prime) ==
    LET odd == x[1] % 2
        Temp(i) == x[i] + prime[i] * odd
        Step(s, i) == LET acc == (s.acc + (Temp(i + 1) % 2) * 2^(LimbBits - 1)) % Word
                      IN [acc |-> (acc \div Base + Temp(i + 1) \div 2) % Word,
                          val |-> Append(s.val, acc % Base)]
        end == Iterate(Step, [acc |-> Temp(1) \div 2, val |-> <<>>], Limbs - 1)
    IN Append(end.val, end.acc)

-----------------------------------------------------------------------------
(* Products.                                                               *)

\* Column i of the long multiplication sums the products of limbs that meet there.
BnMultiplyLong(k, x) ==
    LET Column(i) == Iterate(LAMBDA s, j : IF i + 1 - j \in Index THEN s + k[j] * x[i + 1 - j] ELSE s, 0, Limbs)
        columns == Ripple([i \in 1..2 * Limbs - 1 |-> Column(i)], 0, Dword)
    IN Append(columns.val, columns.acc)

\* Takes the multiple of the prime at limb d that clears what is above 2^NumBits there.
BnMultiplyReduceStep(res, prime, d) ==
    LET coef == (res[d + Limbs] \div 2^TopBits + res[d + Limbs + 1] * 2^(LimbBits * Limbs - NumBits)) % Word
        shift == LimbBits + Extra - 1
        low == Ripple([i \in Index |-> (Base - 1) * 2^shift + res[d + i] - prime[i] * coef], 2^shift, Dword).val
    IN [i \in 1..2 * Limbs |->
          IF i - d \in Index THEN low[i - d] ELSE IF i = d + Limbs + 1 THEN 0 ELSE res[i]]

BnReduce(x, prime) == Iterate(LAMBDA res, k : BnMultiplyReduceStep(res, prime, Limbs - k), x, Limbs)

BnMultiply(k, x, prime) ==
    With(<<k, x>>, LAMBDA v : BnCopyLower(BnReduce(BnMultiplyLong(v[1], v[2]), prime)))

\* Right to left; the last limb of e is left when nothing of it remains.
BnPowerMod(x, e, prime) ==
    LET Step(s, n) ==
            LET limb == e[(n - 1) \div LimbBits + 1] \div 2^((n - 1) % LimbBits)
            IN IF n > (Limbs - 1) * LimbBits /\ limb = 0 THEN s
               ELSE [res |-> IF limb % 2 = 1 THEN BnMultiply(s.acc, s.res, prime) ELSE s.res,
                     acc |-> BnMultiply(s.acc, s.acc, prime)]
    IN Iterate(Step, [acc |-> x, res |-> BnOne], Limbs * LimbBits).res

\* For primes that are 3 modulo 4.
BnSqrt(x, prime) ==
    BnMod(BnPowerMod(x, BnRshift(BnRshift(BnAddi(prime, 1))), prime), prime)

BnLegendre(x, prime) ==
    LET res == BnMod(BnPowerMod(x, BnRshift(prime), prime), prime)
    IN IF BnIsOne(res) THEN 1 ELSE IF BnIsZero(res) THEN 0 ELSE -1

-----------------------------------------------------------------------------
(* Inverses.                                                               *)

\* Newton's iteration: i = 1, 2, 4, ... < n.
InverseModPowerTwo(a, n) ==
    LET Step(s, i) == IF 2^(i - 1) >= n THEN s
                      ELSE LET f == (s.f * s.f) % 2^n
                           IN [f |-> f, acc |-> (s.acc * (1 + f)) % 2^n]
    IN Iterate(Step, [f |-> a - 1, acc |-> (2 - a) % Word], LimbBits + Extra).acc

BnDivideBase(x, prime) ==
    LET m == (x[1] * (Base - InverseModPowerTwo(prime[1], LimbBits))) % Base
        sum == Ripple([i \in Index |-> x[i] + m * prime[i]], 0, Dword)
    IN Append(Tail(sum.val), sum.acc)

BnInverseSlow(x, prime) ==
    BnMod(BnPowerMod(BnFastMod(x, prime), BnSubtract(prime, BnReadUint32(2)), prime), prime)

\* A step of the almost Montgomery inverse, in the code's order of the tests.
InverseStep(t) ==
    LET even == BnIsEven(t.u)
        less == BnIsLess(t.v, t.u)
    IN CASE BnIsOne(t.v) -> t
         [] ~BnIsOne(t.v) /\ even ->
              [t EXCEPT !.u = BnRshift(t.u), !.s = BnLshift(t.s), !.k = @ + 1]
         [] ~BnIsOne(t.v) /\ ~even /\ BnIsEven(t.v) ->
              [t EXCEPT !.v = BnRshift(t.v), !.r = BnLshift(t.r), !.k = @ + 1]
         [] ~BnIsOne(t.v) /\ ~even /\ ~BnIsEven(t.v) /\ less ->
              [t EXCEPT !.u = BnRshift(BnSubtract(t.u, t.v)), !.r = BnAdd(t.r, t.s),
                        !.s = BnLshift(t.s), !.k = @ + 1]
         [] OTHER ->
              [t EXCEPT !.v = BnRshift(BnSubtract(t.v, t.u)), !.s = BnAdd(t.s, t.r),
                        !.r = BnLshift(t.r), !.k = @ + 1]

Unsolved(x, prime) == [u |-> prime, v |-> x, r |-> BnZero, s |-> BnOne, k |-> 0]

\* The variant that is switched off in the source: as many rounds as it takes,
\* which is for numbers that have an inverse, and as many corrections.
BnInverseAlmost(x0, prime) ==
    LET x == BnMod(BnFastMod(x0, prime), prime)
        rounds == 4 * Limbs * LimbBits
        t == Iterate(LAMBDA s, i : InverseStep(s), Unsolved(x, prime), rounds)
        whole == Iterate(LAMBDA s, i : BnDivideBase(s, prime), t.s, t.k \div LimbBits)
    IN IF BnIsZero(x0) THEN x0 ELSE Iterate(LAMBDA s, i : BnMultHalf(s, prime), whole, t.k % LimbBits)

\* A fixed number of rounds; then the power of two, limb by limb and bit by bit.
BnInverseFast(x0, prime) ==
    LET x == BnMod(BnFastMod(x0, prime), prime)
        t == Iterate(LAMBDA s, i : InverseStep(s), Unsolved(x, prime), 2 * Limbs * LimbBits)
        whole == Iterate(LAMBDA s, i : BnCmov(i - 1 < t.k \div LimbBits, BnDivideBase(s, prime), s),
                         t.s, 2 * Limbs)
        done == Iterate(LAMBDA s, i : BnCmov(i - 1 < t.k % LimbBits, BnMultHalf(s, prime), s),
                        whole, LimbBits)
    IN BnCmov(BnIsZero(x), x, done)

\* bn_inverse with USE_INVERSE_FAST.
BnInverse(x, prime) == With(x, LAMBDA v : BnInverseFast(v, prime))

-----------------------------------------------------------------------------
(* Division by a small number, and decimal digits.                         *)

\* From the top limb down; Base is split so that a word does not overflow.
BnLongDivision(x, d) ==
    LET Step(s, k) ==
            LET limb == x[Limbs - k]
                acc == (s.r * (Base % d) + limb) % Word
            IN [r |-> acc % d, q |-> <<(s.r * (Base \div d) + acc \div d) % Word>> \o s.q]
    IN Iterate(Step, [r |-> x[Limbs] % d, q |-> <<x[Limbs] \div d>>], Limbs - 1)

BnDivmod1000(x) == BnLongDivision(x, Ten^3)
BnDivmod10(x) == BnLongDivision(x, Ten)

MaxDigits == CHOOSE n \in 1..Limbs * LimbBits + 1 : Ten^n > Base^Limbs - 1 /\ Ten^(n - 1) <= Base^Limbs - 1

\* Three digits a round, the last non-zero group decides.
BnDigitcount(x) ==
    LET Step(s, g) ==
            LET i == 3 * (g - 1)
                div == BnDivmod1000(s.val)
            IN [val |-> div.q,
                digits |-> CASE div.r >= Ten^2 -> i + 3
                             [] div.r >= Ten /\ div.r < Ten^2 -> i + 2
                             [] div.r >= 1 /\ div.r < Ten -> i + 1
                             [] OTHER -> s.digits]
    IN Iterate(Step, [val |-> x, digits |-> 1], (MaxDigits + 2) \div 3).digits

\* Characters beyond the digits.
Separator == Ten
DecimalPoint == Ten + 1

\* bn_format writes from the end of the output: the digits after the point
\* first, each position only once a digit, or `trailing`, asks for it.
FractionPart(amount, decimals, zeros, trailing) ==
    LET Step(s, i) ==
            LET div == BnDivmod10(s.temp)
                shown == s.shown \/ div.r # 0 \/ trailing
            IN [temp |-> div.q, shown |-> shown, text |-> IF shown THEN <<div.r>> \o s.text ELSE s.text]
        start == [temp |-> amount, shown |-> trailing /\ zeros > 0,
                  text |-> IF trailing THEN Zeros(zeros) ELSE <<>>]
    IN Iterate(Step, start, decimals - zeros)

\* A separator before every third digit, zeros of the exponent included, but
\* none after the last significant digit.
IntegerPart(amount, exponent, thousands) ==
    LET Group(n, more) == IF thousands /\ n % 3 = 0 /\ more THEN <<Separator>> ELSE <<>>
        zeros == IF BnIsZero(amount) THEN <<>>
                 ELSE Iterate(LAMBDA s, i : Group(i, TRUE) \o <<0>> \o s, <<>>, exponent)
        Step(s, i) ==
            IF s.done THEN s
            ELSE LET div == BnDivmod10(s.temp)
                     last == BnIsZero(div.q)
                 IN [temp |-> div.q, done |-> last, n |-> s.n + 1,
                     text |-> Group(s.n + 1, ~last) \o <<div.r>> \o s.text]
        start == [temp |-> amount, done |-> FALSE, text |-> zeros,
                  n |-> IF BnIsZero(amount) THEN 0 ELSE exponent]
    IN Iterate(Step, start, MaxDigits).text

\* The text, or <<>> for the refusal when it does not fit with its final zero.
BnFormat(amount, prefix, suffix, decimals, exponent, trailing, thousands, room) ==
    LET up == IF exponent > 0 THEN exponent ELSE 0
        temp == Iterate(LAMBDA s, i : IF BnIsZero(s) THEN s ELSE BnDivmod10(s).q, amount, up - exponent)
        zeros == IF decimals < up THEN decimals ELSE up
        fraction == FractionPart(temp, decimals, zeros, trailing)
        text == prefix \o IntegerPart(fraction.temp, up - zeros, thousands)
                  \o (IF fraction.shown THEN <<DecimalPoint>> ELSE <<>>) \o fraction.text \o suffix
    IN IF Len(text) + 1 > room THEN <<>> ELSE text
=============================================================================

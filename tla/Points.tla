------------------------------- MODULE Points ------------------------------
(***************************************************************************)
(* src/lib/trezor-crypto/ecdsa.c, the first half, over the numbers of      *)
(* Bignum: points and their multiplication by a scalar in signed odd       *)
(* digits.  A curve c is a record prime, G, order, order_half, a, b; what  *)
(* the code draws at random is an argument.                                *)
(***************************************************************************)
EXTENDS Bignum, SequencesExt

CONSTANT Window     \* bits of a digit of the scalar: 4

ASSUME WindowAssumption == Window \in Nat \ {0} /\ NumBits % Window = 0 /\ TopBits >= Window

Point(px, py) == [x |-> px, y |-> py]
Infinity == Point(BnZero, BnZero)

PointIsInfinity(p) == BnIsZero(p.x) /\ BnIsZero(p.y)
PointIsEqual(p, q) == BnIsEqual(p.x, q.x) /\ BnIsEqual(p.y, q.y)
PointIsNegativeOf(p, q) == BnIsEqual(p.x, q.x) /\ ~BnIsZero(p.y) /\ ~BnIsEqual(p.y, q.y)

\* x and y from the slope: x3 = lambda^2 - sum, y3 = lambda (x1 - x3) - y1.
PointOnLine(c, lambda, p, sum) ==
    LET Reduced(x) == BnMod(BnFastMod(x, c.prime), c.prime)
        xr == Reduced(BnSubtractmod(BnMultiply(lambda, lambda, c.prime), sum, c.prime))
        yr == BnMultiply(lambda, BnSubtractmod(p.x, xr, c.prime), c.prime)
    IN Point(xr, Reduced(BnSubtractmod(yr, p.y, c.prime)))

PointDouble(c, p) ==
    LET inv == BnInverse(BnMod(BnFastMod(BnMultK(p.y, 2, c.prime), c.prime), c.prime), c.prime)
        xr == BnSubi(BnMultK(BnMultiply(p.x, p.x, c.prime), 3, c.prime), -c.a, c.prime)
        lambda == BnMultiply(inv, xr, c.prime)
    IN IF PointIsInfinity(p) THEN p
       ELSE IF BnIsZero(p.y) THEN Infinity
       ELSE PointOnLine(c, lambda, p, BnLshift(p.x))

PointAdd(c, p, q) ==
    LET inv == BnInverse(BnSubtractmod(q.x, p.x, c.prime), c.prime)
        lambda == BnMultiply(inv, BnSubtractmod(q.y, p.y, c.prime), c.prime)
    IN CASE PointIsInfinity(p) -> q
         [] ~PointIsInfinity(p) /\ PointIsInfinity(q) -> p
         [] ~PointIsInfinity(p) /\ PointIsEqual(p, q) -> PointDouble(c, q)
         [] ~PointIsInfinity(p) /\ ~PointIsInfinity(q) /\ PointIsNegativeOf(p, q) -> Infinity
         [] OTHER -> PointOnLine(c, lambda, p, BnAddmod(p.x, q.x, c.prime))

-----------------------------------------------------------------------------
(* Random numbers (rand.c), from draws of random32.                        *)

RandomUniform(draws, n) ==
    LET max == Word - 1 - ((Word - 1) % n)
        Below(x) == x < max
    IN Head(SelectSeq(draws, Below)) \div (max \div n)

\* From the last place down, each is swapped with the place drawn for it.
RandomPermute(str, drawn) ==
    LET Swapped(s, k) == LET i == Len(str) + 1 - k IN [s EXCEPT ![i] = s[drawn[i]], ![drawn[i]] = s[i]]
    IN Iterate(Swapped, str, Len(str) - 1)

-----------------------------------------------------------------------------
(* Jacobian coordinates: (x, y, z) stands for (x / z^2, y / z^3).          *)

\* Draws of random words are cut to size until one is in range.
GenerateKRandom(draws, prime) ==
    LET Cut(w) == [i \in Index |-> w[i] % (IF i = Limbs THEN 2^TopBits ELSE Base)]
        InRange(k) == ~BnIsZero(k) /\ BnIsLess(k, prime)
    IN Head(SelectSeq([i \in 1..Len(draws) |-> Cut(draws[i])], InRange))

CurveToJacobian(p, draws, prime) ==
    LET z == GenerateKRandom(draws, prime)
        z2 == BnMultiply(z, z, prime)
    IN [x |-> BnMultiply(p.x, z2, prime), y |-> BnMultiply(p.y, BnMultiply(z, z2, prime), prime), z |-> z]

JacobianToCurve(j, prime) ==
    LET y == BnInverse(j.z, prime)
        x == BnMultiply(y, y, prime)
    IN Point(BnMod(BnMultiply(j.x, x, prime), prime),
             BnMod(BnMultiply(j.y, BnMultiply(x, y, prime), prime), prime))

\* j + p; h and r are the two parts of the slope, and h = prime (never zero,
\* see the code's comment) means that the points are the same.
PointJacobianAdd(c, p, j) ==
    LET Mul(x, y) == BnMultiply(x, y, c.prime)
        Sub(x, y) == BnSubtractmod(x, y, c.prime)
        zz == Mul(j.z, j.z)
        az == BnMultK(Mul(zz, zz), -c.a, c.prime)
        x1 == Mul(p.x, zz)
        y1 == Mul(p.y, Mul(zz, j.z))
        h0 == BnFastMod(Sub(x1, j.x), c.prime)
        doubling == BnIsEqual(h0, c.prime)
        xz == BnAdd(x1, j.x)
        yz == BnAdd(y1, j.y)
        r2 == BnMultK(Mul(j.x, j.x), 3, c.prime)
        r == BnCmov(doubling, IF c.a # 0 THEN Sub(r2, az) ELSE r2, Sub(y1, j.y))
        h == BnCmov(doubling, yz, h0)
        hsq == Mul(h, h)
        hsqx == Mul(xz, hsq)
        hcby == Mul(yz, Mul(hsq, h))
        x3 == BnFastMod(Sub(Mul(r, r), hsqx), c.prime)
        y3 == Sub(Mul(r, Sub(Sub(hsqx, x3), x3)), hcby)
    IN [x |-> x3, y |-> BnFastMod(BnMultHalf(y3, c.prime), c.prime), z |-> Mul(h, j.z)]

PointJacobianDouble(c, j) ==
    LET Mul(x, y) == BnMultiply(x, y, c.prime)
        Sub(x, y) == BnSubtractmod(x, y, c.prime)
        zz == Mul(j.z, j.z)
        az4 == BnMultK(Mul(zz, zz), -c.a, c.prime)
        m == BnMultHalf(Sub(BnMultK(Mul(j.x, j.x), 3, c.prime), az4), c.prime)
        ysq == Mul(j.y, j.y)
        xysq == Mul(ysq, j.x)
        x3 == BnFastMod(Sub(Mul(m, m), BnFastMod(BnLshift(xysq), c.prime)), c.prime)
        y3 == Sub(Mul(m, Sub(xysq, x3)), Mul(ysq, ysq))
    IN [x |-> x3, y |-> BnFastMod(y3, c.prime), z |-> Mul(j.y, j.z)]

-----------------------------------------------------------------------------
(* Multiplication by a scalar.                                             *)

\* k + 2^NumBits modulo the order, made odd: its digits in base 2^Window are
\* then taken odd and signed, and the digit 2^NumBits drops out.
OddScalar(c, k) ==
    LET less == IF BnIsEven(k) THEN 1 ELSE 0
    IN Carried([i \in Index |-> (IF i = Limbs THEN 2^TopBits - 1 ELSE Base - 1) + k[i] - c.order[i] * less], 1)

\* Window + 1 bits from bit i of a up, out of one limb or of two.
WindowBits(a, i) ==
    LET limb == i \div LimbBits + 1
        shift == i % LimbBits
        next == IF limb < Limbs THEN a[limb + 1] * 2^(LimbBits - shift) ELSE 0
    IN (a[limb] \div 2^shift + next) % 2^(Window + 1)

\* The top bit tells the sign; without it the other bits are inverted.  The low
\* bit is the top bit of the digit below: turned iff the two signs differ.
SignedDigit(bits) ==
    LET negative == bits < 2^Window
        digit == (IF negative THEN 2^Window - 1 - bits ELSE bits) % 2^Window
    IN [negative |-> negative, turned |-> digit % 2 = 0, entry |-> digit \div 2 + 1]

Entries == 2^(Window - 1)
Digits == NumBits \div Window

\* p, 3p, 5p, ..., each the one before plus 2p.
OddMultiples(c, p) ==
    Iterate(LAMBDA t, i : Append(t, PointAdd(c, Last(t), PointDouble(c, p))), <<p>>, Entries - 1)

\* Fault: the result is negated for the sign of the digit alone.
AlignedSignForgotten(prime, negative, nsign, z) == BnCnegate(nsign, z, prime)

\* Negates what was summed when the next digit has the other sign.
Aligned(prime, negative, nsign, z) == BnCnegate(negative # nsign, z, prime)

\* From the top digit down; old is what the result held before.
PointMultiply(c, k, p, draws, old) ==
    LET a == OddScalar(c, k)
        table == OddMultiples(c, p)
        Digit(n) == SignedDigit(WindowBits(a, (Digits - n) * Window))
        Step(s, n) ==
            LET d == Digit(n + 1)
                j == Iterate(LAMBDA t, i : PointJacobianDouble(c, t), s.j, Window)
                aligned == [j EXCEPT !.z = Aligned(c.prime, s.negative, d.negative, @)]
            IN [j |-> PointJacobianAdd(c, table[d.entry], aligned), negative |-> d.negative]
        start == [j |-> CurveToJacobian(table[Digit(1).entry], draws, c.prime), negative |-> Digit(1).negative]
        end == Iterate(Step, start, Digits - 1)
    IN IF ~BnIsLess(k, c.order) THEN [ret |-> 1, res |-> old]
       ELSE IF BnIsZero(k) THEN [ret |-> 1, res |-> Infinity]
       ELSE [ret |-> 0, res |-> JacobianToCurve([end.j EXCEPT !.z = BnCnegate(end.negative, @, c.prime)], c.prime)]

\* curve->cp: (2 j - 1) 2^(Window (i - 1)) G.
Precomputed(c) ==
    Iterate(LAMBDA t, i : Append(t, OddMultiples(c, Iterate(LAMBDA q, n : PointDouble(c, q), c.G, Window * (i - 1)))),
            <<>>, Digits)

\* scalar_multiply with USE_PRECOMPUTED_CP: from the lowest digit up, with the table cp.
ScalarMultiplyCp(c, k, cp, draws, old) ==
    LET a == OddScalar(c, k)
        Digit(n) == SignedDigit(WindowBits(a, (n - 1) * Window))
        Step(j, n) ==
            LET d == Digit(n + 1)
            IN PointJacobianAdd(c, cp[n + 1][d.entry], [j EXCEPT !.y = BnCnegate(d.turned, @, c.prime)])
        end == Iterate(Step, CurveToJacobian(cp[1][Digit(1).entry], draws, c.prime), Digits - 1)
        signed == [end EXCEPT !.y = BnCnegate(Digit(Digits).negative, @, c.prime)]
    IN IF ~BnIsLess(k, c.order) THEN [ret |-> 1, res |-> old]
       ELSE IF BnIsZero(k) THEN [ret |-> 0, res |-> Infinity]
       ELSE [ret |-> 0, res |-> JacobianToCurve(signed, c.prime)]

\* scalar_multiply without it.
ScalarMultiply(c, k, draws, old) == PointMultiply(c, k, c.G, draws, old)
=============================================================================

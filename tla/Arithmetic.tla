---------------------------- MODULE Arithmetic -----------------------------
(***************************************************************************)
(* The numbers, points and signatures of lib/trezor-crypto, against        *)
(* Textbook.                                                               *)
(***************************************************************************)
EXTENDS Session

CONSTANTS
    Numbers,        \* numbers below 2^NumBits and twice the prime
    Prime,          \* of the field, 3 modulo 4
    CurveCount,
    Curves,         \* so many records of a curve, one for each special case of a
    Scalars,        \* factors of points
    Privates,       \* private keys
    Nonces          \* first nonces of a signature

Word2(n) == <<n \div Word, n % Word>>

\* Random words: the first are out of range, as far as a generator goes.
Draws(n) == <<Zeros(Limbs), <<n % Word, 97, 9>>, <<5, n % Word, 5>>, [i \in Index |-> 7]>>

-----------------------------------------------------------------------------
(* Numbers.                                                                *)

Numeric == session' \in [of : {"number"}, a : Numbers, b : Numbers]

AdditionsRight(a, b, x, y, p) ==
    /\ a + b < Base^Limbs => Is(BnAdd(x, y), a + b)
    /\ a >= b => Is(BnSubtract(x, y), a - b)
    /\ b <= Word - Base => Is(BnAddi(x, b), a + b)
    /\ b < p[1] => Is(BnSubi(x, b, p), a + Prime - b)
    /\ Is(BnSubtractmod(x, y, p), a + 2 * Prime - b)
    /\ IsPartly(BnAddmod(x, y, p), a + b, Prime)
    /\ BnIsLess(x, y) = (a < b) /\ BnIsEqual(x, y) = (a = b)

ProductsRight(a, b, x, y, p) ==
    /\ IsPartly(BnMultiply(x, y, p), TimesMod(a, b, Prime), Prime)
    /\ IsPartly(BnMultHalf(x, p), TimesMod(a, (Prime + 1) \div 2, Prime), Prime)
    /\ \A k \in 0..4 : IsPartly(BnMultK(x, k, p), k * a, Prime)

InversesRight(a, x, p) ==
    /\ a % Prime # 0 => IsFully(BnInverse(x, p), PowerMod(a, Prime - 2, Prime), Prime)
    /\ BnInverseFast(x, p) = BnInverseSlow(x, p)
    /\ a = 0 \/ a % Prime # 0 => BnInverseAlmost(x, p) = BnInverseFast(x, p)
    /\ IsPartly(BnDivideBase(x, p), TimesMod(a, PowerMod((Prime + 1) \div 2, LimbBits, Prime), Prime), Prime)
    /\ BnLegendre(x, p) = (IF a % Prime = 0 THEN 0 ELSE IF IsSquare(a, Prime) THEN 1 ELSE -1)
    /\ IsSquare(a, Prime) => LET r == Value(BnSqrt(x, p)) IN r < Prime /\ TimesMod(r, r, Prime) = a % Prime

BitsRight(a, b, x, y) ==
    /\ Value(BnXor(x, y)) = a ^^ b
    /\ Is(BnNormalize([i \in Index |-> x[i] + y[i]]), (a + b) % Base^Limbs)
    /\ a < 2^NumBits /\ b < 2^NumBits =>
         BnReadBe512(BnWriteBe(y) \o BnWriteBe(x)) = [i \in 1..2 * Limbs |->
            LET v == IF i <= Limbs THEN a + (b % 2^(LimbBits * Limbs - NumBits)) * 2^NumBits
                     ELSE b \div 2^(LimbBits * Limbs - NumBits)
            IN LimbsOf(v)[IF i <= Limbs THEN i ELSE i - Limbs]]

\* Every exponent and number of decimals leaves the value as it is, but for what
\* a negative exponent cuts; a text that does not fit is refused.
PrintedRight(a, x) ==
    \A decimals \in 0..4, exponent \in -2..2, trailing \in BOOLEAN, thousands \in BOOLEAN :
        LET v == IF exponent < 0 THEN a \div Ten^(-exponent) ELSE a * Ten^exponent
            text == Printed(v, decimals, trailing, thousands)
            Made(room) == BnFormat(x, <<>>, <<>>, decimals, exponent, trailing, thousands, room)
        IN Made(Len(text) + 1) = text /\ Made(Len(text)) = <<>>

DigitsRight(a, x) ==
    /\ \A i \in 0..NumBits - 1 : LET bit == (a \div 2^i) % 2
                                 IN /\ BnTestbit(x, i) = bit
                                    /\ Is(BnSetbit(x, i), a + (1 - bit) * 2^i) /\ Is(BnClearbit(x, i), a - bit * 2^i)
    /\ \A d \in 1..Ten^3 + 1 : LET q == BnLongDivision(x, d) IN Is(q.q, a \div d) /\ q.r = a % d
    /\ LET n == BnDigitcount(x) IN Ten^n > a /\ (n > 1 => Ten^(n - 1) <= a)
    /\ LET n == BnBitcount(x) IN 2^n > a /\ (n > 0 => 2^(n - 1) <= a)
    /\ a < 2^NumBits =>
         /\ BnReadBe(BnWriteBe(x)) = x /\ BnReadLe(BnWriteLe(x)) = x
         /\ Number(BnWriteBe(x), Word) = a
         /\ BnReadUint64(a) = x /\ BnWriteUint64(x) = a

\* Each number below n is drawn for as many words as any other, and each order
\* of a text by one sequence of draws.
DrawsEven ==
    /\ \A n \in 2..5 :
         LET Hit(v) == {x \in 0..Word - 1 : RandomUniform(<<x, 0>>, n) = v /\ RandomUniform(<<x, Word \div 2>>, n) = v}
         IN \A v \in 0..n - 1 : Cardinality(Hit(v)) = (Word - 1) \div n
    /\ LET text == <<1, 2, 3, 4>>
           drawn == {d \in [1..4 -> 1..4] : \A i \in 1..4 : d[i] <= i}
           orders == {RandomPermute(text, d) : d \in drawn}
       IN orders = {o \in [1..4 -> 1..4] : \A i, j \in 1..4 : i # j => o[i] # o[j]} /\ Cardinality(drawn) = Cardinality(orders)
    /\ \A n, m \in 1..8 :
         LET one == InsecureBuffer(<<7, 9>>, n)
             two == InsecureBuffer(one.seed, m)
         IN n % 4 = 0 => InsecureBuffer(<<7, 9>>, n + m) = [seed |-> two.seed, buf |-> one.buf \o two.buf]

NumbersComputed ==
    session.of = "number" =>
        LET a == session.a
            b == session.b
            x == LimbsOf(a)
            y == LimbsOf(b)
            p == LimbsOf(Prime)
        IN /\ AdditionsRight(a, b, x, y, p)
           /\ ProductsRight(a, b, x, y, p)
           /\ IsFully(BnMod(x, p), a, Prime)
           /\ Is(BnCnegate(TRUE, x, p), 2 * Prime - (a % Prime)) /\ IsPartly(BnCnegate(FALSE, x, p), a, Prime)
           /\ BitsRight(a, b, x, y)
           /\ b = 0 => InversesRight(a, x, p) /\ DigitsRight(a, x) /\ PrintedRight(a, x)
           /\ a = 0 /\ b = 0 => DrawsEven

\* Every operation of bignum.c gives the number it is for, carries, borrows and
\* masks of the limbs notwithstanding, normalised, and no larger than the next
\* one expects it: fully reduced or only below twice the prime.  The numbers
\* drawn below a bound, and the orders of a text, are as likely as each other,
\* and random bytes do not depend on how many of them a call asks for.
NumbersRight == [][End => NumbersComputed]_session

-----------------------------------------------------------------------------
(* Points and keys.                                                        *)

Scale == session' \in [of : {"scalar"}, c : 1..CurveCount, k : Scalars]

ScalarMultiplied ==
    session.of = "scalar" =>
        LET c == Curves[session.c]
            k == LimbsOf(session.k)
            old == c.G
            ret == IF session.k >= Value(c.order) THEN 1 ELSE 0
            right == IF ret = 1 THEN old ELSE Multiple(c, session.k, c.G)
            plain == ScalarMultiply(c, k, Draws(session.k), old)
            table == ScalarMultiplyCp(c, k, c.cp, Draws(session.k), old)
        IN plain.res = right /\ table.res = right
             /\ (plain.ret = 0 <=> session.k \in 1..Value(c.order) - 1) /\ table.ret = ret

\* Multiplication by signed odd digits, in blinded Jacobian coordinates, is
\* multiplication: for every scalar, the ones out of range refused, with the
\* precomputed table of the generator and without.
ScalarsRight == [][End => ScalarMultiplied]_session

Sign == session' \in [of : {"signature"}, c : 1..CurveCount, d : Privates, k : Nonces]

\* Nonces out of range come first and are passed over.
RandomFor(c, d, k) ==
    [k |-> <<Word2(0), Word2(Value(c.order)), Word2(k), Word2(k + 1)>>, z |-> Draws(k), blind |-> Draws(d)]

DigestFor[k \in Nat] == Word2(((7 * k) % 100000) + 1)

SignatureVerified ==
    session.of = "signature" =>
        LET c == Curves[session.c]
            priv == Word2(session.d)
            digest == DigestFor[session.k]
            made == EcdsaSign(c, priv, session.k, RandomFor(c, session.d, session.k), DigestFor,
                              [by \in 0..3, sig \in [r : Seq(Nat), s : Seq(Nat)] |-> TRUE])
            pub33 == GetPublicKey33(c, priv, Draws(3)).key
            pub65 == GetPublicKey65(c, priv, Draws(3))
            other == GetPublicKey33(c, Word2(session.d + 1), Draws(3)).key
        IN /\ made.ret = 0
           /\ ~BnIsLess(c.order_half, BnReadBe(made.sig.s))
           /\ EcdsaVerify(c, pub33, made.sig, session.k, DigestFor, Draws(3)) = 0
           /\ EcdsaVerify(c, other, made.sig, session.k, DigestFor, Draws(3)) = 5
           /\ RecoverPubFromSig(c, made.sig, digest, made.by, Draws(3)) = pub65
           /\ UncompressPubkey(c, pub33) = pub65.key
           /\ CompressCoords(EcdsaReadPubkey(c, pub65.key).pub) = pub33

\* A signature verifies under its own key and no other, its s is the low one,
\* and with the recovery byte it gives the key back, whichever of s and its
\* negative was taken.
SignaturesVerify == [][End => SignatureVerified]_session

KeysAgreed ==
    session.of = "signature" =>
        LET c == Curves[session.c]
            n == Value(c.order)
            mine == Word2(session.d)
            k == session.k
            theirs == Word2(k)
            Public(priv) == GetPublicKey33(c, priv, Draws(5)).key
            masked == MaskScalar(c, theirs, mine).scalar
        IN /\ EcdhMultiply(c, mine, Public(theirs), Draws(1)) = EcdhMultiply(c, theirs, Public(mine), Draws(9))
           /\ (session.d + k) % n # 0 =>
                TweakPubkey(c, Public(mine), theirs, Draws(2)).key = Public(Word2((session.d + k) % n))
           /\ UnmaskScalar(c, theirs, masked).scalar = mine
           /\ UnmaskPublicKey(c, theirs, Public(masked), Draws(4)).key = GetPublicKey65(c, mine, Draws(6)).key

\* Two ways to one key agree: a shared secret from either side, a tweak of the
\* private key or of the public one, a mask put on and taken off.
KeysAgree == [][End => KeysAgreed]_session
=============================================================================

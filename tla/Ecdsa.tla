------------------------------- MODULE Ecdsa -------------------------------
(***************************************************************************)
(* src/lib/trezor-crypto/ecdsa.c, the second half: keys, signatures,       *)
(* recovery, shared secrets, masks.  Numbers outside are sequences of      *)
(* words (see Bignum); a key is its leading byte and its coordinates; a    *)
(* signature is the pair r, s.                                             *)
(***************************************************************************)
EXTENDS Points

Key65(p) == [tag |-> 4, x |-> BnWriteBe(p.x), y |-> BnWriteBe(p.y)]
Key33(p) == [tag |-> 2 + (p.y[1] % 2), x |-> BnWriteBe(p.x)]
NoKey == [tag |-> 0]

InRange(k, order) == ~BnIsZero(k) /\ BnIsLess(k, order)

CompressCoords(p) == [tag |-> IF BnIsEven(p.y) THEN 2 ELSE 3, x |-> BnWriteBe(p.x)]

\* x^3 + a x + b
CurveRhs(c, x) ==
    LET x2a == BnSubi(BnMultiply(x, x, c.prime), -c.a, c.prime)
    IN BnMod(BnAddmod(BnMultiply(x, x2a, c.prime), c.b, c.prime), c.prime)

\* Fault: the root is taken as it comes.
RootAsFound(c, odd, y) == y

\* The root of the asked parity.
RootOfParity(c, odd, y) == IF odd % 2 # y[1] % 2 THEN BnSubtract(c.prime, y) ELSE y

\* The root is meaningless for a non-residue, so it is squared again.
UncompressCoords(c, odd, x) ==
    LET rhs == CurveRhs(c, x)
        y == BnSqrt(rhs, c.prime)
        ok == BnIsLess(x, c.prime) /\ BnIsEqual(BnMod(BnMultiply(y, y, c.prime), c.prime), rhs)
    IN IF ~ok THEN [ok |-> FALSE, pub |-> Point(x, BnZero)]
       ELSE [ok |-> TRUE, pub |-> Point(x, RootOfParity(c, odd, y))]

EcdsaValidatePubkey(c, p) ==
    /\ ~PointIsInfinity(p)
    /\ BnIsLess(p.x, c.prime)
    /\ BnIsLess(p.y, c.prime)
    /\ BnIsEqual(CurveRhs(c, p.x), BnMod(BnMultiply(p.y, p.y, c.prime), c.prime))

EcdsaReadPubkey(c, key) ==
    IF key.tag = 4
    THEN LET p == Point(BnReadBe(key.x), BnReadBe(key.y)) IN [ok |-> EcdsaValidatePubkey(c, p), pub |-> p]
    ELSE IF key.tag \in {2, 3} THEN UncompressCoords(c, key.tag, BnReadBe(key.x))
    ELSE [ok |-> FALSE, pub |-> Infinity]

GetPublicKey33(c, priv, draws) ==
    LET k == BnReadBe(priv)
        m == ScalarMultiply(c, k, draws, Infinity)
    IN IF ~InRange(k, c.order) THEN [ret |-> -1, key |-> NoKey]
       ELSE IF m.ret # 0 THEN [ret |-> 1, key |-> NoKey]
       ELSE [ret |-> 0, key |-> Key33(m.res)]

GetPublicKey65(c, priv, draws) ==
    LET k == BnReadBe(priv)
        m == ScalarMultiply(c, k, draws, Infinity)
    IN IF ~InRange(k, c.order) THEN [ret |-> -1, key |-> NoKey]
       ELSE IF m.ret # 0 THEN [ret |-> 1, key |-> NoKey]
       ELSE [ret |-> 0, key |-> Key65(m.res)]

UncompressPubkey(c, key) ==
    LET read == EcdsaReadPubkey(c, key) IN IF read.ok THEN Key65(read.pub) ELSE NoKey

EcdhMultiply(c, priv, key, draws) ==
    LET read == EcdsaReadPubkey(c, key)
        k == BnReadBe(priv)
    IN IF ~read.ok THEN [ret |-> 1]
       ELSE IF ~InRange(k, c.order) THEN [ret |-> 2]
       ELSE [ret |-> 0, key |-> Key65(PointMultiply(c, k, read.pub, draws, read.pub).res)]

-----------------------------------------------------------------------------
(* Signing: rnd.k are the numbers the generator of nonces gives, in order  *)
(* (RFC 6979 in Rfc6979), rnd.z and rnd.blind the draws that blind.        *)

Again == [ret |-> -1]

\* Fault: the parity of R.y is kept when s is replaced by its negative.
RecoveryIdNotFlipped(by, high) == by

RecoveryId(by, high) == IF high THEN by + 1 - 2 * (by % 2) ELSE by

\* One nonce k with its point R.
SignWith(c, d, z, k, R, rnd, Canonical) ==
    LET beyond == ~BnIsLess(R.x, c.order)
        r == IF beyond THEN BnSubtract(R.x, c.order) ELSE R.x
        randk == GenerateKRandom(rnd.blind, c.order)
        kinv == BnInverse(BnMultiply(randk, k, c.order), c.order)
        sum == BnAdd(BnMultiply(r, d, c.order), z)
        s == BnMod(BnMultiply(randk, BnMultiply(kinv, sum, c.order), c.order), c.order)
        high == BnIsLess(c.order_half, s)
        by == RecoveryId((R.y[1] % 2) + (IF beyond THEN 2 ELSE 0), high)
        sig == [r |-> BnWriteBe(r), s |-> BnWriteBe(IF high THEN BnSubtract(c.order, s) ELSE s)]
    IN IF BnIsZero(r) THEN Again
       ELSE IF ~InRange(d, c.order) THEN [ret |-> 2]
       ELSE IF BnIsZero(s) \/ ~Canonical[by, sig] THEN Again
       ELSE [ret |-> 0, sig |-> sig, by |-> by]

SignDigest(c, priv, digest, rnd, Canonical) ==
    LET z == BnReadBe(digest)
        Try(k) == IF ~InRange(k, c.order) THEN Again
                  ELSE With(ScalarMultiply(c, k, rnd.z, Infinity).res,
                            LAMBDA R : SignWith(c, BnReadBe(priv), z, k, R, rnd, Canonical))
        Step(s, i) == IF s # Again THEN s ELSE Try(BnReadBe(rnd.k[i]))
    IN IF BnIsZero(z) THEN [ret |-> 1] ELSE Iterate(Step, Again, Len(rnd.k))

\* The same of a message, with the hash of the curve.
EcdsaSign(c, priv, msg, rnd, HasherRaw, Canonical) == SignDigest(c, priv, HasherRaw[msg], rnd, Canonical)

-----------------------------------------------------------------------------
(* Checking.                                                               *)

VerifyDigest(c, key, sig, digest, draws) ==
    LET read == EcdsaReadPubkey(c, key)
        r == BnReadBe(sig.r)
        s == BnReadBe(sig.s)
        z == BnReadBe(digest)
        inv == BnInverse(s, c.order)
        u1 == BnMod(BnMultiply(inv, z, c.order), c.order)
        u2 == BnMod(BnMultiply(r, inv, c.order), c.order)
        res == PointAdd(c, PointMultiply(c, u2, read.pub, draws, read.pub).res,
                           ScalarMultiply(c, u1, draws, Infinity).res)
    IN IF ~read.ok THEN 1
       ELSE IF BnIsZero(z) THEN 3
       ELSE IF ~InRange(r, c.order) \/ ~InRange(s, c.order) THEN 2
       ELSE IF PointIsInfinity(res) THEN 4
       ELSE IF ~BnIsEqual(BnMod(res.x, c.order), r) THEN 5
       ELSE 0

EcdsaVerify(c, key, sig, msg, HasherRaw, draws) == VerifyDigest(c, key, sig, HasherRaw[msg], draws)

RecoverPubFromSig(c, sig, digest, recid, draws) ==
    LET r == BnReadBe(sig.r)
        s == BnReadBe(sig.s)
        x == IF recid >= 2 THEN BnAdd(r, c.order) ELSE r
        R == UncompressCoords(c, recid % 2, x)
        e == BnSubtract(c.order, BnMod(BnReadBe(digest), c.order))
        inv == BnInverse(r, c.order)
        u1 == BnMod(BnMultiply(inv, e, c.order), c.order)
        u2 == BnMod(BnMultiply(inv, s, c.order), c.order)
        pub == PointAdd(c, ScalarMultiply(c, u1, draws, Infinity).res,
                           PointMultiply(c, u2, R.pub, draws, R.pub).res)
    IN IF ~InRange(r, c.order) \/ ~InRange(s, c.order) \/ ~R.ok \/ PointIsInfinity(pub)
       THEN [ret |-> 1]
       ELSE [ret |-> 0, key |-> Key65(pub)]

\* 0: success, 1: a bad key, 2: a bad tweak or result.
TweakPubkey(c, key, tweak, draws) ==
    LET read == EcdsaReadPubkey(c, key)
        t == BnReadBe(tweak)
        p == PointAdd(c, ScalarMultiply(c, t, draws, Infinity).res, read.pub)
    IN IF key.tag \notin {2, 3} \/ ~read.ok THEN [ret |-> 1]
       ELSE IF ~BnIsLess(t, c.order) \/ PointIsInfinity(p) THEN [ret |-> 2]
       ELSE [ret |-> 0, key |-> Key33(p)]

-----------------------------------------------------------------------------
(* Masks: a scalar times the masking key, and back.                        *)

MaskScalar(c, mask, scalar) ==
    LET k == BnReadBe(mask)
    IN IF ~InRange(k, c.order) THEN [ret |-> 1]
       ELSE [ret |-> 0, scalar |-> BnWriteBe(BnMod(BnMultiply(k, BnReadBe(scalar), c.order), c.order))]

UnmaskScalar(c, mask, masked) ==
    LET k == BnReadBe(mask)
        s == BnMultiply(BnInverse(k, c.order), BnReadBe(masked), c.order)
    IN IF ~InRange(k, c.order) THEN [ret |-> 1]
       ELSE [ret |-> 0, scalar |-> BnWriteBe(BnMod(s, c.order))]

UnmaskPublicKey(c, mask, key, draws) ==
    LET read == EcdsaReadPubkey(c, key)
        k == BnReadBe(mask)
        inv == BnMod(BnInverse(k, c.order), c.order)
    IN IF ~read.ok THEN [ret |-> 1]
       ELSE IF ~InRange(k, c.order) THEN [ret |-> 2]
       ELSE [ret |-> 0, key |-> Key65(PointMultiply(c, inv, read.pub, draws, read.pub).res)]
=============================================================================

------------------------------- MODULE Words -------------------------------
(* Loops, digits and sequences that the models of lib/trezor-crypto share.  *)
EXTENDS Integers, Sequences

\* F of the value of x, which TLC then has before it evaluates F.
With(x, F(_)) == CHOOSE r \in {F(v) : v \in {x}} : TRUE

\* From s0 through Step(.., from + 1), ..., Step(.., from + n).
Loop(Step(_, _), s0, from, n) ==
    LET state[i \in 0..n] == IF i = 0 THEN s0 ELSE CHOOSE r \in {Step(s, from + i) : s \in {state[i - 1]}} : TRUE
    IN state[n]

\* The state after Step(.., 1), ..., Step(.., n), from s0.  TLC nests the turns
\* of a loop: this is a loop of loops.
Iterate(Step(_, _), s0, n) ==
    LET size == IF n <= 36 THEN 6 ELSE IF n <= 144 THEN 12 ELSE 48
        Turn(s, t) == Loop(Step, s, size * (t - 1), IF size * t <= n THEN size ELSE n - size * (t - 1))
    IN Loop(Turn, s0, 0, (n + size - 1) \div size)

\* Bits, four at a time.  (What uses the module Bitwise cannot be proved about.)
OfNibbles(F(_, _)) ==
    [p \in (0..15) \X (0..15) |->
        LET At(b) == F((p[1] \div 2^b) % 2, (p[2] \div 2^b) % 2) * 2^b
        IN At(0) + At(1) + At(2) + At(3)]
AndNibbles == OfNibbles(LAMBDA a, b : a * b)
OrNibbles == OfNibbles(LAMBDA a, b : a + b - a * b)
XorNibbles == OfNibbles(LAMBDA a, b : (a + b) % 2)

Upper(p) == <<p[1] \div 16, p[2] \div 16>>
Lower(p) == <<p[1] % 16, p[2] % 16>>

BitAnd[p \in Nat \X Nat] ==
    IF p[1] = 0 \/ p[2] = 0 THEN 0 ELSE 16 * BitAnd[Upper(p)] + AndNibbles[Lower(p)]
BitOr[p \in Nat \X Nat] ==
    IF p[1] = 0 \/ p[2] = 0 THEN p[1] + p[2] ELSE 16 * BitOr[Upper(p)] + OrNibbles[Lower(p)]
BitXor[p \in Nat \X Nat] ==
    IF p[1] = 0 \/ p[2] = 0 THEN p[1] + p[2] ELSE 16 * BitXor[Upper(p)] + XorNibbles[Lower(p)]

x & y == BitAnd[<<x, y>>]
x | y == IF x = 0 \/ y = 0 THEN x + y ELSE BitOr[<<x, y>>]
x ^^ y == IF x = 0 \/ y = 0 THEN x + y ELSE BitXor[<<x, y>>]

\* The number whose digits are ds in the given base, most significant first.
Number(ds, base) == Iterate(LAMBDA s, i : s * base + ds[i], 0, Len(ds))

\* The last n digits of v, most significant first.
DigitsOf(v, base, n) ==
    LET end == Iterate(LAMBDA s, i : [rest |-> s.rest \div base, ds |-> <<s.rest % base>> \o s.ds],
                       [rest |-> v, ds |-> <<>>], n)
    IN end.ds

\* A tuple: TLC drops the EXCEPTs of a function it has not evaluated yet.
Zeros(n) == <<>> \o [i \in 1..n |-> 0]

\* The pieces of s, one after the other.
Joined(s) == Iterate(LAMBDA t, i : t \o s[i], <<>>, Len(s))

\* Items lo to hi of s, both counted from 0, hi not included: memory as C sees it.
Slice(s, lo, hi) == SubSeq(s, lo + 1, hi)

\* Bytes compared without a branch: the differences minus one borrow from the
\* ninth bit exactly when there are none (size_t is cut to 16 bits).
Consteq(s1, s2) ==
    LET diff == Iterate(LAMBDA d, i : d | (s1[i] ^^ s2[i]), 0, Len(s2))
    IN ((((diff - 1) % 65536) \div 256) % 2) = 1
-----------------------------------------------------------------------------
(* Numbers of 32 bits, as a high and a low half that TLC can multiply.     *)

\* A step of the generator of Numerical Recipes: 1664525 v + 1013904223.
Lcg(v) ==
    LET low == v[2] * 26125 + 62303
    IN <<(v[1] * 26125 + v[2] * 25 + 15470 + low \div 65536) % 65536, low % 65536>>

\* n bytes of random_buffer in the host's tests: a new number for every four,
\* least significant byte first.
InsecureBuffer(seed, n) ==
    LET Step(s, i) ==
            LET r == IF i % 4 = 1 THEN Lcg(s.seed) ELSE s.seed
                half == r[IF i % 4 \in {1, 2} THEN 2 ELSE 1]
            IN [seed |-> r, buf |-> Append(s.buf, IF i % 2 = 1 THEN half % 256 ELSE half \div 256)]
    IN Iterate(Step, [seed |-> seed, buf |-> <<>>], n)
=============================================================================

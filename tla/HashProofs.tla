----------------------------- MODULE HashProofs -----------------------------
(***************************************************************************)
(* The hashes of lib/trezor-crypto, the hasher over them, HMAC, PBKDF2 and *)
(* the generator of nonces, proved for every compression, every            *)
(* permutation, every size of a lane and data of every length: a context   *)
(* that was fed with a message in whatever pieces gives the digest of the  *)
(* message, and what resumes a stored one what the standard computes anew. *)
(***************************************************************************)
EXTENDS Textbook, SequenceTheorems, WellFoundedInduction, TLAPS

-----------------------------------------------------------------------------
(* Loops are functions of the number of their turns; that there is one, and *)
(* only one, needs an induction.                                           *)

LEMMA Induction ==
    ASSUME NEW T, 0 \in T, \A n \in Nat : n \in T => n + 1 \in T
    PROVE  Nat \subseteq T
<1> SUFFICES ASSUME Nat \ T # {} PROVE FALSE
  OBVIOUS
<1>1. IsWellFoundedOn(OpToRel(<, Nat), Nat)
  BY NatLessThanWellFounded
<1>2. PICK x \in Nat \ T : \A y \in Nat \ T : ~(<<y, x>> \in OpToRel(<, Nat))
  BY <1>1, WFMin
<1>3. x - 1 \in Nat
  OBVIOUS
<1>4. <<x - 1, x>> \in OpToRel(<, Nat)
  BY <1>3 DEF OpToRel
<1>5. x - 1 \in T
  BY <1>2, <1>3, <1>4
<1>6. (x - 1) + 1 \in T
  BY <1>3, <1>5
<1>7. (x - 1) + 1 = x
  OBVIOUS
<1> QED BY <1>6, <1>7

-----------------------------------------------------------------------------
(* Division, and sequences of which only the length is known.              *)

LEMMA QuotientIs ==
    ASSUME NEW m \in Nat \ {0}, NEW q \in Nat, NEW r \in Nat, r < m
    PROVE  ((q * m) + r) \div m = q /\ ((q * m) + r) % m = r
<1> DEFINE p == q * m
<1>1. p \in Nat /\ p + r \in Nat
  OBVIOUS
<1>2. (p + r) \div m = q
  BY SMTT(30)
<1>3. (p + r) % m = r
  BY SMTT(30)
<1> QED BY <1>2, <1>3

LEMMA ProductGrows ==
    ASSUME NEW m \in Nat, NEW k \in Nat, NEW n \in Nat, k <= n
    PROVE  m * k <= m * n /\ m * k \in Nat
<1> DEFINE d == n - k
<1>1. d \in Nat /\ n = k + d
  OBVIOUS
<1> HIDE DEF d
<1>2. m * n = m * k + m * d /\ m * d \in Nat /\ m * k \in Nat
  BY <1>1
<1> QED BY <1>2

LEMMA Division ==
    ASSUME NEW a \in Nat, NEW m \in Nat \ {0}
    PROVE  a \div m \in Nat /\ a % m \in 0..m - 1 /\ a = ((a \div m) * m) + (a % m)
<1> DEFINE T == {k \in Nat : \E q \in Nat, r \in 0..m - 1 : k = q * m + r}
<1>1. 0 \in T
  <2>1. 0 = 0 * m + 0 /\ 0 \in 0..m - 1
    OBVIOUS
  <2> QED BY <2>1
<1>2. ASSUME NEW k \in Nat, k \in T PROVE k + 1 \in T
  <2>1. PICK q \in Nat, r \in 0..m - 1 : k = q * m + r
    BY <1>2
  <2>2. CASE r < m - 1
    <3>1. k + 1 = q * m + (r + 1) /\ r + 1 \in 0..m - 1
      BY <2>1, <2>2
    <3> QED BY <3>1
  <2>3. CASE r = m - 1
    <3>1. (q + 1) * m = q * m + m
      OBVIOUS
    <3>2. k + 1 = (q + 1) * m + 0 /\ 0 \in 0..m - 1 /\ q + 1 \in Nat
      BY <2>1, <2>3, <3>1
    <3>3. \E p \in Nat, s \in 0..m - 1 : k + 1 = p * m + s
      BY <3>2
    <3> QED BY <3>3
  <2> QED BY <2>2, <2>3
<1> HIDE DEF T
<1>3. a \in T
  BY <1>1, <1>2, Induction
<1>4. PICK q \in Nat, r \in 0..m - 1 : a = q * m + r
  BY <1>3 DEF T
<1>5. ((q * m) + r) \div m = q /\ ((q * m) + r) % m = r
  BY QuotientIs
<1> QED BY <1>4, <1>5

LEMMA RemainderOfSum ==
    ASSUME NEW a \in Nat, NEW b \in Nat, NEW m \in Nat \ {0}
    PROVE  (a + b) % m = ((a % m) + b) % m
<1> DEFINE q == a \div m
           r == a % m
           p == (r + b) \div m
           s == (r + b) % m
<1>1. q \in Nat /\ r \in 0..m - 1 /\ a = q * m + r
  BY Division
<1>2. r + b \in Nat
  BY <1>1
<1>3. p \in Nat /\ s \in 0..m - 1 /\ r + b = p * m + s
  BY <1>2, Division
<1> HIDE DEF q, r, p, s
<1>4. a + b = (q + p) * m + s /\ q + p \in Nat
  BY <1>1, <1>3
<1>5. (((q + p) * m) + s) % m = s
  BY <1>3, <1>4, QuotientIs
<1> QED BY <1>4, <1>5 DEF s, r

\* s has n items.
Long(s, n) == n \in Nat /\ s = [i \in 1..n |-> s[i]]

LEMMA LongIsSeq ==
    ASSUME NEW s, NEW n, Long(s, n)
    PROVE  s \in Seq({s[i] : i \in 1..n}) /\ Len(s) = n
<1> DEFINE S == {s[i] : i \in 1..n}
<1>1. s \in [1..n -> S] /\ n \in Nat
  BY DEF Long
<1> HIDE DEF S
<1>2. s \in Seq(S)
  BY <1>1
<1>3. Len(s) = n
  BY <1>1, <1>2
<1> QED BY <1>2, <1>3 DEF S

LEMMA SameLong ==
    ASSUME NEW s, NEW t, NEW n, Long(s, n), Long(t, n), \A i \in 1..n : s[i] = t[i]
    PROVE  s = t
BY DEF Long

LEMMA SubSeqLong ==
    ASSUME NEW s, NEW n, Long(s, n), NEW lo \in Nat, NEW hi \in lo..n
    PROVE  /\ Long(SubSeq(s, lo + 1, hi), hi - lo)
           /\ \A i \in 1..hi - lo : SubSeq(s, lo + 1, hi)[i] = s[lo + i]
<1> DEFINE S == {s[i] : i \in 1..n}
           t == SubSeq(s, lo + 1, hi)
<1>1. s \in Seq(S) /\ Len(s) = n /\ n \in Nat
  BY LongIsSeq DEF Long
<1>2. \A i \in lo + 1..hi : s[i] \in S
  BY <1>1
<1> HIDE DEF S
<1>3. /\ t \in Seq(S)
      /\ Len(t) = IF lo + 1 <= hi THEN hi - (lo + 1) + 1 ELSE 0
      /\ \A i \in 1..hi - (lo + 1) + 1 : t[i] = s[(lo + 1) + i - 1]
  BY <1>1, <1>2, SubSeqProperties
<1> HIDE DEF t
<1>4. Len(t) = hi - lo
  BY <1>1, <1>3
<1>5. t = [i \in 1..hi - lo |-> t[i]]
  BY <1>3, <1>4
<1>6. ASSUME NEW i \in 1..hi - lo PROVE t[i] = s[lo + i]
  <2>1. i \in 1..hi - (lo + 1) + 1 /\ (lo + 1) + i - 1 = lo + i
    BY <1>1
  <2> QED BY <1>3, <2>1
<1>7. hi - lo \in Nat
  BY <1>1
<1>8. Long(t, hi - lo)
  BY <1>5, <1>7 DEF Long
<1> QED BY <1>6, <1>8 DEF t

LEMMA SubSeqFromStart ==
    ASSUME NEW s, NEW n, Long(s, n), NEW hi \in 0..n
    PROVE  Long(SubSeq(s, 1, hi), hi) /\ \A i \in 1..hi : SubSeq(s, 1, hi)[i] = s[i]
<1>1. \A lo \in Nat : \A h \in lo..n :
        /\ Long(SubSeq(s, lo + 1, h), h - lo)
        /\ \A i \in 1..h - lo : SubSeq(s, lo + 1, h)[i] = s[lo + i]
  BY SubSeqLong
<1>2. /\ Long(SubSeq(s, 0 + 1, hi), hi - 0)
      /\ \A i \in 1..hi - 0 : SubSeq(s, 0 + 1, hi)[i] = s[0 + i]
  BY <1>1, ZenonT(30)
<1> DEFINE t == SubSeq(s, 1, hi)
<1>3. t = SubSeq(s, 0 + 1, hi) /\ hi - 0 = hi /\ hi \in Nat /\ \A i \in 1..hi : 0 + i = i
  BY DEF Long
<1> HIDE DEF t
<1>4. Long(t, hi) /\ \A i \in 1..hi : t[i] = s[i]
  BY <1>2, <1>3
<1> QED BY <1>4 DEF t

\* d is the n items of s and then the k of t.
JoinOf(d, s, n, t, k) ==
    /\ Long(d, n + k)
    /\ \A i \in 1..n : d[i] = s[i]
    /\ \A i \in 1..k : d[n + i] = t[i]

LEMMA JoinIs ==
    ASSUME NEW s, NEW n \in Nat, Long(s, n), NEW t, NEW k \in Nat, Long(t, k)
    PROVE  JoinOf(s \o t, s, n, t, k)
<1> DEFINE S == {s[i] : i \in 1..n} \cup {t[i] : i \in 1..k}
           d == s \o t
<1>1. s \in [1..n -> S] /\ t \in [1..k -> S]
  BY DEF Long
<1> HIDE DEF S
<1>2. s \in Seq(S) /\ t \in Seq(S) /\ Len(s) = n /\ Len(t) = k
  BY <1>1
<1>3. /\ d \in Seq(S) /\ Len(d) = n + k
      /\ \A i \in 1..n + k : d[i] = IF i <= n THEN s[i] ELSE t[i - n]
  BY <1>2, ConcatProperties
<1> HIDE DEF d
<1>4. d = [i \in 1..n + k |-> d[i]]
  <2>1. d \in [1..n + k -> S]
    BY <1>3
  <2> QED BY <2>1
<1>5. ASSUME NEW i \in 1..n PROVE d[i] = s[i]
  BY <1>3
<1>6. ASSUME NEW i \in 1..k PROVE d[n + i] = t[i]
  <2>1. n + i \in 1..n + k /\ ~(n + i <= n) /\ (n + i) - n = i
    OBVIOUS
  <2> QED BY <1>3, <2>1
<1>7. Long(d, n + k)
  BY <1>4 DEF Long
<1>8. JoinOf(d, s, n, t, k)
  BY <1>5, <1>6, <1>7 DEF JoinOf
<1> QED BY <1>8 DEF d

LEMMA ZerosLong ==
    ASSUME NEW n \in Nat
    PROVE  Long(Zeros(n), n) /\ \A i \in 1..n : Zeros(n)[i] = 0
<1> DEFINE f == [i \in 1..n |-> 0]
<1>1. Long(<<>>, 0) /\ Long(f, n)
  BY DEF Long
<1>2. Zeros(n) = <<>> \o f
  BY DEF Zeros
<1> HIDE DEF f
<1>3. JoinOf(<<>> \o f, <<>>, 0, f, n)
  BY <1>1, JoinIs
<1>4. 0 + n = n /\ \A i \in 1..n : 0 + i = i /\ f[i] = 0
  BY DEF f
<1>5. JoinOf(Zeros(n), <<>>, 0, f, n)
  BY <1>2, <1>3
<1> QED BY <1>4, <1>5 DEF JoinOf

-----------------------------------------------------------------------------
(* Blocks.  F is any function; a chain applies it to one block after the    *)
(* other, in the ways in which the contexts and their definitions do.       *)

Squeeze(F, s, x) == F[s, x]

\* HMAC over the hash that the compression F makes.
HashBy(F, m) == ShaOf(F, InitialState(Sha256), m, 0, 8)
HmacBy(F, key, m) == HmacOf(LAMBDA d : HashBy(F, d), key, m)

\* A turn of Number and DigitsOf, of u64_dec, of the generator and of its
\* definition, and a request to the defined generator.
DigitTaken(base, s, x) == s * base + x
DigitGiven(base, s) == [rest |-> s.rest \div base, ds |-> <<s.rest % base>> \o s.ds]
DigitPrinted(s) == IF s.v = 0 THEN s ELSE [v |-> s.v \div 10, text |-> <<s.v % 10>> \o s.text]
VMade(F, s) == LET c == UpdateV(F, s.ctx) IN [ctx |-> c, out |-> s.out \o BytesOf(SubSeq(c.v, 1, 8))]
VDefined(F, s, key) == LET v == HmacBy(F, key, s.v) IN [v |-> v, out |-> s.out \o v]
Output(F, s, len) == DrbgOutputOf(LAMBDA k, m : HmacBy(F, k, m), s.kv, len)

\* A turn of PBKDF2 and of its definition, and a digest behind the others.
Kneaded(F, s) ==
    LET tail == TailOf(BlockLength + DigestLength)
        g == Squeeze(F, s.odig, Squeeze(F, s.idig, s.g \o tail) \o tail)
    IN [s EXCEPT !.g = g, !.f = XorLanes(@, g)]
DigestAdded(F, s, key) == LET u == HmacBy(F, key, s.u) IN [u |-> u, t |-> XorLanes(s.t, u)]

Turned(how, F, s, x) ==
    IF how = "lanes" THEN Squeeze(F, s, x)
    ELSE IF how = "sha2" THEN Counted(Compressed(F, s, x), BlockLength)
    ELSE IF how = "sponge" THEN Sha3ProcessBlock(F, s, x.block, x.size)
    ELSE IF how = "number" THEN DigitTaken(F, s, x)
    ELSE IF how = "digits" THEN DigitGiven(F, s)
    ELSE IF how = "decimal" THEN DigitPrinted(s)
    ELSE IF how = "generate" THEN VMade(F, s)
    ELSE IF how = "define" THEN VDefined(F, s, x)
    ELSE IF how = "knead" THEN Kneaded(F, s)
    ELSE IF how = "sum" THEN DigestAdded(F, s, x)
    ELSE IF how = "spread" THEN Pbkdf2Update(F, s, x)
    ELSE IF how = "join" THEN s \o x
    ELSE Output(F, s, x)

LEMMA TurnedIs ==
    ASSUME NEW F, NEW s, NEW x
    PROVE  /\ Turned("lanes", F, s, x) = Squeeze(F, s, x)
           /\ Turned("sha2", F, s, x) = Counted(Compressed(F, s, x), BlockLength)
           /\ Turned("sponge", F, s, x) = Sha3ProcessBlock(F, s, x.block, x.size)
           /\ Turned("number", F, s, x) = DigitTaken(F, s, x)
           /\ Turned("digits", F, s, x) = DigitGiven(F, s)
           /\ Turned("decimal", F, s, x) = DigitPrinted(s)
           /\ Turned("generate", F, s, x) = VMade(F, s)
           /\ Turned("define", F, s, x) = VDefined(F, s, x)
           /\ Turned("knead", F, s, x) = Kneaded(F, s)
           /\ Turned("sum", F, s, x) = DigestAdded(F, s, x)
           /\ Turned("spread", F, s, x) = Pbkdf2Update(F, s, x)
           /\ Turned("join", F, s, x) = s \o x
           /\ Turned("output", F, s, x) = Output(F, s, x)
BY DEF Turned

Chain(f, how, F, s0, B, n) ==
    f = [i \in 0..n |-> IF i = 0 THEN s0 ELSE Turned(how, F, f[i - 1], B[i])]

Chained(how, F, s0, B, n) == (CHOOSE f : Chain(f, how, F, s0, B, n))[n]

LEMMA ChainExists ==
    ASSUME NEW how, NEW F, NEW s0, NEW B, NEW n \in Nat
    PROVE  \E f : Chain(f, how, F, s0, B, n)
<1> DEFINE T == {k \in Nat : \E f : Chain(f, how, F, s0, B, k)}
<1>1. 0 \in T
  <2> DEFINE f == [i \in 0..0 |-> s0]
  <2>1. Chain(f, how, F, s0, B, 0)
    BY DEF Chain
  <2> QED BY <2>1
<1>2. ASSUME NEW k \in Nat, k \in T PROVE k + 1 \in T
  <2>1. PICK f : Chain(f, how, F, s0, B, k)
    BY <1>2
  <2> DEFINE g == [i \in 0..k + 1 |-> IF i = k + 1 THEN Turned(how, F, f[k], B[k + 1]) ELSE f[i]]
  <2>2. ASSUME NEW i \in 0..k + 1
        PROVE  g[i] = IF i = 0 THEN s0 ELSE Turned(how, F, g[i - 1], B[i])
    <3>1. CASE i = k + 1
      BY <3>1
    <3>2. CASE i # k + 1
      <4>1. i \in 0..k /\ (i # 0 => i - 1 \in 0..k)
        BY <3>2
      <4>2. f[i] = IF i = 0 THEN s0 ELSE Turned(how, F, f[i - 1], B[i])
        BY <2>1, <4>1 DEF Chain
      <4> QED BY <3>2, <4>1, <4>2
    <3> QED BY <3>1, <3>2
  <2>3. Chain(g, how, F, s0, B, k + 1)
    BY <2>2 DEF Chain
  <2> QED BY <2>3
<1> HIDE DEF T
<1>3. Nat \subseteq T
  BY <1>1, <1>2, Induction
<1> QED BY <1>3 DEF T

LEMMA ChainsAgree ==
    ASSUME NEW how, NEW F, NEW s0, NEW B, NEW C, NEW n \in Nat, NEW m \in Nat, n <= m,
           \A i \in 1..n : B[i] = C[i],
           NEW f, Chain(f, how, F, s0, B, n), NEW g, Chain(g, how, F, s0, C, m)
    PROVE  f[n] = g[n]
<1> DEFINE T == {k \in Nat : k <= n => f[k] = g[k]}
<1>1. 0 \in T
  BY DEF Chain
<1>2. ASSUME NEW k \in Nat, k \in T PROVE k + 1 \in T
  <2>1. SUFFICES ASSUME k + 1 <= n PROVE f[k + 1] = g[k + 1]
    OBVIOUS
  <2>2. f[k + 1] = Turned(how, F, f[k], B[k + 1]) /\ g[k + 1] = Turned(how, F, g[k], C[k + 1])
    BY <2>1 DEF Chain
  <2> QED BY <1>2, <2>1, <2>2
<1> HIDE DEF T
<1>3. n \in T
  BY <1>1, <1>2, Induction
<1> QED BY <1>3 DEF T

LEMMA ChainedAgree ==
    ASSUME NEW how, NEW F, NEW s0, NEW B, NEW C, NEW n \in Nat, \A i \in 1..n : B[i] = C[i]
    PROVE  Chained(how, F, s0, B, n) = Chained(how, F, s0, C, n)
<1> DEFINE f == CHOOSE f : Chain(f, how, F, s0, B, n)
           g == CHOOSE g : Chain(g, how, F, s0, C, n)
<1>1. Chain(f, how, F, s0, B, n) /\ Chain(g, how, F, s0, C, n)
  BY ChainExists
<1>2. Chained(how, F, s0, B, n) = f[n] /\ Chained(how, F, s0, C, n) = g[n]
  BY DEF Chained
<1> HIDE DEF f, g
<1> QED BY <1>1, <1>2, ChainsAgree

LEMMA ChainedNone ==
    ASSUME NEW how, NEW F, NEW s0, NEW B
    PROVE  Chained(how, F, s0, B, 0) = s0
<1> DEFINE f == CHOOSE f : Chain(f, how, F, s0, B, 0)
<1>1. Chain(f, how, F, s0, B, 0)
  BY ChainExists
<1>2. Chained(how, F, s0, B, 0) = f[0]
  BY DEF Chained
<1> HIDE DEF f
<1> QED BY <1>1, <1>2 DEF Chain

LEMMA ChainedOnce ==
    ASSUME NEW how, NEW F, NEW s0, NEW B, NEW n \in Nat
    PROVE  Chained(how, F, s0, B, n + 1) = Turned(how, F, Chained(how, F, s0, B, n), B[n + 1])
<1> DEFINE f == CHOOSE f : Chain(f, how, F, s0, B, n)
           g == CHOOSE g : Chain(g, how, F, s0, B, n + 1)
<1>1. Chain(f, how, F, s0, B, n) /\ Chain(g, how, F, s0, B, n + 1)
  BY ChainExists
<1>2. Chained(how, F, s0, B, n) = f[n] /\ Chained(how, F, s0, B, n + 1) = g[n + 1]
  BY DEF Chained
<1> HIDE DEF f, g
<1>3. f[n] = g[n]
  BY <1>1, ChainsAgree
<1>4. g[n + 1] = Turned(how, F, g[n], B[n + 1])
  BY <1>1 DEF Chain
<1> QED BY <1>2, <1>3, <1>4

\* A step of a chain of 256-bit blocks: one compression.
LEMMA LanesOnce ==
    ASSUME NEW F, NEW s0, NEW B, NEW n \in Nat
    PROVE  Chained("lanes", F, s0, B, n + 1) = Squeeze(F, Chained("lanes", F, s0, B, n), B[n + 1])
<1> DEFINE s == Chained("lanes", F, s0, B, n)
           x == B[n + 1]
<1>1. Chained("lanes", F, s0, B, n + 1) = Turned("lanes", F, s, x)
  BY ONLY ChainedOnce, n \in Nat
<1> HIDE DEF s, x
<1>2. Turned("lanes", F, s, x) = Squeeze(F, s, x)
  BY TurnedIs
<1>3. Chained("lanes", F, s0, B, n + 1) = Squeeze(F, s, x)
  BY <1>1, <1>2
<1> QED BY <1>3 DEF s, x

\* A step of a chain of buffers: one compression, and its bits counted.
LEMMA CompressedOnce ==
    ASSUME NEW F, NEW s0, NEW B, NEW n \in Nat
    PROVE  Chained("sha2", F, s0, B, n + 1) = Counted(Compressed(F, Chained("sha2", F, s0, B, n), B[n + 1]), BlockLength)
<1> DEFINE s == Chained("sha2", F, s0, B, n)
           x == B[n + 1]
<1>1. Chained("sha2", F, s0, B, n + 1) = Turned("sha2", F, s, x)
  BY ONLY ChainedOnce, n \in Nat
<1> HIDE DEF s, x
<1>2. Turned("sha2", F, s, x) = Counted(Compressed(F, s, x), BlockLength)
  BY TurnedIs
<1>3. Chained("sha2", F, s0, B, n + 1) = Counted(Compressed(F, s, x), BlockLength)
  BY <1>1, <1>2
<1> QED BY <1>3 DEF s, x

\* A loop over blocks is a chain.
LEMMA ShaOfChained ==
    ASSUME NEW F, NEW state, NEW lanes, NEW n \in Nat, Len(lanes) \div 16 = n
    PROVE  ShaChain(F, state, lanes)
             = Chained("lanes", F, state, [i \in Nat |-> Slice(lanes, 16 * (i - 1), 16 * i)], n)
<1> DEFINE Step(s, i) == Squeeze(F, s, Slice(lanes, 16 * (i - 1), 16 * i))
           B == [i \in Nat |-> Slice(lanes, 16 * (i - 1), 16 * i)]
           W(f) == f = [i \in 0..n |-> IF i = 0 THEN state ELSE CHOOSE r \in {Step(s, 0 + i) : s \in {f[i - 1]}} : TRUE]
<1>1. ShaChain(F, state, lanes) = (CHOOSE f : W(f))[n]
  BY DEF ShaChain, Loop, Squeeze
<1>2. ASSUME NEW i \in 1..n, NEW t PROVE Step(t, i) = Turned("lanes", F, t, B[i])
  BY TurnedIs
<1> HIDE DEF Step, B
<1>3. ASSUME NEW f PROVE W(f) <=> Chain(f, "lanes", F, state, B, n)
  <2>1. ASSUME NEW i \in 1..n PROVE (CHOOSE r \in {Step(s, 0 + i) : s \in {f[i - 1]}} : TRUE) = Step(f[i - 1], i)
    OBVIOUS
  <2> QED BY <1>2, <2>1 DEF Chain
<1>4. (CHOOSE f : W(f)) = CHOOSE f : Chain(f, "lanes", F, state, B, n)
  BY <1>3
<1> HIDE DEF W
<1> QED BY <1>1, <1>4 DEF Chained, B

-----------------------------------------------------------------------------
(* Contexts of SHA-2.                                                      *)

LEMMA BlockSizes ==
    /\ LaneBytes \in Nat \ {0} /\ BlockLength \in Nat \ {0} /\ BlockLength = 16 * LaneBytes
    /\ Lane \in Nat \ {0} /\ Lane % (8 * BlockLength) = 0 /\ 8 * BlockLength <= Lane
<1>1. /\ LaneBytes \in Nat \ {0} /\ BlockLength \in Nat \ {0} /\ BlockLength = 16 * LaneBytes
      /\ Lane \in Nat \ {0} /\ Lane % (8 * BlockLength) = 0
  BY LaneAssumption DEF BlockLength
<1>2. Lane = ((Lane \div (8 * BlockLength)) * (8 * BlockLength)) + 0 /\ Lane \div (8 * BlockLength) \in Nat
  <2> DEFINE m == 8 * BlockLength
  <2>1. m \in Nat \ {0}
    BY <1>1
  <2> HIDE DEF m
  <2>2. Lane \div m \in Nat /\ Lane = ((Lane \div m) * m) + (Lane % m)
    BY <1>1, <2>1, Division
  <2> QED BY <1>1, <2>2 DEF m
<1>3. Lane \div (8 * BlockLength) # 0
  BY <1>1, <1>2
<1> DEFINE q == Lane \div (8 * BlockLength)
<1>4. q \in Nat \ {0} /\ Lane = q * (8 * BlockLength)
  BY <1>1, <1>2, <1>3
<1> HIDE DEF q
<1>5. 8 * BlockLength <= Lane
  BY <1>1, <1>4
<1> QED BY <1>1, <1>5

CountOf(bits) == [low |-> bits % Lane, high |-> (bits \div Lane) % Lane]

\* The carry is found by the wrap alone.
LEMMA CountAdds ==
    ASSUME NEW bits \in Nat, NEW n \in 0..Lane
    PROVE  AddInc(CountOf(bits), n) = CountOf(bits + n)
<1> DEFINE h == bits \div Lane
           l == bits % Lane
<1>1. Lane \in Nat \ {0} /\ h \in Nat /\ l \in 0..Lane - 1 /\ bits = (h * Lane) + l
  BY BlockSizes, Division
<1>2. CountOf(bits) = [low |-> l, high |-> h % Lane]
  BY DEF CountOf
<1> HIDE DEF h, l
<1>3. CASE l + n < Lane
  <2>1. bits + n = (h * Lane) + (l + n) /\ l + n \in Nat
    BY <1>1
  <2>2. (bits + n) % Lane = l + n /\ (bits + n) \div Lane = h
    BY <1>1, <1>3, <2>1, QuotientIs
  <2>3. ((0 * Lane) + (l + n)) % Lane = l + n
    BY <1>1, <1>3, QuotientIs
  <2>4. (l + n) % Lane = l + n /\ ~(l + n < n)
    BY <1>1, <2>3
  <2>5. AddInc(CountOf(bits), n) = [low |-> l + n, high |-> h % Lane]
    BY <1>2, <2>4 DEF AddInc
  <2> QED BY <2>2, <2>5 DEF CountOf
<1>4. CASE ~(l + n < Lane)
  <2> DEFINE r == l + n - Lane
  <2>1. r \in Nat /\ r < Lane /\ r < n /\ h + 1 \in Nat
    BY <1>1, <1>4
  <2>2. (h + 1) * Lane = (h * Lane) + Lane
    BY <1>1
  <2>3. bits + n = ((h + 1) * Lane) + r
    BY <1>1, <2>2
  <2>4. l + n = (1 * Lane) + r
    BY <1>1
  <2> HIDE DEF r
  <2>5. (bits + n) % Lane = r /\ (bits + n) \div Lane = h + 1
    BY <1>1, <2>1, <2>3, QuotientIs
  <2>6. (l + n) % Lane = r
    BY <1>1, <2>1, <2>4, QuotientIs
  <2>7. (h + 1) % Lane = ((h % Lane) + 1) % Lane
    BY <1>1, RemainderOfSum
  <2>8. AddInc(CountOf(bits), n) = [low |-> r, high |-> ((h % Lane) + 1) % Lane]
    BY <1>2, <2>1, <2>6 DEF AddInc
  <2> QED BY <2>5, <2>7, <2>8 DEF CountOf
<1> QED BY <1>3, <1>4

\* The count still tells how full the block is after it wrapped.
LEMMA UsedIs ==
    ASSUME NEW n \in Nat, NEW before \in Nat, before % (8 * BlockLength) = 0,
           NEW ctx, ctx.count = CountOf(8 * n + before)
    PROVE  ShaUsed(ctx) = n % BlockLength
<1> DEFINE M == 8 * BlockLength
           c == Lane \div M
           d == before \div M
           q == n \div BlockLength
           u == n % BlockLength
           t == (8 * n + before) \div Lane
           x == (8 * n + before) % Lane
<1>1. /\ BlockLength \in Nat \ {0} /\ Lane \in Nat \ {0} /\ M \in Nat \ {0}
      /\ Lane % M = 0 /\ before % M = 0
  BY BlockSizes
<1>2. c \in Nat /\ Lane = c * M
  <2> HIDE DEF M
  <2>1. c \in Nat /\ Lane = (c * M) + (Lane % M)
    BY <1>1, Division
  <2> QED BY <1>1, <2>1
<1>3. d \in Nat /\ before = d * M
  <2> HIDE DEF M
  <2>1. d \in Nat /\ before = (d * M) + (before % M)
    BY <1>1, Division
  <2> QED BY <1>1, <2>1
<1>4. q \in Nat /\ u \in 0..BlockLength - 1 /\ n = (q * BlockLength) + u
  BY <1>1, Division
<1>5. t \in Nat /\ x \in 0..Lane - 1 /\ 8 * n + before = (t * Lane) + x
  <2> DEFINE N == 8 * n + before
  <2>1. N \in Nat
    OBVIOUS
  <2> HIDE DEF N
  <2>2. N \div Lane \in Nat /\ N % Lane \in 0..Lane - 1 /\ N = ((N \div Lane) * Lane) + (N % Lane)
    BY <1>1, <2>1, Division
  <2> QED BY <2>2 DEF N
<1> HIDE DEF c, d, q, u, t, x
<1> DEFINE k == (q + d) - (t * c)
           y == (k * BlockLength) + u
<1>6. k \in Int /\ y \in Int /\ t * c \in Nat
  BY <1>1, <1>2, <1>3, <1>4, <1>5
<1>7. t * Lane = (t * c) * (8 * BlockLength)
  BY <1>1, <1>2, <1>5
<1>8. x = 8 * y
  <2>1. 8 * n + before = 8 * ((q * BlockLength) + u) + 8 * (d * BlockLength)
    BY <1>1, <1>3, <1>4
  <2>2. k * BlockLength = (q * BlockLength) + (d * BlockLength) - ((t * c) * BlockLength)
    BY <1>1, <1>3, <1>4, <1>6
  <2>3. t * Lane = 8 * ((t * c) * BlockLength)
    BY <1>1, <1>6, <1>7
  <2> DEFINE A == q * BlockLength
             D == d * BlockLength
             E == (t * c) * BlockLength
             K == k * BlockLength
  <2>4. A \in Int /\ D \in Int /\ E \in Int /\ K \in Int
    BY <1>1, <1>3, <1>4, <1>6
  <2>5. x = (8 * (A + u) + 8 * D) - 8 * E /\ K = A + D - E /\ y = K + u
    BY <1>5, <2>1, <2>2, <2>3, <2>4
  <2> HIDE DEF A, D, E, K, y
  <2> QED BY <1>4, <2>4, <2>5
<1> HIDE DEF k
<1>9. y \in Nat
  BY <1>5, <1>6, <1>8
<1>10. k \in Nat
  <2>1. SUFFICES ASSUME k <= -1 PROVE FALSE
    BY <1>6
  <2>2. k * BlockLength <= (-1) * BlockLength
    BY <1>1, <1>6, <2>1
  <2> QED BY <1>1, <1>4, <1>6, <1>9, <2>2
<1>11. y % BlockLength = u
  BY <1>1, <1>4, <1>10, QuotientIs
<1> HIDE DEF y
<1>12. x \div 8 = y
  BY <1>8, <1>9
<1>13. ShaUsed(ctx) = (x \div 8) % BlockLength
  BY DEF ShaUsed, CountOf, x
<1> QED BY <1>11, <1>12, <1>13 DEF u

\* The sixteen words of s that begin behind its first `at` bytes.
WordsOf(s, at) == [j \in 1..16 |-> Number([b \in 1..LaneBytes |-> s[at + (LaneBytes * (j - 1) + b)]], 256)]

LEMMA ByteOfWord ==
    ASSUME NEW j \in 1..16, NEW b \in 1..LaneBytes
    PROVE  LaneBytes * (j - 1) + b \in 1..BlockLength
<1>1. LaneBytes * (j - 1) <= LaneBytes * 15 /\ LaneBytes * (j - 1) \in Nat
  BY BlockSizes
<1> QED BY <1>1, BlockSizes

LEMMA WordsAgree ==
    ASSUME NEW s, NEW at, NEW t, NEW bt, \A k \in 1..BlockLength : s[at + k] = t[bt + k]
    PROVE  WordsOf(s, at) = WordsOf(t, bt)
<1>1. ASSUME NEW j \in 1..16
      PROVE  [b \in 1..LaneBytes |-> s[at + (LaneBytes * (j - 1) + b)]]
               = [b \in 1..LaneBytes |-> t[bt + (LaneBytes * (j - 1) + b)]]
  <2>1. ASSUME NEW b \in 1..LaneBytes PROVE s[at + (LaneBytes * (j - 1) + b)] = t[bt + (LaneBytes * (j - 1) + b)]
    <3> DEFINE k == LaneBytes * (j - 1) + b
    <3>1. k \in 1..BlockLength
      BY ByteOfWord
    <3> HIDE DEF k
    <3>2. s[at + k] = t[bt + k]
      BY <3>1
    <3> QED BY <3>2 DEF k
  <2> QED BY <2>1
<1> QED BY <1>1 DEF WordsOf

LEMMA WordsOfPart ==
    ASSUME NEW s, NEW t, NEW at, \A k \in 1..BlockLength : s[k] = t[at + k]
    PROVE  WordsOf(s, 0) = WordsOf(t, at)
<1>1. ASSUME NEW k \in 1..BlockLength PROVE s[0 + k] = t[at + k]
  <2>1. 0 + k = k
    BY BlockSizes
  <2> QED BY <2>1
<1> QED BY <1>1, WordsAgree

LEMMA ReversedLong ==
    ASSUME NEW s, NEW n, Long(s, n)
    PROVE  /\ Long(Reversed(s), n)
           /\ \A q \in Nat, b \in 1..LaneBytes :
                (LaneBytes * q + b) \in 1..n => Reversed(s)[LaneBytes * q + b] = s[LaneBytes * q + (LaneBytes + 1 - b)]
<1> DEFINE Back(i) == LaneBytes * ((i - 1) \div LaneBytes) + LaneBytes - ((i - 1) % LaneBytes)
<1>1. Reversed(s) = [i \in 1..n |-> s[Back(i)]] /\ n \in Nat
  BY LongIsSeq DEF Reversed, Long
<1>2. ASSUME NEW q \in Nat, NEW b \in 1..LaneBytes
      PROVE  Back(LaneBytes * q + b) = LaneBytes * q + (LaneBytes + 1 - b)
  <2> DEFINE r == b - 1
             i == LaneBytes * q + b
             p == q * LaneBytes
  <2>1. LaneBytes \in Nat \ {0} /\ r \in Nat /\ r < LaneBytes /\ p \in Nat /\ p = LaneBytes * q /\ i - 1 = p + r
    BY BlockSizes
  <2>2. (p + r) \div LaneBytes = q /\ (p + r) % LaneBytes = r
    BY <2>1, QuotientIs
  <2> HIDE DEF p, i
  <2>3. Back(i) = p + LaneBytes - r
    BY <2>1, <2>2
  <2> HIDE DEF Back
  <2> QED BY <2>1, <2>3 DEF i
<1> HIDE DEF Back
<1>3. Long(Reversed(s), n)
  BY <1>1 DEF Long
<1> QED BY <1>1, <1>2, <1>3

LEMMA HostWordsAre ==
    ASSUME NEW s, Long(s, BlockLength)
    PROVE  HostWords(Reversed(s)) = WordsOf(s, 0)
<1> DEFINE t == Reversed(s)
<1>1. Long(t, BlockLength) /\ Len(t) = BlockLength
  BY ReversedLong, LongIsSeq
<1>2. BlockLength \div LaneBytes = 16
  <2>1. ((16 * LaneBytes) + 0) \div LaneBytes = 16
    BY BlockSizes, QuotientIs
  <2> QED BY <2>1, BlockSizes
<1>3. ASSUME NEW j \in 1..16, NEW b \in 1..LaneBytes
      PROVE  t[LaneBytes * j + 1 - b] = s[0 + (LaneBytes * (j - 1) + b)]
  <2> DEFINE c == LaneBytes + 1 - b
  <2>1. /\ LaneBytes \in Nat \ {0} /\ c \in 1..LaneBytes /\ j - 1 \in Nat
        /\ LaneBytes + 1 - c = b
    BY BlockSizes
  <2>2. LaneBytes * j = LaneBytes * (j - 1) + LaneBytes
    BY <2>1
  <2>3. LaneBytes * j + 1 - b = LaneBytes * (j - 1) + c
    BY <2>1, <2>2
  <2> HIDE DEF c
  <2>4. LaneBytes * (j - 1) + c \in 1..BlockLength
    BY <2>1, ByteOfWord
  <2> DEFINE q == j - 1
  <2>5. q \in Nat /\ LaneBytes * q + c \in 1..BlockLength
    BY <2>1, <2>4
  <2> HIDE DEF q
  <2>6. t[LaneBytes * q + c] = s[LaneBytes * q + (LaneBytes + 1 - c)]
    BY <2>1, <2>5, ReversedLong
  <2>7. LaneBytes * q + b \in Nat
    BY <2>1, <2>5
  <2> HIDE DEF t
  <2> QED BY <2>1, <2>3, <2>6, <2>7 DEF q
<1> HIDE DEF t
<1>4. HostWords(t) = [j \in 1..16 |-> Number([b \in 1..LaneBytes |-> t[LaneBytes * j + 1 - b]], 256)]
  BY <1>1, <1>2 DEF HostWords
<1>5. ASSUME NEW j \in 1..16
      PROVE  [b \in 1..LaneBytes |-> t[LaneBytes * j + 1 - b]] = [b \in 1..LaneBytes |-> s[0 + (LaneBytes * (j - 1) + b)]]
  BY <1>3
<1> QED BY <1>4, <1>5 DEF WordsOf, t

\* A context that has taken i blocks of B and n bytes in all.
HasTaken(F, init, before, B, i, n, ctx) ==
    /\ ctx = [state |-> Chained("lanes", F, init, B, i), buffer |-> ctx.buffer, count |-> CountOf(8 * n + before)]
    /\ Long(ctx.buffer, BlockLength)

Restated(c, x, y) == [c EXCEPT !.state = x, !.buffer = y]

LEMMA RestatedIs ==
    ASSUME NEW a, NEW b, NEW k, NEW x, NEW y
    PROVE  Restated([state |-> a, buffer |-> b, count |-> k], x, y) = [state |-> x, buffer |-> y, count |-> k]
<1> DEFINE d == [[state |-> a, buffer |-> b, count |-> k] EXCEPT !.state = x, !.buffer = y]
<1>1. DOMAIN d = {"state", "buffer", "count"} /\ d = [f \in DOMAIN d |-> d[f]]
  OBVIOUS
<1>2. d.state = x /\ d.buffer = y /\ d.count = k
  OBVIOUS
<1> HIDE DEF d
<1>3. d = [state |-> x, buffer |-> y, count |-> k]
  BY <1>1, <1>2
<1> QED BY <1>3 DEF d, Restated

LEMMA CompressedIs ==
    ASSUME NEW F, NEW c, NEW buffer
    PROVE  Compressed(F, c, buffer)
             = Restated(c, Squeeze(F, c.state, HostWords(Reversed(buffer))), Reversed(buffer))
BY DEF Compressed, Squeeze, Restated

\* The next block, of which k bytes were not counted yet.
LEMMA TakesBlock ==
    ASSUME NEW F, NEW init, NEW before \in Nat, NEW B, NEW i \in Nat, NEW n \in Nat, NEW k \in 0..BlockLength,
           NEW c, HasTaken(F, init, before, B, i, n, c),
           NEW buffer, Long(buffer, BlockLength), WordsOf(buffer, 0) = B[i + 1]
    PROVE  HasTaken(F, init, before, B, i + 1, n + k, Counted(Compressed(F, c, buffer), k))
<1> DEFINE h == Chained("lanes", F, init, B, i)
           h2 == Chained("lanes", F, init, B, i + 1)
           bits == 8 * n + before
<1>1. c = [state |-> h, buffer |-> c.buffer, count |-> CountOf(bits)]
  BY DEF HasTaken
<1>2. Squeeze(F, h, HostWords(Reversed(buffer))) = h2
  BY HostWordsAre, LanesOnce
<1>3. AddInc(CountOf(bits), 8 * k) = CountOf(8 * (n + k) + before)
  <2>1. bits \in Nat /\ 8 * k \in 0..Lane /\ bits + 8 * k = 8 * (n + k) + before
    BY BlockSizes
  <2> HIDE DEF bits
  <2> QED BY <2>1, CountAdds
<1> HIDE DEF h, h2, bits
<1>4. Compressed(F, c, buffer) = [state |-> h2, buffer |-> Reversed(buffer), count |-> CountOf(bits)]
  <2> DEFINE w == HostWords(Reversed(buffer))
             r == Reversed(buffer)
  <2>1. Compressed(F, c, buffer) = Restated(c, Squeeze(F, c.state, w), r)
    BY CompressedIs
  <2>2. c.state = h /\ Squeeze(F, h, w) = h2
    BY <1>1, <1>2
  <2> HIDE DEF w, r
  <2>3. Compressed(F, c, buffer) = Restated(c, h2, r)
    BY <2>1, <2>2
  <2> DEFINE old == c.buffer
             count == CountOf(bits)
  <2>4. c = [state |-> h, buffer |-> old, count |-> count]
    BY <1>1
  <2> HIDE DEF old, count
  <2>5. Restated(c, h2, r) = [state |-> h2, buffer |-> r, count |-> count]
    BY <2>4, RestatedIs
  <2> QED BY <2>3, <2>5 DEF r, count
<1>5. Counted(Compressed(F, c, buffer), k)
        = [state |-> h2, buffer |-> Reversed(buffer), count |-> CountOf(8 * (n + k) + before)]
  BY <1>3, <1>4 DEF Counted
<1>6. Long(Reversed(buffer), BlockLength)
  BY ReversedLong
<1> QED BY <1>5, <1>6 DEF HasTaken, h2

BlocksOf(m) == [i \in Nat |-> WordsOf(m, BlockLength * (i - 1))]

\* A context that was fed with the n bytes of m.
WasFed(F, init, before, m, n, ctx) ==
    /\ HasTaken(F, init, before, BlocksOf(m), n \div BlockLength, n, ctx)
    /\ \A j \in 1..n % BlockLength : ctx.buffer[j] = m[BlockLength * (n \div BlockLength) + j]

LEMMA OverwrittenIs ==
    ASSUME NEW s, Long(s, BlockLength), NEW at \in Nat, NEW data, NEW k, Long(data, k), at + k <= BlockLength
    PROVE  /\ Long(Overwritten(s, at, data), BlockLength)
           /\ \A i \in 1..at : Overwritten(s, at, data)[i] = s[i]
           /\ \A i \in 1..k : Overwritten(s, at, data)[at + i] = data[i]
<1>1. Len(s) = BlockLength /\ Len(data) = k /\ BlockLength \in Nat /\ k \in Nat
  BY LongIsSeq DEF Long
<1>2. Overwritten(s, at, data) = [i \in 1..BlockLength |-> IF i - at \in 1..k THEN data[i - at] ELSE s[i]]
  BY <1>1 DEF Overwritten
<1> DEFINE t == Overwritten(s, at, data)
<1>3. Long(t, BlockLength)
  BY <1>1, <1>2 DEF Long
<1> HIDE DEF t
<1>4. t = [i \in 1..BlockLength |-> IF i - at \in 1..k THEN data[i - at] ELSE s[i]]
  BY <1>2 DEF t
<1>5. ASSUME NEW i \in 1..at PROVE t[i] = s[i]
  BY <1>1, <1>4
<1>6. ASSUME NEW i \in 1..k PROVE t[at + i] = data[i]
  <2>1. at + i \in 1..BlockLength /\ (at + i) - at = i
    BY <1>1
  <2> QED BY <1>4, <2>1
<1> QED BY <1>3, <1>5, <1>6 DEF t

\* What a context has taken of m it has taken of any continuation of m.
LEMMA TakenOfMore ==
    ASSUME NEW F, NEW init, NEW before, NEW m, NEW d, NEW i \in Nat, NEW n \in Nat, NEW c,
           HasTaken(F, init, before, BlocksOf(m), i, n, c), \A k \in 1..BlockLength * i : d[k] = m[k]
    PROVE  HasTaken(F, init, before, BlocksOf(d), i, n, c)
<1>1. ASSUME NEW j \in 1..i PROVE BlocksOf(m)[j] = BlocksOf(d)[j]
  <2> DEFINE at == BlockLength * (j - 1)
  <2>1. at \in Nat /\ at + BlockLength <= BlockLength * i
    BY BlockSizes
  <2>2. ASSUME NEW k \in 1..BlockLength PROVE m[at + k] = d[at + k]
    <3>1. at + k \in 1..BlockLength * i
      BY <2>1, BlockSizes
    <3> QED BY <3>1
  <2>3. WordsOf(m, at) = WordsOf(d, at)
    BY <2>2, WordsAgree
  <2> QED BY <2>3 DEF BlocksOf
<1>2. Chained("lanes", F, init, BlocksOf(m), i) = Chained("lanes", F, init, BlocksOf(d), i)
  BY <1>1, ChainedAgree
<1> QED BY <1>2 DEF HasTaken

\* The loop of sha256_Update over the whole blocks of its data.
LEMMA LoopTakesBlocks ==
    ASSUME NEW F, NEW init, NEW before \in Nat, NEW B, NEW i \in Nat, NEW n \in Nat, n = BlockLength * i,
           NEW c, HasTaken(F, init, before, B, i, n, c),
           NEW data, NEW size, Long(data, size), NEW free \in Nat, NEW blocks \in Nat,
           free + BlockLength * blocks <= size,
           \A k \in 1..blocks : WordsOf(data, free + BlockLength * (k - 1)) = B[i + k]
    PROVE  HasTaken(F, init, before, B, i + blocks, n + BlockLength * blocks, BlocksTaken(F, c, data, free, blocks))
<1> DEFINE At(k) == free + BlockLength * (k - 1)
           Step(s, k) == Counted(Compressed(F, s, Slice(data, At(k), At(k) + BlockLength)), BlockLength)
           D == [k \in Nat |-> Slice(data, At(k), At(k) + BlockLength)]
           W(f) == f = [k \in 0..blocks |-> IF k = 0 THEN c ELSE CHOOSE r \in {Step(s, 0 + k) : s \in {f[k - 1]}} : TRUE]
           C(k) == Chained("sha2", F, c, D, k)
<1>1. BlocksTaken(F, c, data, free, blocks) = C(blocks)
  <2>1. BlocksTaken(F, c, data, free, blocks) = (CHOOSE f : W(f))[blocks]
    BY DEF BlocksTaken, Loop
  <2>2. ASSUME NEW k \in 1..blocks, NEW t PROVE Step(t, k) = Turned("sha2", F, t, D[k])
    BY TurnedIs
  <2> HIDE DEF Step, D
  <2>3. ASSUME NEW f PROVE W(f) <=> Chain(f, "sha2", F, c, D, blocks)
    <3>1. ASSUME NEW k \in 1..blocks PROVE (CHOOSE r \in {Step(s, 0 + k) : s \in {f[k - 1]}} : TRUE) = Step(f[k - 1], k)
      OBVIOUS
    <3> QED BY <2>2, <3>1 DEF Chain
  <2>4. (CHOOSE f : W(f)) = CHOOSE f : Chain(f, "sha2", F, c, D, blocks)
    BY <2>3
  <2> HIDE DEF W
  <2> QED BY <2>1, <2>4 DEF Chained
<1> DEFINE T == {k \in Nat : k <= blocks => HasTaken(F, init, before, B, i + k, n + BlockLength * k, C(k))}
<1>2. 0 \in T
  <2>1. C(0) = c
    BY ChainedNone
  <2>2. i + 0 = i /\ n + BlockLength * 0 = n
    BY BlockSizes
  <2> HIDE DEF C
  <2> QED BY <2>1, <2>2
<1>3. ASSUME NEW k \in Nat, k \in T PROVE k + 1 \in T
  <2> SUFFICES ASSUME k + 1 <= blocks PROVE HasTaken(F, init, before, B, i + (k + 1), n + BlockLength * (k + 1), C(k + 1))
    OBVIOUS
  <2>1. HasTaken(F, init, before, B, i + k, n + BlockLength * k, C(k))
    BY <1>3
  <2>2. C(k + 1) = Counted(Compressed(F, C(k), D[k + 1]), BlockLength)
    BY CompressedOnce
  <2> HIDE DEF C
  <2> DEFINE at == free + BlockLength * k
             buffer == D[k + 1]
  <2>3. /\ at \in Nat /\ at + BlockLength \in at..size /\ buffer = SubSeq(data, at + 1, at + BlockLength)
        /\ WordsOf(data, at) = B[(i + k) + 1]
    <3>1. BlockLength * (k + 1) <= BlockLength * blocks
      BY BlockSizes
    <3>2. BlockLength * (k + 1) = BlockLength * k + BlockLength /\ BlockLength * k \in Nat
      BY BlockSizes
    <3>3. size \in Nat /\ (k + 1) - 1 = k /\ i + (k + 1) = (i + k) + 1
      BY DEF Long
    <3>4. at \in Nat /\ at + BlockLength \in at..size
      BY <3>1, <3>2, <3>3, BlockSizes
    <3>5. At(k + 1) = at
      BY <3>3
    <3>6. k + 1 \in 1..blocks /\ k + 1 \in Nat
      OBVIOUS
    <3>7. WordsOf(data, At(k + 1)) = B[i + (k + 1)]
      BY <3>6
    <3> HIDE DEF At
    <3>8. buffer = Slice(data, At(k + 1), At(k + 1) + BlockLength)
      BY <3>6
    <3> HIDE DEF at, buffer
    <3> QED BY <3>3, <3>4, <3>5, <3>7, <3>8 DEF Slice
  <2> HIDE DEF at, buffer, D
  <2>4. /\ Long(buffer, BlockLength)
        /\ \A b \in 1..BlockLength : buffer[b] = data[at + b]
    <3>1. /\ Long(buffer, (at + BlockLength) - at)
          /\ \A b \in 1..(at + BlockLength) - at : buffer[b] = data[at + b]
      BY <2>3, SubSeqLong
    <3>2. (at + BlockLength) - at = BlockLength
      BY <2>3, BlockSizes
    <3> QED BY <3>1, <3>2
  <2>5. WordsOf(buffer, 0) = B[(i + k) + 1]
    <3>1. WordsOf(buffer, 0) = WordsOf(data, at)
      BY <2>4, WordsOfPart
    <3> QED BY <2>3, <3>1
  <2>6. i + k \in Nat /\ n + BlockLength * k \in Nat /\ BlockLength \in 0..BlockLength
    BY BlockSizes
  <2>7. HasTaken(F, init, before, B, (i + k) + 1, (n + BlockLength * k) + BlockLength,
                 Counted(Compressed(F, C(k), buffer), BlockLength))
    BY <2>1, <2>4, <2>5, <2>6, TakesBlock
  <2>8. (i + k) + 1 = i + (k + 1) /\ (n + BlockLength * k) + BlockLength = n + BlockLength * (k + 1)
    BY BlockSizes
  <2> QED BY <2>2, <2>7, <2>8 DEF buffer
<1> HIDE DEF T
<1>4. blocks \in T
  BY <1>2, <1>3, Induction
<1> HIDE DEF C, Step, D
<1> QED BY <1>1, <1>4 DEF T

Kept(c, at, data, k) == Counted([c EXCEPT !.buffer = Overwritten(@, at, data)], k)

LEMMA KeepsRest ==
    ASSUME NEW F, NEW init, NEW before \in Nat, NEW B, NEW i \in Nat, NEW n \in Nat,
           NEW c, HasTaken(F, init, before, B, i, n, c),
           NEW at \in Nat, NEW data, NEW k, Long(data, k), at + k <= BlockLength,
           NEW new, new = Kept(c, at, data, k)
    PROVE  HasTaken(F, init, before, B, i, n + k, new) /\ new.buffer = Overwritten(c.buffer, at, data)
<1> DEFINE h == Chained("lanes", F, init, B, i)
           bits == 8 * n + before
           more == 8 * (n + k) + before
           old == c.buffer
           buffer == Overwritten(old, at, data)
<1>1. c = [state |-> h, buffer |-> old, count |-> CountOf(bits)] /\ Long(old, BlockLength)
  BY DEF HasTaken
<1>2. AddInc(CountOf(bits), 8 * k) = CountOf(more)
  <2>1. k \in Nat /\ k <= BlockLength /\ BlockLength \in Nat /\ 8 * BlockLength <= Lane /\ Lane \in Nat
    BY BlockSizes DEF Long
  <2>2. bits \in Nat /\ 8 * k \in 0..Lane /\ bits + 8 * k = more
    BY <2>1
  <2> HIDE DEF bits, more
  <2> QED BY <2>2, CountAdds
<1>3. Long(buffer, BlockLength)
  BY <1>1, OverwrittenIs
<1> HIDE DEF h, bits, more, old, buffer
<1>4. [c EXCEPT !.buffer = Overwritten(@, at, data)] = [c EXCEPT !.buffer = buffer]
  BY DEF buffer, old
<1>5. [c EXCEPT !.buffer = buffer] = [state |-> h, buffer |-> buffer, count |-> CountOf(bits)]
  BY <1>1
<1>6. new = [state |-> h, buffer |-> buffer, count |-> CountOf(more)]
  BY <1>2, <1>4, <1>5 DEF Counted, Kept
<1> QED BY <1>3, <1>6 DEF HasTaken, h, more, buffer, old

\* However a context was fed before, feeding it appends to what it was fed with.
LEMMA FedOnward ==
    ASSUME NEW F, NEW init, NEW before \in Nat, before % (8 * BlockLength) = 0,
           NEW m, NEW n, Long(m, n), NEW ctx, WasFed(F, init, before, m, n, ctx), NEW data, NEW k, Long(data, k)
    PROVE  WasFed(F, init, before, m \o data, n + k, ShaUpdate(F, ctx, data))
<1> DEFINE d == m \o data
           q == n \div BlockLength
           u == n % BlockLength
           new == ShaUpdate(F, ctx, data)
<1>1. BlockLength \in Nat \ {0} /\ n \in Nat /\ k \in Nat /\ Len(data) = k
  BY BlockSizes, LongIsSeq DEF Long
<1>2. q \in Nat /\ u \in 0..BlockLength - 1 /\ n = (q * BlockLength) + u /\ BlockLength * q = q * BlockLength
  <2>1. q \in Nat /\ u \in 0..BlockLength - 1 /\ n = (q * BlockLength) + u
    BY <1>1, Division
  <2> HIDE DEF q, u
  <2>2. BlockLength * q = q * BlockLength
    BY <1>1, <2>1
  <2> QED BY <2>1, <2>2
<1>3. Long(d, n + k) /\ (\A i \in 1..n : d[i] = m[i]) /\ (\A i \in 1..k : d[n + i] = data[i])
  <2>1. JoinOf(d, m, n, data, k)
    BY <1>1, JoinIs
  <2> HIDE DEF q, u, new, d
  <2> QED BY <2>1 DEF JoinOf
<1> HIDE DEF d
<1>4. HasTaken(F, init, before, BlocksOf(d), q, n, ctx)
  <2>1. \A i \in 1..BlockLength * q : d[i] = m[i]
    BY <1>1, <1>2, <1>3
  <2> QED BY <1>1, <1>2, <2>1, TakenOfMore DEF WasFed
<1>5. ShaUsed(ctx) = u
  BY <1>1, <1>4, UsedIs DEF HasTaken
<1>6. \A i \in 1..u : ctx.buffer[i] = d[BlockLength * q + i]
  <2>1. ASSUME NEW i \in 1..u PROVE ctx.buffer[i] = d[BlockLength * q + i]
    <3>1. BlockLength * q + i \in 1..n
      BY <1>1, <1>2
    <3> QED BY <1>3, <3>1 DEF WasFed
  <2> QED BY <2>1
<1> HIDE DEF q, u
<1>7. CASE data = <<>>
  <2>1. k = 0 /\ new = ctx
    BY <1>1, <1>7 DEF ShaUpdate
  <2>2. n + k = n
    BY <1>1, <2>1
  <2> QED BY <1>4, <1>6, <2>1, <2>2 DEF WasFed, d, q, u
<1>8. CASE data # <<>> /\ u > 0 /\ k < BlockLength - u
  <2>1. new = Kept(ctx, u, data, k)
    BY <1>1, <1>2, <1>5, <1>8 DEF ShaUpdate, Kept
  <2>2. u \in Nat /\ u + k <= BlockLength
    BY <1>1, <1>2, <1>8
  <2>3. HasTaken(F, init, before, BlocksOf(d), q, n + k, new) /\ new.buffer = Overwritten(ctx.buffer, u, data)
    <3>1. q \in Nat /\ n \in Nat
      BY <1>1, <1>2
    <3> HIDE DEF new
    <3> QED BY <1>4, <2>1, <2>2, <3>1, KeepsRest
  <2>4. (n + k) \div BlockLength = q /\ (n + k) % BlockLength = u + k
    <3> DEFINE x == u + k
    <3>1. x \in Nat /\ x < BlockLength /\ n + k = (q * BlockLength) + x
      BY <1>1, <1>2, <1>8
    <3> HIDE DEF x, new
    <3>2. ((q * BlockLength) + x) \div BlockLength = q /\ ((q * BlockLength) + x) % BlockLength = x
      BY <1>1, <1>2, <3>1, QuotientIs
    <3> QED BY <3>1, <3>2 DEF x
  <2>5. ASSUME NEW j \in 1..u + k PROVE new.buffer[j] = d[BlockLength * q + j]
    <3>1. CASE j <= u
      <4>1. j \in 1..u
        BY <1>1, <1>2, <3>1
      <4> QED BY <1>4, <1>6, <2>2, <2>3, <4>1, OverwrittenIs DEF HasTaken
    <3>2. CASE ~(j <= u)
      <4> DEFINE i == j - u
      <4>1. i \in 1..k /\ u + i = j /\ BlockLength * q + j = n + i
        BY <1>1, <1>2, <3>2
      <4> HIDE DEF i
      <4>2. Overwritten(ctx.buffer, u, data)[u + i] = data[i]
        BY <1>4, <2>2, <4>1, OverwrittenIs DEF HasTaken
      <4>3. d[n + i] = data[i]
        BY <1>3, <4>1
      <4> QED BY <2>3, <4>1, <4>2, <4>3
    <3> QED BY <3>1, <3>2
  <2> HIDE DEF new
  <2> QED BY <2>3, <2>4, <2>5 DEF WasFed, d, new
<1>9. CASE data # <<>> /\ ~(u > 0 /\ k < BlockLength - u)
  <2> DEFINE free == IF u = 0 THEN 0 ELSE BlockLength - u
             part == SubSeq(data, 1, free)
             filled == IF u = 0 THEN ctx ELSE Counted(Compressed(F, ctx, Overwritten(ctx.buffer, u, part)), free)
             p == IF u = 0 THEN q ELSE q + 1
             blocks == (k - free) \div BlockLength
             r == (k - free) % BlockLength
             from == free + BlockLength * blocks
             left == Slice(data, from, k)
             done == BlocksTaken(F, filled, data, free, blocks)
  <2>1. free \in 0..k /\ free \in 0..BlockLength /\ p \in Nat /\ n + free = BlockLength * p
    <3>1. free \in 0..k /\ free \in 0..BlockLength /\ p \in Nat
      BY <1>1, <1>2, <1>9
    <3>2. CASE u = 0
      BY <1>1, <1>2, <3>2
    <3>3. CASE u # 0
      <4>1. BlockLength * (q + 1) = BlockLength * q + BlockLength /\ BlockLength * q \in Nat
        BY <1>1, <1>2
      <4>2. n = BlockLength * q + u /\ free = BlockLength - u /\ p = q + 1
        BY <1>2, <3>3
      <4> HIDE DEF free, p, blocks, new
      <4>3. n + free = BlockLength * q + BlockLength
        BY <1>1, <1>2, <4>1, <4>2
      <4> QED BY <3>1, <4>1, <4>2, <4>3
    <3> QED BY <3>1, <3>2, <3>3
  <2>2. HasTaken(F, init, before, BlocksOf(d), p, n + free, filled)
    <3>1. CASE u = 0
      BY <1>1, <1>4, <3>1
    <3>2. CASE u # 0
      <4> DEFINE f == BlockLength - u
                 buffer == Overwritten(ctx.buffer, u, part)
                 B == BlocksOf(d)
      <4>1. f = free /\ f \in 0..k /\ f \in 0..BlockLength /\ u + f = BlockLength /\ u \in Nat /\ p = q + 1
        BY <1>1, <1>2, <2>1, <3>2
      <4> HIDE DEF f, free, p
      <4>2. Long(part, f) /\ \A i \in 1..f : part[i] = data[i]
        <5>1. part = SubSeq(data, 0 + 1, f) /\ 0 \in Nat /\ f \in 0..k /\ f - 0 = f /\ \A i \in 1..f : 0 + i = i
          BY <4>1
        <5>2. part = SubSeq(data, 1, f) /\ f \in 0..k
          BY <4>1
        <5> HIDE DEF part
        <5> QED BY <5>2, SubSeqFromStart
      <4> HIDE DEF part
      <4>3. /\ Long(buffer, BlockLength)
            /\ \A i \in 1..u : buffer[i] = ctx.buffer[i]
            /\ \A i \in 1..f : buffer[u + i] = part[i]
        BY <1>4, <4>1, <4>2, OverwrittenIs DEF HasTaken
      <4> HIDE DEF buffer
      <4>4. ASSUME NEW j \in 1..BlockLength PROVE buffer[j] = d[BlockLength * q + j]
        <5>1. CASE j <= u
          <6>1. j \in 1..u
            BY <1>1, <1>2, <5>1
          <6> QED BY <1>6, <4>3, <6>1
        <5>2. CASE ~(j <= u)
          <6> DEFINE i == j - u
          <6>1. i \in 1..f /\ i \in 1..k /\ u + i = j /\ BlockLength * q + j = n + i
            BY <1>1, <1>2, <4>1, <5>2
          <6> HIDE DEF i
          <6>2. buffer[u + i] = data[i] /\ d[n + i] = data[i]
            BY <1>3, <4>2, <4>3, <6>1
          <6> QED BY <6>1, <6>2
        <5> QED BY <5>1, <5>2
      <4>5. WordsOf(buffer, 0) = WordsOf(d, BlockLength * q)
        BY <4>4, WordsOfPart
      <4>6. B[q + 1] = WordsOf(d, BlockLength * q)
        <5>1. q + 1 \in Nat /\ (q + 1) - 1 = q
          BY <1>2
        <5> QED BY <5>1 DEF BlocksOf
      <4> HIDE DEF B
      <4>7. HasTaken(F, init, before, B, q, n, ctx)
        BY <1>4 DEF B
      <4>8. HasTaken(F, init, before, B, q + 1, n + f, Counted(Compressed(F, ctx, buffer), f))
        BY <1>1, <1>2, <4>1, <4>3, <4>5, <4>6, <4>7, TakesBlock
      <4> QED BY <3>2, <4>1, <4>8 DEF B, buffer, free
    <3> QED BY <3>1, <3>2
  <2>3. new = Kept(done, 0, left, Len(left))
    BY <1>1, <1>2, <1>5, <1>9 DEF ShaUpdate, Saved, Kept
  <2> HIDE DEF free, filled, p, new
  <2>4. blocks \in Nat /\ r \in 0..BlockLength - 1 /\ k - free = (blocks * BlockLength) + r
    <3>1. k - free \in Nat
      BY <1>1, <2>1
    <3> QED BY <1>1, <3>1, Division
  <2>5. from \in Nat /\ from <= k /\ k - from = r /\ BlockLength * blocks = blocks * BlockLength
    BY <1>1, <2>1, <2>4
  <2> HIDE DEF blocks, r
  <2>6. HasTaken(F, init, before, BlocksOf(d), p + blocks, (n + free) + BlockLength * blocks, done)
    <3> DEFINE B == BlocksOf(d)
    <3>1. ASSUME NEW i \in 1..blocks PROVE WordsOf(data, free + BlockLength * (i - 1)) = B[p + i]
      <4> DEFINE at == free + BlockLength * (i - 1)
                 bt == BlockLength * ((p + i) - 1)
      <4>1. at \in Nat /\ bt = n + at /\ at + BlockLength <= k
        <5>1. BlockLength * i <= BlockLength * blocks /\ BlockLength * (i - 1) = BlockLength * i - BlockLength
          BY <1>1, <2>4
        <5>2. BlockLength * ((p + i) - 1) = BlockLength * p + BlockLength * (i - 1) /\ BlockLength * (i - 1) \in Nat
          BY <1>1, <2>1, <2>4
        <5> QED BY <1>1, <2>1, <2>4, <2>5, <5>1, <5>2
      <4>2. B[p + i] = WordsOf(d, bt)
        BY <2>1, <2>4 DEF BlocksOf
      <4> HIDE DEF at, bt, B
      <4>3. ASSUME NEW j \in 1..BlockLength PROVE data[at + j] = d[bt + j]
        <5>1. at + j \in 1..k /\ bt + j = n + (at + j)
          BY <1>1, <4>1
        <5> QED BY <1>3, <5>1
      <4>4. WordsOf(data, at) = WordsOf(d, bt)
        BY <4>3, WordsAgree
      <4> QED BY <4>2, <4>4 DEF at
    <3> HIDE DEF B
    <3>2. n + free \in Nat /\ free \in Nat /\ free + BlockLength * blocks <= k
      BY <1>1, <2>1, <2>5
    <3>3. HasTaken(F, init, before, B, p, n + free, filled)
      BY <2>2 DEF B
    <3> DEFINE N == n + free
    <3> HIDE DEF N
    <3>4. HasTaken(F, init, before, B, p + blocks, N + BlockLength * blocks, done)
      BY <2>1, <2>4, <3>1, <3>2, <3>3, LoopTakesBlocks DEF N
    <3> QED BY <3>4 DEF N, B
  <2>7. Long(left, r) /\ \A i \in 1..r : left[i] = data[from + i]
    BY <1>1, <2>5, SubSeqLong DEF Slice
  <2> DEFINE i == p + blocks
             N == n + from
  <2>8. /\ i \in Nat /\ N \in Nat /\ N = BlockLength * i /\ (n + free) + BlockLength * blocks = N
        /\ N + r = n + k /\ r \in Nat /\ 0 + r <= BlockLength /\ Len(left) = r
    <3>1. BlockLength * (p + blocks) = BlockLength * p + BlockLength * blocks
      BY <1>1, <2>1, <2>4
    <3>2. Len(left) = r
      BY <2>7, LongIsSeq
    <3> QED BY <1>1, <2>1, <2>4, <2>5, <3>1, <3>2
  <2>9. HasTaken(F, init, before, BlocksOf(d), i, N, done)
    BY <2>6, <2>8
  <2> HIDE DEF from, left, done, i, N
  <2>10. HasTaken(F, init, before, BlocksOf(d), i, N + r, new) /\ new.buffer = Overwritten(done.buffer, 0, left)
    <3>1. new = Kept(done, 0, left, r) /\ 0 \in Nat
      BY <2>3, <2>8
    <3> QED BY <2>7, <2>8, <2>9, <3>1, KeepsRest
  <2>11. (n + k) \div BlockLength = i /\ (n + k) % BlockLength = r
    <3>1. n + k = (i * BlockLength) + r
      BY <1>1, <2>8
    <3>2. r < BlockLength
      BY <1>1, <2>4
    <3>3. ((i * BlockLength) + r) \div BlockLength = i /\ ((i * BlockLength) + r) % BlockLength = r
      BY <1>1, <2>8, <3>2, QuotientIs
    <3> QED BY <3>1, <3>3
  <2>12. ASSUME NEW j \in 1..r PROVE new.buffer[j] = d[BlockLength * i + j]
    <3>1. Overwritten(done.buffer, 0, left)[0 + j] = left[j]
      <4> DEFINE buffer == done.buffer
                 none == 0
      <4>1. Long(buffer, BlockLength) /\ none \in Nat /\ none + r <= BlockLength
        BY <2>8, <2>9 DEF HasTaken
      <4> HIDE DEF buffer, none
      <4>2. \A e \in 1..r : Overwritten(buffer, none, left)[none + e] = left[e]
        BY <2>7, <4>1, OverwrittenIs
      <4> QED BY <4>2 DEF buffer, none
    <3>2. 0 + j = j /\ from + j \in 1..k /\ BlockLength * i + j = n + (from + j)
      BY <1>1, <2>5, <2>8 DEF N
    <3>3. d[n + (from + j)] = data[from + j] /\ left[j] = data[from + j]
      BY <1>3, <2>7, <3>2
    <3> QED BY <2>10, <3>1, <3>2, <3>3
  <2> QED BY <2>8, <2>10, <2>11, <2>12 DEF WasFed, d, new
<1> QED BY <1>7, <1>8, <1>9

-----------------------------------------------------------------------------
(* The end of a message.                                                   *)

\* The bytes of words, most significant first, whatever the words are.
LEMMA ReversedHostBytes ==
    ASSUME NEW words, NEW n \in Nat
    PROVE  Reversed(HostBytes(words, LaneBytes * n)) = BigEndian(words, n)
<1> DEFINE D(p, r) == DigitsOf(words[p + 1], 256, LaneBytes)[r]
           N == LaneBytes * n
           s == HostBytes(words, N)
           t == BigEndian(words, n)
<1>1. N \in Nat /\ LaneBytes \in Nat \ {0}
  BY BlockSizes
<1>2. /\ s = [k \in 1..N |-> D((k - 1) \div LaneBytes, LaneBytes - ((k - 1) % LaneBytes))]
      /\ t = [k \in 1..N |-> D((k - 1) \div LaneBytes, ((k - 1) % LaneBytes) + 1)]
  BY DEF HostBytes, BigEndian
<1> HIDE DEF D, N, s, t
<1>3. Long(s, N) /\ Long(t, N)
  BY <1>1, <1>2 DEF Long
<1>4. Long(Reversed(s), N)
  BY <1>3, ReversedLong
<1>5. ASSUME NEW k \in 1..N PROVE Reversed(s)[k] = t[k]
  <2> DEFINE p == (k - 1) \div LaneBytes
             r == (k - 1) % LaneBytes
             b == r + 1
             c == LaneBytes - r
             x == p * LaneBytes
  <2>1. p \in Nat /\ r \in 0..LaneBytes - 1 /\ k - 1 = x + r
    <3> DEFINE a == k - 1
    <3>1. a \in Nat
      BY <1>1
    <3> HIDE DEF a
    <3>2. a \div LaneBytes \in Nat /\ a % LaneBytes \in 0..LaneBytes - 1 /\ a = ((a \div LaneBytes) * LaneBytes) + (a % LaneBytes)
      BY <1>1, <3>1, Division
    <3> QED BY <3>2 DEF a
  <2> HIDE DEF p, r
  <2>2. x \in Nat /\ x = LaneBytes * p
    BY <1>1, <2>1
  <2>3. b \in 1..LaneBytes /\ c \in 1..LaneBytes /\ LaneBytes + 1 - b = c /\ c - 1 \in Nat /\ c - 1 < LaneBytes
        /\ LaneBytes - (c - 1) = r + 1 /\ x + b = k
    BY <1>1, <2>1, <2>2
  <2>4. x + c \in 1..N
    <3> DEFINE m == n - p
    <3>1. N = (p * LaneBytes) + (m * LaneBytes) /\ m \in Int
      BY <1>1, <2>1 DEF N
    <3>2. k <= N /\ k > x
      BY <1>1, <2>1, <2>2, <2>3
    <3> HIDE DEF m
    <3>3. m * LaneBytes > 0
      BY <1>1, <2>1, <2>2, <3>1, <3>2
    <3>4. m >= 1
      BY <1>1, <3>1, <3>3
    <3>5. m * LaneBytes >= LaneBytes
      BY <1>1, <3>1, <3>4
    <3> QED BY <1>1, <2>1, <2>2, <2>3, <3>1, <3>5
  <2> HIDE DEF b, c
  <2>5. Reversed(s)[LaneBytes * p + b] = s[LaneBytes * p + (LaneBytes + 1 - b)]
    <3>1. LaneBytes * p + b \in 1..N
      BY <2>2, <2>3
    <3> QED BY <1>3, <2>1, <2>3, <3>1, ReversedLong
  <2>6. Reversed(s)[k] = s[x + c]
    BY <2>2, <2>3, <2>5
  <2> DEFINE e == c - 1
  <2>7. s[x + c] = D(((x + c) - 1) \div LaneBytes, LaneBytes - (((x + c) - 1) % LaneBytes))
    BY <1>2, <2>4
  <2>8. (x + c) - 1 = x + e /\ e \in Nat /\ e < LaneBytes
    BY <1>1, <2>2, <2>3
  <2> HIDE DEF e
  <2>9. (x + e) \div LaneBytes = p /\ (x + e) % LaneBytes = e
    BY <1>1, <2>1, <2>8, QuotientIs DEF x
  <2>10. s[x + c] = D(p, r + 1)
    BY <2>3, <2>7, <2>8, <2>9 DEF e
  <2>11. t[k] = D(p, r + 1)
    BY <1>2 DEF p, r
  <2> QED BY <2>6, <2>10, <2>11
<1>6. Reversed(s) = t
  BY <1>3, <1>4, <1>5, SameLong
<1> QED BY <1>6 DEF s, t, N

Blanked(buffer, from) == SubSeq(buffer, 1, from) \o Zeros(BlockLength - from)

LEMMA BlankedIs ==
    ASSUME NEW s, Long(s, BlockLength), NEW from \in 0..BlockLength
    PROVE  /\ Long(Blanked(s, from), BlockLength)
           /\ \A i \in 1..from : Blanked(s, from)[i] = s[i]
           /\ \A i \in from + 1..BlockLength : Blanked(s, from)[i] = 0
<1> DEFINE t == SubSeq(s, 1, from)
           k == BlockLength - from
           d == Blanked(s, from)
<1>1. BlockLength \in Nat /\ from \in Nat /\ k \in Nat /\ from + k = BlockLength
  BY BlockSizes
<1>2. Long(t, from) /\ \A i \in 1..from : t[i] = s[i]
  <2>1. t = SubSeq(s, 0 + 1, from) /\ 0 \in Nat /\ from \in 0..BlockLength /\ from - 0 = from /\ \A i \in 1..from : 0 + i = i
    BY <1>1
  <2> HIDE DEF t
  <2> QED BY <2>1, SubSeqLong
<1>3. d = t \o Zeros(k)
  BY DEF Blanked
<1> HIDE DEF t, k, d
<1>4. Long(Zeros(k), k) /\ \A i \in 1..k : Zeros(k)[i] = 0
  BY <1>1, ZerosLong
<1>5. JoinOf(t \o Zeros(k), t, from, Zeros(k), k)
  BY <1>1, <1>2, <1>4, JoinIs
<1>6. JoinOf(d, t, from, Zeros(k), k)
  BY <1>3, <1>5
<1>7. ASSUME NEW i \in from + 1..BlockLength PROVE d[i] = 0
  <2> DEFINE j == i - from
  <2>1. j \in 1..k /\ from + j = i
    BY <1>1
  <2> HIDE DEF j
  <2> QED BY <1>4, <1>6, <2>1 DEF JoinOf
<1>8. Long(d, BlockLength) /\ \A i \in 1..from : d[i] = s[i]
  BY <1>1, <1>2, <1>6 DEF JoinOf
<1> QED BY <1>7, <1>8 DEF d

\* The last block of a message: the words of s behind its first `at` bytes, but
\* for the last two, which are the count.
LastBlock(s, at, count) ==
    [j \in 1..16 |-> IF j = 15 THEN count.high ELSE IF j = 16 THEN count.low ELSE WordsOf(s, at)[j]]

LEMMA LastBlocksAgree ==
    ASSUME NEW s, NEW at, NEW t, NEW bt, NEW count, \A k \in 1..ShortBlockLength : s[at + k] = t[bt + k]
    PROVE  LastBlock(s, at, count) = LastBlock(t, bt, count)
<1>1. ASSUME NEW j \in 1..16, j # 15, j # 16
      PROVE  [b \in 1..LaneBytes |-> s[at + (LaneBytes * (j - 1) + b)]]
               = [b \in 1..LaneBytes |-> t[bt + (LaneBytes * (j - 1) + b)]]
  <2>1. ASSUME NEW b \in 1..LaneBytes PROVE s[at + (LaneBytes * (j - 1) + b)] = t[bt + (LaneBytes * (j - 1) + b)]
    <3> DEFINE k == LaneBytes * (j - 1) + b
    <3>1. LaneBytes * (j - 1) <= LaneBytes * 13 /\ LaneBytes * (j - 1) \in Nat
      BY <1>1, BlockSizes
    <3>2. k \in 1..ShortBlockLength
      BY <3>1, BlockSizes DEF ShortBlockLength
    <3> HIDE DEF k
    <3>3. s[at + k] = t[bt + k]
      BY <3>2
    <3> QED BY <3>3 DEF k
  <2> QED BY <2>1
<1>2. ASSUME NEW j \in 1..16, j # 15, j # 16 PROVE WordsOf(s, at)[j] = WordsOf(t, bt)[j]
  BY <1>1, <1>2 DEF WordsOf
<1> QED BY <1>2 DEF LastBlock

\* What sha256_Final makes the words of its last block from.
LEMMA LastWords ==
    ASSUME NEW s, Long(s, BlockLength), NEW high, NEW low
    PROVE  SubSeq(HostWords(Reversed(s)), 1, 14) \o <<high, low>> = LastBlock(s, 0, [high |-> high, low |-> low])
<1> DEFINE w == WordsOf(s, 0)
           t == SubSeq(w, 1, 14)
           c == <<high, low>>
           d == t \o c
           e == LastBlock(s, 0, [high |-> high, low |-> low])
<1>1. HostWords(Reversed(s)) = w
  BY HostWordsAre
<1>2. Long(w, 16)
  BY DEF Long, WordsOf
<1>3. Long(c, 2) /\ c[1] = high /\ c[2] = low
  <2>1. <<high, low>> = [i \in 1..2 |-> <<high, low>>[i]]
    OBVIOUS
  <2> QED BY <2>1 DEF Long
<1>4. /\ \A j \in 1..14 : e[j] = w[j]
      /\ e[15] = high /\ e[16] = low
      /\ Long(e, 16)
  BY DEF LastBlock, Long
<1> HIDE DEF w, c, e
<1>5. Long(t, 14) /\ \A i \in 1..14 : t[i] = w[i]
  <2>1. t = SubSeq(w, 0 + 1, 14) /\ 0 \in Nat /\ 14 \in 0..16 /\ 14 - 0 = 14 /\ \A i \in 1..14 : 0 + i = i
    OBVIOUS
  <2> HIDE DEF t
  <2> QED BY <1>2, <2>1, SubSeqLong
<1> HIDE DEF t
<1>6. JoinOf(d, t, 14, c, 2)
  BY <1>3, <1>5, JoinIs
<1> HIDE DEF d
<1>7. Long(d, 16) /\ (\A i \in 1..14 : d[i] = t[i]) /\ d[15] = high /\ d[16] = low
  <2>1. 14 + 2 = 16 /\ 14 + 1 = 15 /\ 1 \in 1..2 /\ 2 \in 1..2
    OBVIOUS
  <2> QED BY <1>3, <1>6, <2>1 DEF JoinOf
<1>8. ASSUME NEW i \in 1..16 PROVE d[i] = e[i]
  <2>1. i \in 1..14 \/ i = 15 \/ i = 16
    OBVIOUS
  <2> QED BY <1>4, <1>5, <1>7, <2>1
<1>9. d = e
  BY <1>4, <1>7, <1>8, SameLong
<1> QED BY <1>1, <1>9 DEF d, t, c, e

ZerosBehind(n) == CHOOSE z \in 0..BlockLength - 1 : (n + 1 + z) % BlockLength = ShortBlockLength

\* Whole blocks before the one that ends with the count.
BlocksBefore(n) == IF (n % BlockLength) + 1 <= ShortBlockLength THEN n \div BlockLength ELSE n \div BlockLength + 1

\* The padding is as long as it must be, and no longer.
LEMMA ZerosAre ==
    ASSUME NEW n \in Nat
    PROVE  /\ ZerosBehind(n) \in 0..BlockLength - 1
           /\ BlocksBefore(n) \in Nat
           /\ n + 1 + ZerosBehind(n) = (BlocksBefore(n) * BlockLength) + ShortBlockLength
<1> DEFINE q == n \div BlockLength
           u == n % BlockLength
           Q == BlocksBefore(n)
           y == IF u + 1 <= ShortBlockLength THEN ShortBlockLength - u - 1
                ELSE BlockLength + ShortBlockLength - u - 1
           z == ZerosBehind(n)
           T == n + 1 + z
           P == T \div BlockLength
<1>1. /\ BlockLength \in Nat \ {0} /\ ShortBlockLength \in Nat \ {0} /\ ShortBlockLength < BlockLength
      /\ q \in Nat /\ u \in 0..BlockLength - 1 /\ n = (q * BlockLength) + u
  <2>1. /\ BlockLength \in Nat \ {0} /\ ShortBlockLength \in Nat \ {0} /\ ShortBlockLength < BlockLength
    BY BlockSizes DEF ShortBlockLength
  <2> QED BY <2>1, Division
<1>2. Q = IF u + 1 <= ShortBlockLength THEN q ELSE q + 1
  BY DEF BlocksBefore
<1> HIDE DEF q, u, Q
<1>3. y \in 0..BlockLength - 1 /\ Q \in Nat /\ n + 1 + y = (Q * BlockLength) + ShortBlockLength
  <2>1. y \in 0..BlockLength - 1 /\ Q \in Nat
    BY <1>1, <1>2
  <2>2. (q + 1) * BlockLength = (q * BlockLength) + BlockLength
    BY <1>1
  <2> DEFINE A == q * BlockLength
             B == Q * BlockLength
  <2>3. A \in Nat /\ n = A + u /\ B = IF u + 1 <= ShortBlockLength THEN A ELSE A + BlockLength
    BY <1>1, <1>2, <2>2
  <2> HIDE DEF A, B
  <2>4. n + 1 + y = B + ShortBlockLength
    BY <1>1, <2>3
  <2> QED BY <2>1, <2>4 DEF B
<1> HIDE DEF y
<1>4. (n + 1 + y) % BlockLength = ShortBlockLength
  <2>1. ((Q * BlockLength) + ShortBlockLength) % BlockLength = ShortBlockLength
    BY <1>1, <1>3, QuotientIs
  <2> QED BY <1>3, <2>1
<1>5. z \in 0..BlockLength - 1 /\ T % BlockLength = ShortBlockLength
  BY <1>3, <1>4 DEF ZerosBehind
<1> HIDE DEF z
<1>6. T \in Nat /\ P \in Nat /\ T = (P * BlockLength) + ShortBlockLength
  <2>1. T \in Nat
    BY <1>1, <1>5
  <2> HIDE DEF T
  <2> QED BY <1>1, <1>5, <2>1, Division
<1> HIDE DEF P
<1>7. P = Q
  <2> DEFINE d == P - Q
  <2>1. d \in Int /\ d * BlockLength = (P * BlockLength) - (Q * BlockLength)
    BY <1>1, <1>3, <1>6
  <2>2. (P * BlockLength) - (Q * BlockLength) = z - y
    BY <1>1, <1>3, <1>5, <1>6
  <2> HIDE DEF d
  <2>3. d * BlockLength < BlockLength /\ d * BlockLength > - BlockLength
    BY <1>1, <1>3, <1>5, <2>1, <2>2
  <2>4. ~(d >= 1) /\ ~(d <= -1)
    BY <1>1, <2>1, <2>3
  <2>5. d = 0
    BY <2>1, <2>4
  <2> QED BY <1>3, <1>6, <2>5 DEF d
<1> QED BY <1>3, <1>5, <1>6, <1>7 DEF z, Q

Body(m, n) == m \o <<128>> \o Zeros(ZerosBehind(n))

LEMMA BodyIs ==
    ASSUME NEW m, NEW n \in Nat, Long(m, n)
    PROVE  /\ Long(Body(m, n), (BlocksBefore(n) * BlockLength) + ShortBlockLength)
           /\ \A i \in 1..n : Body(m, n)[i] = m[i]
           /\ Body(m, n)[n + 1] = 128
           /\ \A i \in n + 2..(BlocksBefore(n) * BlockLength) + ShortBlockLength : Body(m, n)[i] = 0
<1> DEFINE mark == <<128>>
           s == m \o mark
           z == ZerosBehind(n)
           zs == Zeros(z)
           d == s \o zs
           N == (BlocksBefore(n) * BlockLength) + ShortBlockLength
<1>1. z \in Nat /\ n + 1 + z = N
  BY ZerosAre
<1>2. Long(mark, 1) /\ mark[1] = 128
  BY DEF Long
<1>3. Long(zs, z) /\ \A i \in 1..z : zs[i] = 0
  BY <1>1, ZerosLong
<1>4. Body(m, n) = d
  BY DEF Body
<1> HIDE DEF mark, z, N, zs
<1>5. JoinOf(s, m, n, mark, 1)
  BY <1>2, JoinIs
<1> HIDE DEF s
<1>6. Long(s, n + 1) /\ s[n + 1] = 128 /\ \A i \in 1..n : s[i] = m[i]
  BY <1>2, <1>5 DEF JoinOf
<1>7. JoinOf(d, s, n + 1, zs, z)
  <2>1. n + 1 \in Nat
    OBVIOUS
  <2> DEFINE k == n + 1
  <2>2. k \in Nat /\ Long(s, k)
    BY <1>6
  <2> HIDE DEF k
  <2>3. JoinOf(d, s, k, zs, z)
    BY <1>1, <1>3, <2>2, JoinIs
  <2> QED BY <2>3 DEF k
<1> HIDE DEF d
<1>8. /\ Long(d, N)
      /\ \A i \in 1..n : d[i] = m[i]
      /\ d[n + 1] = 128
  BY <1>1, <1>6, <1>7 DEF JoinOf
<1>9. ASSUME NEW i \in n + 2..N PROVE d[i] = 0
  <2> DEFINE j == i - (n + 1)
  <2>1. j \in 1..z /\ (n + 1) + j = i
    BY <1>1
  <2> HIDE DEF j
  <2> QED BY <1>3, <1>7, <2>1 DEF JoinOf
<1> QED BY <1>4, <1>8, <1>9 DEF N

\* The lanes of a padded message, cut into blocks.
LEMMA PaddedBlocks ==
    ASSUME NEW m, NEW n \in Nat, Long(m, n), NEW before \in Nat
    PROVE  LET lanes == PaddedLanes(m, before)
               Q == BlocksBefore(n)
           IN /\ Len(lanes) \div 16 = Q + 1
              /\ \A i \in 1..Q : Slice(lanes, 16 * (i - 1), 16 * i) = BlocksOf(Body(m, n))[i]
              /\ Slice(lanes, 16 * Q, 16 * (Q + 1)) = LastBlock(Body(m, n), BlockLength * Q, CountOf(8 * n + before))
<1> DEFINE Q == BlocksBefore(n)
           body == Body(m, n)
           N == (Q * BlockLength) + ShortBlockLength
           L == (16 * Q) + 14
           Lane1(i) == Number(Slice(body, (i - 1) * LaneBytes, i * LaneBytes), 256)
           w == [i \in 1..L |-> Lane1(i)]
           bits == 8 * n + before
           c == <<(bits \div Lane) % Lane, bits % Lane>>
           count == CountOf(bits)
           lanes == PaddedLanes(m, before)
<1>1. Q \in Nat /\ Long(body, N) /\ LaneBytes \in Nat \ {0} /\ L \in Nat
  BY ZerosAre, BodyIs, BlockSizes
<1>2. N = (L * LaneBytes) + 0 /\ N \in Nat
  <2> HIDE DEF Q
  <2>1. Q * BlockLength = (16 * Q) * LaneBytes /\ L * LaneBytes = ((16 * Q) * LaneBytes) + 14 * LaneBytes
    BY <1>1, BlockSizes
  <2> QED BY <1>1, <2>1, BlockSizes DEF ShortBlockLength
<1>3. N \div LaneBytes = L
  <2> HIDE DEF N, L
  <2>1. ((L * LaneBytes) + 0) \div LaneBytes = L
    BY <1>1, QuotientIs
  <2> QED BY <1>2, <2>1
<1>4. lanes = w \o c
  <2>1. Len(m) = n /\ Len(body) = N
    <3> HIDE DEF N, body
    <3> QED BY <1>1, LongIsSeq
  <2>2. (Len(m) + 1) = n + 1
    BY <2>1
  <2>3. lanes = [i \in 1..Len(body) \div LaneBytes |-> Lane1(i)] \o c
    BY <2>1 DEF PaddedLanes, Body, ZerosBehind
  <2> HIDE DEF w, c, lanes, body, N, L, Lane1
  <2>4. Len(body) \div LaneBytes = L
    BY <1>3, <2>1
  <2> QED BY <2>3, <2>4 DEF w
<1> HIDE DEF lanes
<1>5. ASSUME NEW i \in 1..L PROVE w[i] = Number([b \in 1..LaneBytes |-> body[LaneBytes * (i - 1) + b]], 256)
  <2> DEFINE lo == (i - 1) * LaneBytes
             hi == i * LaneBytes
             s == Slice(body, lo, hi)
             t == [b \in 1..LaneBytes |-> body[LaneBytes * (i - 1) + b]]
  <2>1. lo \in Nat /\ hi = lo + LaneBytes /\ lo = LaneBytes * (i - 1)
    <3> HIDE DEF L
    <3> QED BY <1>1
  <2>2. hi <= N
    <3> HIDE DEF Q, L, N
    <3>1. i * LaneBytes <= L * LaneBytes
      BY <1>1
    <3>2. L * LaneBytes \in Nat
      BY <1>1
    <3> QED BY <1>2, <3>1, <3>2
  <2>3. s = SubSeq(body, lo + 1, hi)
    BY DEF Slice
  <2>4. w[i] = Number(s, 256)
    OBVIOUS
  <2> HIDE DEF s, lo, hi, N, body, L, w
  <2>5. Long(s, hi - lo) /\ \A b \in 1..hi - lo : s[b] = body[lo + b]
    <3>1. hi \in lo..N
      BY <1>1, <1>2, <2>1, <2>2
    <3>2. /\ Long(SubSeq(body, lo + 1, hi), hi - lo)
          /\ \A b \in 1..hi - lo : SubSeq(body, lo + 1, hi)[b] = body[lo + b]
      <4>1. Long(body, N) /\ lo \in Nat
        BY <1>1, <2>1
      <4> QED BY <3>1, <4>1, SubSeqLong
    <3> QED BY <2>3, <3>2
  <2>6. hi - lo = LaneBytes
    BY <1>1, <2>1
  <2>7. Long(t, LaneBytes)
    BY <1>1 DEF Long
  <2>8. ASSUME NEW b \in 1..LaneBytes PROVE s[b] = t[b]
    BY <2>1, <2>5, <2>6
  <2> HIDE DEF t
  <2>9. s = t
    BY <2>5, <2>6, <2>7, <2>8, SameLong
  <2> QED BY <2>4, <2>9 DEF t
<1>6. Long(w, L)
  BY <1>1 DEF Long
<1>7. Long(c, 2) /\ c[1] = count.high /\ c[2] = count.low
  <2> DEFINE high == (bits \div Lane) % Lane
             low == bits % Lane
  <2>1. c = <<high, low>> /\ count.high = high /\ count.low = low
    BY DEF CountOf
  <2> HIDE DEF c, high, low, count
  <2>2. <<high, low>> = [i \in 1..2 |-> <<high, low>>[i]]
    OBVIOUS
  <2> QED BY <2>1, <2>2 DEF Long
<1> HIDE DEF w, c, count, body, N
<1>8. JoinOf(lanes, w, L, c, 2)
  <2> HIDE DEF L
  <2>1. JoinOf(w \o c, w, L, c, 2)
    BY <1>1, <1>6, <1>7, JoinIs
  <2> QED BY <1>4, <2>1
<1> DEFINE M == (16 * Q) + 16
<1>9. Long(lanes, M) /\ \A i \in 1..L : lanes[i] = w[i]
  <2>1. L + 2 = M
    BY <1>1
  <2> HIDE DEF L, M
  <2> QED BY <1>8, <2>1 DEF JoinOf
<1>10. lanes[L + 1] = count.high /\ lanes[L + 2] = count.low
  BY <1>7, <1>8 DEF JoinOf
<1> HIDE DEF Q
<1>11. ASSUME NEW i \in 1..Q + 1
       PROVE  LET b == Slice(lanes, 16 * (i - 1), 16 * i)
              IN Long(b, 16) /\ \A j \in 1..16 : b[j] = lanes[16 * (i - 1) + j]
  <2> DEFINE lo == 16 * (i - 1)
             hi == 16 * i
  <2>1. lo \in Nat /\ hi \in lo..M /\ hi - lo = 16
    BY <1>1
  <2> HIDE DEF lo, hi, M
  <2>2. Long(SubSeq(lanes, lo + 1, hi), hi - lo) /\ \A j \in 1..hi - lo : SubSeq(lanes, lo + 1, hi)[j] = lanes[lo + j]
    BY <1>9, <2>1, SubSeqLong
  <2> QED BY <2>1, <2>2 DEF Slice, lo, hi
<1>12. ASSUME NEW i \in 1..Q + 1, NEW j \in 1..16, 16 * (i - 1) + j \in 1..L
       PROVE  lanes[16 * (i - 1) + j] = WordsOf(body, BlockLength * (i - 1))[j]
  <2> DEFINE k == 16 * (i - 1) + j
             at == BlockLength * (i - 1)
  <2>1. k \in 1..L /\ at \in Nat /\ LaneBytes * (k - 1) = at + LaneBytes * (j - 1) /\ LaneBytes * (j - 1) \in Nat
    <3> DEFINE p == i - 1
               r == j - 1
    <3>1. p \in Nat /\ r \in Nat /\ k - 1 = 16 * p + r
      BY <1>1
    <3> HIDE DEF p, r
    <3>2. BlockLength * p = 16 * (LaneBytes * p) /\ LaneBytes * (16 * p + r) = 16 * (LaneBytes * p) + LaneBytes * r
      BY <1>1, <3>1, BlockSizes
    <3>3. LaneBytes * p \in Nat /\ LaneBytes * r \in Nat
      BY <1>1, <3>1
    <3> HIDE DEF k, at
    <3>4. at = BlockLength * p /\ LaneBytes * (k - 1) = LaneBytes * (16 * p + r) /\ LaneBytes * (j - 1) = LaneBytes * r
      BY <3>1 DEF at, p, r
    <3> QED BY <1>12, <3>2, <3>3, <3>4 DEF k
  <2> HIDE DEF k, at, L
  <2>2. lanes[k] = Number([b \in 1..LaneBytes |-> body[LaneBytes * (k - 1) + b]], 256)
    BY <1>5, <1>9, <2>1
  <2>3. ASSUME NEW b \in 1..LaneBytes PROVE LaneBytes * (k - 1) + b = at + (LaneBytes * (j - 1) + b)
    BY <1>1, <2>1
  <2>4. [b \in 1..LaneBytes |-> body[LaneBytes * (k - 1) + b]]
          = [b \in 1..LaneBytes |-> body[at + (LaneBytes * (j - 1) + b)]]
    BY <2>3
  <2>5. WordsOf(body, at)[j] = Number([b \in 1..LaneBytes |-> body[at + (LaneBytes * (j - 1) + b)]], 256)
    BY DEF WordsOf
  <2> QED BY <2>2, <2>4, <2>5 DEF k, at
<1>13. ASSUME NEW i \in 1..Q PROVE Slice(lanes, 16 * (i - 1), 16 * i) = BlocksOf(body)[i]
  <2> DEFINE b == Slice(lanes, 16 * (i - 1), 16 * i)
             e == WordsOf(body, BlockLength * (i - 1))
  <2>1. i \in 1..Q + 1
    BY <1>1
  <2>2. Long(b, 16) /\ \A j \in 1..16 : b[j] = lanes[16 * (i - 1) + j]
    BY <1>11, <2>1
  <2>3. ASSUME NEW j \in 1..16 PROVE b[j] = e[j]
    <3>1. 16 * (i - 1) + j \in 1..L
      BY <1>1
    <3> HIDE DEF b, e, L
    <3> QED BY <1>12, <2>1, <2>2, <3>1 DEF e
  <2>4. Long(e, 16)
    BY DEF Long, WordsOf
  <2>5. BlocksOf(body)[i] = e
    BY <1>1 DEF BlocksOf
  <2> HIDE DEF b, e
  <2>6. b = e
    BY <2>2, <2>3, <2>4, SameLong
  <2> QED BY <2>5, <2>6 DEF b
<1>14. Slice(lanes, 16 * Q, 16 * (Q + 1)) = LastBlock(body, BlockLength * Q, count)
  <2> DEFINE i == Q + 1
             b == Slice(lanes, 16 * (i - 1), 16 * i)
             e == LastBlock(body, BlockLength * Q, count)
  <2>1. i \in 1..Q + 1 /\ i - 1 = Q
    BY <1>1
  <2> HIDE DEF i
  <2>2. Long(b, 16) /\ \A j \in 1..16 : b[j] = lanes[16 * (i - 1) + j]
    BY <1>11, <2>1
  <2>3. Long(e, 16)
    BY DEF Long, LastBlock
  <2>4. ASSUME NEW j \in 1..16 PROVE b[j] = e[j]
    <3>1. CASE j \in 1..14
      <4>1. 16 * (i - 1) + j \in 1..L
        BY <1>1, <2>1, <3>1
      <4>2. e[j] = WordsOf(body, BlockLength * Q)[j]
        BY <3>1 DEF LastBlock
      <4> HIDE DEF b, e, L
      <4>3. b[j] = WordsOf(body, BlockLength * (i - 1))[j]
        BY <1>12, <2>1, <2>2, <4>1
      <4> QED BY <2>1, <4>2, <4>3
    <3>2. CASE j = 15
      <4>1. e[15] = count.high
        BY DEF LastBlock
      <4>2. 16 * (i - 1) + 15 = L + 1
        BY <1>1, <2>1
      <4> HIDE DEF b, e
      <4> QED BY <1>10, <2>2, <3>2, <4>1, <4>2
    <3>3. CASE j = 16
      <4>1. e[16] = count.low
        BY DEF LastBlock
      <4>2. 16 * (i - 1) + 16 = L + 2
        BY <1>1, <2>1
      <4> HIDE DEF b, e
      <4> QED BY <1>10, <2>2, <3>3, <4>1, <4>2
    <3> QED BY <3>1, <3>2, <3>3
  <2> HIDE DEF b, e
  <2>5. b = e
    BY <2>2, <2>3, <2>4, SameLong
  <2>6. b = Slice(lanes, 16 * Q, 16 * (Q + 1))
    BY <2>1 DEF b, i
  <2> QED BY <2>5, <2>6 DEF e
<1>15. Len(lanes) \div 16 = Q + 1
  <2> DEFINE p == Q + 1
  <2>1. M = (p * 16) + 0 /\ p \in Nat
    BY <1>1
  <2> HIDE DEF p, M
  <2>2. ((p * 16) + 0) \div 16 = p
    BY <2>1, QuotientIs
  <2>3. Len(lanes) = M
    BY <1>9, LongIsSeq
  <2> QED BY <2>1, <2>2, <2>3 DEF p
<1> QED BY <1>13, <1>14, <1>15 DEF Q, body, count, lanes

LEMMA ShaOfIs ==
    ASSUME NEW F, NEW init, NEW m, NEW n \in Nat, Long(m, n), NEW before \in Nat, NEW lanes
    PROVE  ShaOf(F, init, m, before, lanes)
             = BigEndian(Squeeze(F, Chained("lanes", F, init, BlocksOf(Body(m, n)), BlocksBefore(n)),
                                 LastBlock(Body(m, n), BlockLength * BlocksBefore(n), CountOf(8 * n + before))), lanes)
<1> DEFINE Q == BlocksBefore(n)
           body == Body(m, n)
           ls == PaddedLanes(m, before)
           B == [i \in Nat |-> Slice(ls, 16 * (i - 1), 16 * i)]
           last == LastBlock(body, BlockLength * Q, CountOf(8 * n + before))
<1>1. Q \in Nat
  BY ZerosAre
<1>a. /\ Len(ls) \div 16 = Q + 1
      /\ \A i \in 1..Q : Slice(ls, 16 * (i - 1), 16 * i) = BlocksOf(body)[i]
      /\ Slice(ls, 16 * Q, 16 * (Q + 1)) = last
  BY PaddedBlocks
<1> HIDE DEF Q, body, ls, last
<1>2. Len(ls) \div 16 = Q + 1 /\ (\A i \in 1..Q : B[i] = BlocksOf(body)[i])
  BY <1>1, <1>a
<1>3. B[Q + 1] = last
  <2>1. (Q + 1) - 1 = Q /\ Q + 1 \in Nat
    BY <1>1
  <2> QED BY <1>a, <2>1
<1>4. ShaChain(F, init, ls) = Chained("lanes", F, init, B, Q + 1)
  BY <1>1, <1>2, ShaOfChained
<1> HIDE DEF B
<1>5. Chained("lanes", F, init, B, Q + 1) = Squeeze(F, Chained("lanes", F, init, B, Q), last)
  BY <1>1, <1>3, LanesOnce
<1>6. Chained("lanes", F, init, B, Q) = Chained("lanes", F, init, BlocksOf(body), Q)
  BY <1>1, <1>2, ChainedAgree
<1>7. ShaOf(F, init, m, before, lanes) = BigEndian(ShaChain(F, init, ls), lanes)
  BY DEF ShaOf, ls
<1> QED BY <1>4, <1>5, <1>6, <1>7 DEF last, body, Q

LEMMA CompressedState ==
    ASSUME NEW F, NEW i \in Nat, NEW init, NEW before, NEW B, NEW n, NEW c, HasTaken(F, init, before, B, i, n, c),
           NEW buffer, Long(buffer, BlockLength), WordsOf(buffer, 0) = B[i + 1]
    PROVE  /\ Compressed(F, c, buffer).state = Chained("lanes", F, init, B, i + 1)
           /\ Compressed(F, c, buffer).buffer = Reversed(buffer)
<1> DEFINE h == Chained("lanes", F, init, B, i)
           h2 == Chained("lanes", F, init, B, i + 1)
           w == HostWords(Reversed(buffer))
           r == Reversed(buffer)
           old == c.buffer
           count == CountOf(8 * n + before)
<1>1. c = [state |-> h, buffer |-> old, count |-> count]
  BY DEF HasTaken
<1>2. Squeeze(F, h, w) = h2
  BY HostWordsAre, LanesOnce
<1>3. Compressed(F, c, buffer) = Restated(c, Squeeze(F, c.state, w), r)
  BY CompressedIs
<1> HIDE DEF h, h2, w, r, old, count
<1>4. Compressed(F, c, buffer) = Restated(c, h2, r)
  BY <1>1, <1>2, <1>3
<1>5. Restated(c, h2, r) = [state |-> h2, buffer |-> r, count |-> count]
  BY <1>1, RestatedIs
<1>6. Compressed(F, c, buffer) = [state |-> h2, buffer |-> r, count |-> count]
  BY <1>4, <1>5
<1> QED BY <1>6 DEF h2, r

\* However a context was fed, its digest is the one of all it was fed with.
LEMMA FedFinal ==
    ASSUME NEW F, NEW init, NEW before \in Nat, before % (8 * BlockLength) = 0,
           NEW m, NEW n \in Nat, Long(m, n), NEW ctx, WasFed(F, init, before, m, n, ctx), NEW lanes \in Nat
    PROVE  ShaFinal(F, ctx, lanes) = ShaOf(F, init, m, before, lanes)
<1> DEFINE q == n \div BlockLength
           u == n % BlockLength
           Q == BlocksBefore(n)
           N == (Q * BlockLength) + ShortBlockLength
           d == Body(m, n)
           used == u + 1
           twice == used > ShortBlockLength
           marked == Overwritten(ctx.buffer, u, <<128>>)
           first == Blanked(marked, used)
           last == IF twice THEN Compressed(F, ctx, first) ELSE [ctx EXCEPT !.buffer = marked]
           buffer == Blanked(last.buffer, IF twice THEN 0 ELSE used)
           count == CountOf(8 * n + before)
           words == SubSeq(HostWords(Reversed(buffer)), 1, 14) \o <<ctx.count.high, ctx.count.low>>
           end == LastBlock(d, BlockLength * Q, count)
           h == Chained("lanes", F, init, BlocksOf(d), Q)
<1>1. /\ BlockLength \in Nat \ {0} /\ ShortBlockLength \in Nat \ {0} /\ ShortBlockLength < BlockLength
  BY BlockSizes DEF ShortBlockLength
<1>2. q \in Nat /\ u \in 0..BlockLength - 1 /\ n = (q * BlockLength) + u
  BY <1>1, Division
<1>3. Q \in Nat /\ Q = IF twice THEN q + 1 ELSE q
  <2>1. Q \in Nat /\ Q = IF used <= ShortBlockLength THEN q ELSE q + 1
    BY ZerosAre DEF BlocksBefore
  <2> HIDE DEF q, u, Q
  <2> QED BY <1>1, <1>2, <2>1
<1>4. /\ Long(d, N)
      /\ \A i \in 1..n : d[i] = m[i]
      /\ d[n + 1] = 128
      /\ \A i \in n + 2..N : d[i] = 0
  BY BodyIs
<1>5. HasTaken(F, init, before, BlocksOf(m), q, n, ctx) /\ \A j \in 1..u : ctx.buffer[j] = m[BlockLength * q + j]
  BY DEF WasFed
<1> HIDE DEF q, u, Q, d, N
<1>a. BlockLength * q \in Nat /\ n = BlockLength * q + u
  BY <1>1, <1>2
<1>6. HasTaken(F, init, before, BlocksOf(d), q, n, ctx)
  <2>1. \A i \in 1..BlockLength * q : d[i] = m[i]
    BY <1>2, <1>4, <1>a
  <2> QED BY <1>2, <1>5, <2>1, TakenOfMore
<1>7. ShaUsed(ctx) = u
  BY <1>6, UsedIs DEF HasTaken, u
<1>8. Long(ctx.buffer, BlockLength) /\ ctx = [state |-> ctx.state, buffer |-> ctx.buffer, count |-> count]
      /\ ctx.state = Chained("lanes", F, init, BlocksOf(d), q)
  BY <1>6 DEF HasTaken
<1>9. ShaFinal(F, ctx, lanes) = Reversed(HostBytes(Squeeze(F, last.state, words), LaneBytes * lanes))
  <2>1. (u + 1) - 1 = u
    BY <1>2
  <2> QED BY <1>7, <2>1, ZenonT(60) DEF ShaFinal, Blanked, Squeeze
<1>10. /\ Long(marked, BlockLength) /\ marked[used] = 128
       /\ \A i \in 1..u : marked[i] = ctx.buffer[i]
  <2> DEFINE mark == <<128>>
  <2>1. Long(mark, 1) /\ mark[1] = 128
    BY DEF Long
  <2>2. u \in Nat /\ u + 1 <= BlockLength
    BY <1>1, <1>2
  <2>3. marked = Overwritten(ctx.buffer, u, mark)
    OBVIOUS
  <2> HIDE DEF mark, marked
  <2> QED BY <1>8, <2>1, <2>2, <2>3, OverwrittenIs
<1>11. ASSUME NEW j \in 1..u PROVE ctx.buffer[j] = d[BlockLength * q + j]
  <2>1. BlockLength * q + j \in 1..n
    BY <1>2, <1>a
  <2> QED BY <1>4, <1>5, <2>1
<1>12. used \in 0..BlockLength /\ BlockLength * q + used = n + 1
  BY <1>1, <1>2, <1>a
<1>13. ASSUME NEW j \in 1..used PROVE marked[j] = d[BlockLength * q + j]
  <2>1. CASE j = used
    BY <1>4, <1>10, <1>12, <2>1
  <2>2. CASE j # used
    <3>1. j \in 1..u
      BY <1>2, <2>2
    <3> HIDE DEF marked
    <3> QED BY <1>10, <1>11, <3>1
  <2> QED BY <2>1, <2>2
<1> HIDE DEF marked, used
<1>14. last.state = h /\ Long(buffer, BlockLength)
       /\ \A j \in 1..ShortBlockLength : buffer[j] = d[BlockLength * Q + j]
  <2>1. CASE ~twice
    <3>1. last = [ctx EXCEPT !.buffer = marked] /\ Q = q
      BY <1>3, <2>1
    <3>2. last.state = ctx.state /\ last.buffer = marked
      BY <1>8, <3>1
    <3>3. buffer = Blanked(marked, used)
      BY <2>1, <3>2
    <3> HIDE DEF twice, last, buffer, count
    <3>4. /\ Long(buffer, BlockLength)
          /\ \A i \in 1..used : buffer[i] = marked[i]
          /\ \A i \in used + 1..BlockLength : buffer[i] = 0
      BY <1>10, <1>12, <3>3, BlankedIs
    <3>5. ASSUME NEW j \in 1..ShortBlockLength PROVE buffer[j] = d[BlockLength * Q + j]
      <4>1. CASE j <= used
        <5>1. j \in 1..used
          BY <1>12, <4>1
        <5> QED BY <1>13, <3>1, <3>4, <5>1
      <4>2. CASE ~(j <= used)
        <5>1. j \in used + 1..BlockLength /\ BlockLength * Q + j \in n + 2..N
          <6>1. N = BlockLength * q + ShortBlockLength
            BY <1>1, <1>2, <3>1 DEF N
          <6> QED BY <1>1, <1>12, <1>a, <3>1, <4>2, <6>1
        <5> QED BY <1>4, <3>4, <5>1
      <4> QED BY <4>1, <4>2
    <3> QED BY <1>8, <3>1, <3>2, <3>4, <3>5 DEF h
  <2>2. CASE twice
    <3>1. last = Compressed(F, ctx, first) /\ buffer = Blanked(last.buffer, 0) /\ Q = q + 1
      BY <1>3, <2>2
    <3>2. used > ShortBlockLength
      BY <2>2
    <3>3. /\ Long(first, BlockLength)
          /\ \A i \in 1..used : first[i] = marked[i]
          /\ \A i \in used + 1..BlockLength : first[i] = 0
      BY <1>10, <1>12, BlankedIs
    <3> HIDE DEF twice, last, buffer, count, first
    <3>4. BlockLength * Q = BlockLength * q + BlockLength /\ BlockLength * Q \in Nat /\ N = BlockLength * Q + ShortBlockLength
      BY <1>1, <1>2, <3>1 DEF N
    <3>5. ASSUME NEW j \in 1..BlockLength PROVE first[j] = d[BlockLength * q + j]
      <4>1. CASE j <= used
        <5>1. j \in 1..used
          BY <1>12, <4>1
        <5> QED BY <1>13, <3>3, <5>1
      <4>2. CASE ~(j <= used)
        <5>1. j \in used + 1..BlockLength /\ BlockLength * q + j \in n + 2..N
          BY <1>1, <1>12, <1>a, <3>4, <4>2
        <5> QED BY <1>4, <3>3, <5>1
      <4> QED BY <4>1, <4>2
    <3>6. WordsOf(first, 0) = BlocksOf(d)[q + 1]
      <4>1. WordsOf(first, 0) = WordsOf(d, BlockLength * q)
        BY <3>5, WordsOfPart
      <4>2. q + 1 \in Nat /\ (q + 1) - 1 = q
        BY <1>2
      <4> QED BY <4>1, <4>2 DEF BlocksOf
    <3> DEFINE B == BlocksOf(d)
    <3>7. HasTaken(F, init, before, B, q, n, ctx) /\ WordsOf(first, 0) = B[q + 1]
      BY <1>6, <3>6
    <3> HIDE DEF B
    <3>8. last.state = Chained("lanes", F, init, B, q + 1) /\ last.buffer = Reversed(first)
      BY <1>2, <3>1, <3>3, <3>7, CompressedState
    <3>9. Long(last.buffer, BlockLength)
      BY <3>3, <3>8, ReversedLong
    <3>10. Long(buffer, BlockLength) /\ \A i \in 0 + 1..BlockLength : buffer[i] = 0
      <4>1. 0 \in 0..BlockLength
        BY <1>1
      <4> QED BY <3>1, <3>9, <4>1, BlankedIs
    <3>11. ASSUME NEW j \in 1..ShortBlockLength PROVE buffer[j] = d[BlockLength * Q + j]
      <4>1. j \in 0 + 1..BlockLength /\ BlockLength * Q + j \in n + 2..N
        BY <1>1, <1>2, <1>a, <3>4
      <4> QED BY <1>4, <3>10, <4>1
    <3> QED BY <3>1, <3>8, <3>10, <3>11 DEF h, B
  <2> HIDE DEF twice, last, buffer
  <2> QED BY <2>1, <2>2
<1>15. words = end
  <2> DEFINE high == ctx.count.high
             low == ctx.count.low
             k == [high |-> high, low |-> low]
  <2>1. k = count
    BY <1>8 DEF CountOf
  <2>2. LastBlock(buffer, 0, k) = LastBlock(d, BlockLength * Q, k)
    <3>1. \A j \in 1..ShortBlockLength : 0 + j = j
      BY <1>1
    <3>2. \A j \in 1..ShortBlockLength : buffer[0 + j] = d[BlockLength * Q + j]
      BY <1>14, <3>1
    <3> HIDE DEF buffer, k
    <3> QED BY <3>2, LastBlocksAgree
  <2>3. words = SubSeq(HostWords(Reversed(buffer)), 1, 14) \o <<high, low>>
    OBVIOUS
  <2> HIDE DEF high, low, buffer, count, words
  <2>4. words = LastBlock(buffer, 0, k)
    BY <1>14, <2>3, LastWords
  <2> QED BY <2>1, <2>2, <2>4
<1> HIDE DEF last, words, end, h
<1>16. ShaFinal(F, ctx, lanes) = Reversed(HostBytes(Squeeze(F, h, end), LaneBytes * lanes))
  BY <1>9, <1>14, <1>15
<1>17. Reversed(HostBytes(Squeeze(F, h, end), LaneBytes * lanes)) = BigEndian(Squeeze(F, h, end), lanes)
  BY ReversedHostBytes
<1>18. ShaOf(F, init, m, before, lanes) = BigEndian(Squeeze(F, h, end), lanes)
  BY ShaOfIs DEF h, end, d, Q, count
<1> QED BY <1>16, <1>17, <1>18

\* A context that starts from the state of whole blocks.
LEMMA FedInit ==
    ASSUME NEW F, NEW init, NEW before \in Nat, NEW m
    PROVE  WasFed(F, init, before, m, 0, Sha256InitEx(init, CountOf(before)))
<1> DEFINE ctx == Sha256InitEx(init, CountOf(before))
<1>1. BlockLength \in Nat \ {0} /\ 0 \div BlockLength = 0 /\ 0 % BlockLength = 0
  <2>1. ((0 * BlockLength) + 0) \div BlockLength = 0 /\ ((0 * BlockLength) + 0) % BlockLength = 0
    BY BlockSizes, QuotientIs
  <2>2. (0 * BlockLength) + 0 = 0
    BY BlockSizes
  <2> QED BY <2>1, <2>2, BlockSizes
<1>2. ctx = [state |-> init, buffer |-> Zeros(BlockLength), count |-> CountOf(before)]
  BY DEF Sha256InitEx
<1>3. Long(Zeros(BlockLength), BlockLength)
  BY <1>1, ZerosLong
<1>4. Chained("lanes", F, init, BlocksOf(m), 0) = init
  BY ChainedNone
<1>5. 8 * 0 + before = before
  OBVIOUS
<1> HIDE DEF ctx
<1>6. HasTaken(F, init, before, BlocksOf(m), 0, 0, ctx)
  BY <1>2, <1>3, <1>4, <1>5 DEF HasTaken
<1> QED BY <1>1, <1>6 DEF WasFed, ctx

-----------------------------------------------------------------------------
(* Contexts of SHA-3.                                                      *)

\* The blocks of the four variants fill the lanes they are mixed into.
RightSize(size) == size \in Nat \ {0} /\ size <= StateLength /\ size = Absorbed(size) * KeccakBytes /\ Absorbed(size) \in 1..25

Sizes == {18 * KeccakBytes, 17 * KeccakBytes, 13 * KeccakBytes, 9 * KeccakBytes}

LEMMA SizesRight ==
    /\ KeccakBytes \in Nat \ {0} /\ StateLength \in Nat
    /\ \A size \in Sizes : RightSize(size)
<1>1. KeccakBytes \in Nat \ {0} /\ StateLength \in Nat /\ StateLength = 25 * KeccakBytes
  BY KeccakAssumption DEF StateLength
<1>2. ASSUME NEW size \in Sizes PROVE RightSize(size)
  <2> DEFINE Above(n) == size > n * KeccakBytes
  <2>1. Absorbed(size) = IF Above(17) THEN 18
                         ELSE IF Above(13) THEN 17 ELSE IF Above(9) THEN 13 ELSE 9
    BY DEF Absorbed
  <2>2. CASE size = 18 * KeccakBytes
    <3>1. Above(17)
      BY <1>1, <2>2
    <3> QED BY <1>1, <2>1, <2>2, <3>1 DEF RightSize
  <2>3. CASE size = 17 * KeccakBytes
    <3>1. ~Above(17) /\ Above(13)
      BY <1>1, <2>3
    <3> QED BY <1>1, <2>1, <2>3, <3>1 DEF RightSize
  <2>4. CASE size = 13 * KeccakBytes
    <3>1. ~Above(17) /\ ~Above(13) /\ Above(9)
      BY <1>1, <2>4
    <3> QED BY <1>1, <2>1, <2>4, <3>1 DEF RightSize
  <2>5. CASE size = 9 * KeccakBytes
    <3>1. ~Above(17) /\ ~Above(13) /\ ~Above(9)
      BY <1>1, <2>5
    <3> QED BY <1>1, <2>1, <2>5, <3>1 DEF RightSize
  <2> QED BY <2>2, <2>3, <2>4, <2>5 DEF Sizes
<1> QED BY <1>1, <1>2

LEMMA SameBlocks ==
    ASSUME NEW P, NEW hash, NEW size, RightSize(size), NEW b, NEW c, \A j \in 1..size : b[j] = c[j]
    PROVE  Sha3ProcessBlock(P, hash, b, size) = Sha3ProcessBlock(P, hash, c, size)
<1>1. KeccakBytes \in Nat \ {0} /\ size \in Nat /\ size = Absorbed(size) * KeccakBytes /\ Absorbed(size) \in 1..25
  BY SizesRight DEF RightSize
<1>2. ASSUME NEW i \in 1..25, i <= Absorbed(size) PROVE LaneOf(b, i - 1) = LaneOf(c, i - 1)
  <2>1. (i - 1) + 1 = i /\ KeccakBytes * i \in Nat /\ KeccakBytes <= KeccakBytes * i /\ KeccakBytes * i <= size
    <3> DEFINE A == Absorbed(size)
    <3> HIDE DEF A
    <3>1. A \in 1..25 /\ i <= A /\ size = A * KeccakBytes
      BY <1>1, <1>2 DEF A
    <3> QED BY <1>1, <3>1
  <2>2. ASSUME NEW k \in 1..KeccakBytes PROVE b[KeccakBytes * i + 1 - k] = c[KeccakBytes * i + 1 - k]
    <3>1. KeccakBytes * i + 1 - k \in 1..size
      BY <1>1, <2>1
    <3> QED BY <3>1
  <2>3. [k \in 1..KeccakBytes |-> b[KeccakBytes * i + 1 - k]] = [k \in 1..KeccakBytes |-> c[KeccakBytes * i + 1 - k]]
    BY <2>2
  <2> DEFINE x == [k \in 1..KeccakBytes |-> b[KeccakBytes * i + 1 - k]]
             y == [k \in 1..KeccakBytes |-> c[KeccakBytes * i + 1 - k]]
  <2>4. LaneOf(b, i - 1) = Number(x, 256) /\ LaneOf(c, i - 1) = Number(y, 256)
    BY <2>1 DEF LaneOf
  <2>5. x = y
    BY <2>3
  <2> HIDE DEF x, y
  <2> QED BY <2>4, <2>5
<1> DEFINE X == [i \in 1..25 |-> IF i <= Absorbed(size) THEN hash[i] ^^ LaneOf(b, i - 1) ELSE hash[i]]
           Y == [i \in 1..25 |-> IF i <= Absorbed(size) THEN hash[i] ^^ LaneOf(c, i - 1) ELSE hash[i]]
<1>3. X = Y
  BY <1>2
<1>4. Sha3ProcessBlock(P, hash, b, size) = P[X] /\ Sha3ProcessBlock(P, hash, c, size) = P[Y]
  BY DEF Sha3ProcessBlock
<1> HIDE DEF X, Y
<1> QED BY <1>3, <1>4

\* size bytes of m behind its first `at`.
Stretch(m, at, size) == [block |-> [j \in 1..size |-> m[at + j]], size |-> size]
StretchesOf(m, size) == [i \in Nat |-> Stretch(m, size * (i - 1), size)]

LEMMA StretchesAgree ==
    ASSUME NEW m, NEW at, NEW d, NEW bt, NEW size, \A j \in 1..size : m[at + j] = d[bt + j]
    PROVE  Stretch(m, at, size) = Stretch(d, bt, size)
<1>1. [j \in 1..size |-> m[at + j]] = [j \in 1..size |-> d[bt + j]]
  OBVIOUS
<1> QED BY <1>1 DEF Stretch

\* A block from anywhere that holds the bytes of the next stretch.
LEMMA TurnsStretch ==
    ASSUME NEW P, NEW hash, NEW size, RightSize(size), NEW m, NEW at, NEW b, \A j \in 1..size : b[j] = m[at + j]
    PROVE  Sha3ProcessBlock(P, hash, b, size) = Turned("sponge", P, hash, Stretch(m, at, size))
<1> DEFINE c == [j \in 1..size |-> m[at + j]]
           x == Stretch(m, at, size)
<1>1. \A j \in 1..size : b[j] = c[j]
  OBVIOUS
<1>2. x = [block |-> c, size |-> size]
  BY DEF Stretch
<1> HIDE DEF c, x
<1>3. x.block = c /\ x.size = size
  BY <1>2
<1>4. Turned("sponge", P, hash, x) = Sha3ProcessBlock(P, hash, c, size)
  BY <1>3, TurnedIs
<1>5. Sha3ProcessBlock(P, hash, b, size) = Sha3ProcessBlock(P, hash, c, size)
  BY <1>1, SameBlocks
<1> QED BY <1>4, <1>5 DEF x

LEMMA NextStretch ==
    ASSUME NEW P, NEW size, RightSize(size), NEW h0, NEW m, NEW i \in Nat, NEW b,
           \A j \in 1..size : b[j] = m[size * i + j]
    PROVE  Sha3ProcessBlock(P, Chained("sponge", P, h0, StretchesOf(m, size), i), b, size)
             = Chained("sponge", P, h0, StretchesOf(m, size), i + 1)
<1> DEFINE B == StretchesOf(m, size)
           h == Chained("sponge", P, h0, B, i)
<1>1. B[i + 1] = Stretch(m, size * i, size)
  <2>1. i + 1 \in Nat /\ (i + 1) - 1 = i
    OBVIOUS
  <2> QED BY <2>1 DEF StretchesOf
<1> HIDE DEF B
<1>2. Chained("sponge", P, h0, B, i + 1) = Turned("sponge", P, h, B[i + 1])
  BY ChainedOnce
<1> HIDE DEF h
<1>3. Sha3ProcessBlock(P, h, b, size) = Turned("sponge", P, h, Stretch(m, size * i, size))
  BY TurnsStretch
<1> QED BY <1>1, <1>2, <1>3 DEF B, h

LEMMA StretchedMore ==
    ASSUME NEW P, NEW size \in Nat \ {0}, NEW h0, NEW m, NEW d, NEW i \in Nat, \A k \in 1..size * i : d[k] = m[k]
    PROVE  Chained("sponge", P, h0, StretchesOf(m, size), i) = Chained("sponge", P, h0, StretchesOf(d, size), i)
<1>1. ASSUME NEW j \in 1..i PROVE StretchesOf(m, size)[j] = StretchesOf(d, size)[j]
  <2> DEFINE at == size * (j - 1)
  <2>1. at \in Nat /\ at + size <= size * i
    OBVIOUS
  <2>2. ASSUME NEW k \in 1..size PROVE m[at + k] = d[at + k]
    <3>1. at + k \in 1..size * i
      BY <2>1
    <3> QED BY <3>1
  <2>3. Stretch(m, at, size) = Stretch(d, at, size)
    BY <2>2, StretchesAgree
  <2> QED BY <2>3 DEF StretchesOf
<1> QED BY <1>1, ChainedAgree

Sponge(h, m, r, s) == [hash |-> h, message |-> m, rest |-> r, size |-> s]

Rested(c, r) == [c EXCEPT !.rest = r]
Buffered(c, m) == [c EXCEPT !.message = m]
Blocked(c, m, h) == [c EXCEPT !.message = m, !.hash = h]
Taken(c, h, m) == [c EXCEPT !.hash = h, !.message = m]

LEMMA SpongeIs ==
    ASSUME NEW h, NEW m, NEW r, NEW s
    PROVE  /\ Sponge(h, m, r, s).hash = h /\ Sponge(h, m, r, s).message = m
           /\ Sponge(h, m, r, s).rest = r /\ Sponge(h, m, r, s).size = s
BY DEF Sponge

LEMMA SpongeChanged ==
    ASSUME NEW h, NEW m, NEW r, NEW s, NEW x, NEW y
    PROVE  /\ Rested(Sponge(h, m, r, s), x) = Sponge(h, m, x, s)
           /\ Buffered(Sponge(h, m, r, s), y) = Sponge(h, y, r, s)
           /\ Blocked(Sponge(h, m, r, s), y, x) = Sponge(x, y, r, s)
           /\ Taken(Sponge(h, m, r, s), x, y) = Sponge(x, y, r, s)
<1> DEFINE c == Sponge(h, m, r, s)
           b == Blocked(c, y, x)
           t == Taken(c, x, y)
           S == {"hash", "message", "rest", "size"}
<1>1. Rested(c, x) = Sponge(h, m, x, s) /\ Buffered(c, y) = Sponge(h, y, r, s)
  BY DEF Sponge, Rested, Buffered
<1>2. /\ DOMAIN b = S /\ b = [f \in DOMAIN b |-> b[f]]
      /\ b.hash = x /\ b.message = y /\ b.rest = r /\ b.size = s
  BY DEF Sponge, Blocked
<1>3. /\ DOMAIN t = S /\ t = [f \in DOMAIN t |-> t[f]]
      /\ t.hash = x /\ t.message = y /\ t.rest = r /\ t.size = s
  BY DEF Sponge, Taken
<1> HIDE DEF b, t
<1>4. b = Sponge(x, y, r, s)
  BY <1>2 DEF Sponge
<1>5. t = Sponge(x, y, r, s)
  BY <1>3 DEF Sponge
<1> QED BY <1>1, <1>4, <1>5 DEF b, t

LEMMA MessageWithIs ==
    ASSUME NEW s, NEW n \in Nat, Long(s, n), NEW at \in Nat, NEW data, NEW k \in Nat, Long(data, k), at + k <= n
    PROVE  /\ Long(MessageWith(s, at, data), n)
           /\ \A i \in 1..at : MessageWith(s, at, data)[i] = s[i]
           /\ \A i \in 1..k : MessageWith(s, at, data)[at + i] = data[i]
<1>1. Len(s) = n /\ Len(data) = k
  BY LongIsSeq
<1> DEFINE t == MessageWith(s, at, data)
<1>2. t = [i \in 1..n |-> IF i - at \in 1..k THEN data[i - at] ELSE s[i]]
  BY <1>1 DEF MessageWith
<1>3. Long(t, n)
  BY <1>2 DEF Long
<1> HIDE DEF t
<1>5. ASSUME NEW i \in 1..at PROVE t[i] = s[i]
  BY <1>1, <1>2
<1>6. ASSUME NEW i \in 1..k PROVE t[at + i] = data[i]
  <2>1. at + i \in 1..n /\ (at + i) - at = i
    BY <1>1
  <2> QED BY <1>2, <2>1
<1> QED BY <1>3, <1>5, <1>6 DEF t

\* The loop of sha3_Update over the whole blocks of its data.
LEMMA LoopTurnsStretches ==
    ASSUME NEW P, NEW size, RightSize(size), NEW h0, NEW d, NEW i \in Nat,
           NEW data, NEW k \in Nat, Long(data, k), NEW from \in Nat, NEW blocks \in Nat, from + size * blocks <= k,
           \A j \in 1..k - from : data[from + j] = d[size * i + j]
    PROVE  Sha3Blocks(P, Chained("sponge", P, h0, StretchesOf(d, size), i), data, from, blocks, size)
             = Chained("sponge", P, h0, StretchesOf(d, size), i + blocks)
<1> DEFINE At(b) == from + size * (b - 1)
           h == Chained("sponge", P, h0, StretchesOf(d, size), i)
           Step(s, b) == Sha3ProcessBlock(P, s, Slice(data, At(b), At(b) + size), size)
           D == [b \in Nat |-> [block |-> Slice(data, At(b), At(b) + size), size |-> size]]
           W(f) == f = [b \in 0..blocks |-> IF b = 0 THEN h ELSE CHOOSE r \in {Step(s, 0 + b) : s \in {f[b - 1]}} : TRUE]
           C(b) == Chained("sponge", P, h, D, b)
<1>0. size \in Nat \ {0}
  BY DEF RightSize
<1>1. Sha3Blocks(P, h, data, from, blocks, size) = C(blocks)
  <2>1. Sha3Blocks(P, h, data, from, blocks, size) = (CHOOSE f : W(f))[blocks]
    BY DEF Sha3Blocks, Loop
  <2>2. ASSUME NEW b \in 1..blocks, NEW t PROVE Step(t, b) = Turned("sponge", P, t, D[b])
    <3> DEFINE z == Slice(data, At(b), At(b) + size)
    <3>1. D[b] = [block |-> z, size |-> size] /\ Step(t, b) = Sha3ProcessBlock(P, t, z, size)
      OBVIOUS
    <3> HIDE DEF D, z, Step
    <3>2. D[b].block = z /\ D[b].size = size
      BY <3>1
    <3> QED BY <3>1, <3>2, TurnedIs
  <2> HIDE DEF Step, D, h
  <2>3. ASSUME NEW f PROVE W(f) <=> Chain(f, "sponge", P, h, D, blocks)
    <3>1. ASSUME NEW b \in 1..blocks PROVE (CHOOSE r \in {Step(s, 0 + b) : s \in {f[b - 1]}} : TRUE) = Step(f[b - 1], b)
      OBVIOUS
    <3>2. ASSUME NEW b \in 0..blocks
          PROVE  (IF b = 0 THEN h ELSE CHOOSE r \in {Step(s, 0 + b) : s \in {f[b - 1]}} : TRUE)
                   = IF b = 0 THEN h ELSE Turned("sponge", P, f[b - 1], D[b])
      <4>1. CASE b = 0
        BY <4>1
      <4>2. CASE b # 0
        <5>1. b \in 1..blocks
          BY <4>2
        <5> QED BY <2>2, <3>1, <4>2, <5>1
      <4> QED BY <4>1, <4>2
    <3>3. [b \in 0..blocks |-> IF b = 0 THEN h ELSE CHOOSE r \in {Step(s, 0 + b) : s \in {f[b - 1]}} : TRUE]
            = [b \in 0..blocks |-> IF b = 0 THEN h ELSE Turned("sponge", P, f[b - 1], D[b])]
      BY <3>2
    <3> QED BY <3>3 DEF Chain
  <2>4. (CHOOSE f : W(f)) = CHOOSE f : Chain(f, "sponge", P, h, D, blocks)
    BY <2>3
  <2> HIDE DEF W
  <2> QED BY <2>1, <2>4 DEF Chained
<1> DEFINE E(j) == Chained("sponge", P, h0, StretchesOf(d, size), j)
           T == {b \in Nat : b <= blocks => C(b) = E(i + b)}
<1>2. 0 \in T
  <2>1. C(0) = h /\ i + 0 = i
    BY ChainedNone
  <2> HIDE DEF C
  <2> QED BY <2>1
<1>3. ASSUME NEW b \in Nat, b \in T PROVE b + 1 \in T
  <2> SUFFICES ASSUME b + 1 <= blocks PROVE C(b + 1) = E(i + (b + 1))
    OBVIOUS
  <2> DEFINE z == Slice(data, At(b + 1), At(b + 1) + size)
             at == from + size * b
  <2>1. C(b) = E(i + b)
    BY <1>3
  <2>2. C(b + 1) = Turned("sponge", P, C(b), D[b + 1])
    BY ChainedOnce
  <2>3. D[b + 1] = [block |-> z, size |-> size] /\ b + 1 \in Nat /\ (b + 1) - 1 = b
    OBVIOUS
  <2>4. at \in Nat /\ at + size \in at..k /\ z = SubSeq(data, at + 1, at + size)
    <3>1. size * (b + 1) <= size * blocks
      <4> DEFINE e == b + 1
      <4>1. size \in Nat /\ blocks \in Nat /\ e \in Nat /\ e <= blocks
        BY <1>0
      <4> HIDE DEF e
      <4>2. size * e <= size * blocks
        BY <4>1, ProductGrows
      <4> QED BY <4>2 DEF e
    <3>2. size * (b + 1) = size * b + size /\ size * b \in Nat
      BY <1>0
    <3>3. at \in Nat /\ at + size \in at..k
      BY <1>0, <3>1, <3>2
    <3>4. At(b + 1) = at
      BY <2>3
    <3> HIDE DEF at, At
    <3> QED BY <3>3, <3>4 DEF Slice
  <2> HIDE DEF C, z, D
  <2>5. C(b + 1) = Sha3ProcessBlock(P, C(b), z, size)
    <3>1. D[b + 1].block = z /\ D[b + 1].size = size
      BY <2>3
    <3> QED BY <2>2, <3>1, TurnedIs
  <2>6. ASSUME NEW j \in 1..size PROVE z[j] = d[size * (i + b) + j]
    <3>1. Long(z, (at + size) - at) /\ \A c \in 1..(at + size) - at : z[c] = data[at + c]
      <4> DEFINE hi == at + size
      <4> HIDE DEF at, hi
      <4>1. z = SubSeq(data, at + 1, hi) /\ hi \in at..k /\ at \in Nat
        BY <2>4 DEF hi
      <4>2. Long(SubSeq(data, at + 1, hi), hi - at) /\ \A c \in 1..hi - at : SubSeq(data, at + 1, hi)[c] = data[at + c]
        BY <4>1, SubSeqLong
      <4> QED BY <4>1, <4>2 DEF hi
    <3>2. (at + size) - at = size
      BY <1>0, <2>4
    <3>3. z[j] = data[at + j]
      BY <3>1, <3>2
    <3> DEFINE e == size * b + j
    <3>4. e \in 1..k - from /\ at + j = from + e
      <4> DEFINE p == size * b
      <4>1. p \in Nat /\ at = from + p /\ e = p + j /\ at + size <= k
        BY <1>0, <2>4
      <4> HIDE DEF p, at, e
      <4> QED BY <1>0, <4>1
    <3>5. size * (i + b) + j = size * i + e
      BY <1>0
    <3> HIDE DEF e, at
    <3>6. data[from + e] = d[size * i + e]
      BY <3>4
    <3> QED BY <3>3, <3>4, <3>5, <3>6
  <2>7. Sha3ProcessBlock(P, E(i + b), z, size) = E((i + b) + 1)
    <3> DEFINE a == i + b
    <3>1. a \in Nat /\ \A j \in 1..size : z[j] = d[size * a + j]
      BY <2>6
    <3> HIDE DEF a
    <3> QED BY <3>1, NextStretch DEF a
  <2>8. (i + b) + 1 = i + (b + 1)
    OBVIOUS
  <2> HIDE DEF E
  <2> QED BY <2>1, <2>5, <2>7, <2>8
<1> HIDE DEF T
<1>4. blocks \in T
  BY <1>2, <1>3, Induction
<1> HIDE DEF C
<1>5. C(blocks) = E(i + blocks)
  BY <1>4 DEF T
<1> HIDE DEF E
<1> QED BY <1>1, <1>5 DEF E

\* A context that has absorbed i blocks of m, of n bytes in all.
HasAbsorbed(P, size, m, i, n, ctx) ==
    /\ ctx = Sponge(Chained("sponge", P, Zeros(25), StretchesOf(m, size), i), ctx.message, n % size, size)
    /\ Long(ctx.message, StateLength)

\* A context that was fed with the n bytes of m.
WasSoaked(P, size, m, n, ctx) ==
    /\ HasAbsorbed(P, size, m, n \div size, n, ctx)
    /\ \A j \in 1..n % size : ctx.message[j] = m[size * (n \div size) + j]

LEMMA SoakedOnward ==
    ASSUME NEW P, NEW size, RightSize(size), NEW m, NEW n \in Nat, Long(m, n),
           NEW ctx, WasSoaked(P, size, m, n, ctx), NEW data, NEW k \in Nat, Long(data, k)
    PROVE  WasSoaked(P, size, m \o data, n + k, Sha3Update(P, ctx, data))
<1> DEFINE d == m \o data
           q == n \div size
           u == n % size
           new == Sha3Update(P, ctx, data)
           H(i) == Chained("sponge", P, Zeros(25), StretchesOf(d, size), i)
           mess == ctx.message
           r == (n + k) % size
           rested == Rested(ctx, (u + k) % size)
<1>1. size \in Nat \ {0} /\ StateLength \in Nat /\ size <= StateLength /\ Len(data) = k
  BY SizesRight, LongIsSeq DEF RightSize
<1>2. q \in Nat /\ u \in 0..size - 1 /\ n = size * q + u /\ size * q \in Nat
  <2>1. q \in Nat /\ u \in 0..size - 1 /\ n = (q * size) + u
    BY <1>1, Division
  <2> HIDE DEF q, u
  <2>2. size * q = q * size /\ size * q \in Nat
    BY <1>1, <2>1
  <2> QED BY <2>1, <2>2
<1>3. Long(d, n + k) /\ (\A i \in 1..n : d[i] = m[i]) /\ (\A i \in 1..k : d[n + i] = data[i])
  <2>1. JoinOf(d, m, n, data, k)
    BY JoinIs
  <2> HIDE DEF q, u, new, d
  <2> QED BY <2>1 DEF JoinOf
<1>4. ctx = Sponge(Chained("sponge", P, Zeros(25), StretchesOf(m, size), q), mess, u, size) /\ Long(mess, StateLength)
      /\ \A j \in 1..u : mess[j] = m[size * q + j]
  BY DEF WasSoaked, HasAbsorbed
<1> HIDE DEF d, q, u
<1>5. Chained("sponge", P, Zeros(25), StretchesOf(m, size), q) = H(q)
  <2>1. \A i \in 1..size * q : d[i] = m[i]
    BY <1>2, <1>3
  <2> QED BY <1>1, <1>2, <2>1, StretchedMore
<1> HIDE DEF mess, H
<1>6. ctx = Sponge(H(q), mess, u, size)
  BY <1>4, <1>5
<1>7. ASSUME NEW i \in 1..u PROVE mess[i] = d[size * q + i]
  <2>1. size * q + i \in 1..n
    BY <1>2
  <2> QED BY <1>3, <1>4, <2>1
<1>8. ctx.rest = u /\ ctx.size = size /\ ctx.hash = H(q) /\ ctx.message = mess
  BY <1>6, SpongeIs
<1>9. (u + k) % size = r
  BY <1>1, RemainderOfSum DEF u
<1>10. rested = Sponge(H(q), mess, r, size)
  <2>1. rested = Rested(Sponge(H(q), mess, u, size), r)
    BY <1>6, <1>9
  <2> HIDE DEF rested, r
  <2> QED BY <2>1, SpongeChanged
<1> HIDE DEF rested, r
<1>11. rested.hash = H(q) /\ rested.message = mess
  BY <1>10, SpongeIs
<1>12. CASE data = <<>>
  <2>1. k = 0 /\ new = ctx
    BY <1>1, <1>12 DEF Sha3Update
  <2>2. n + k = n
    BY <2>1
  <2> QED BY <1>4, <1>5, <1>6, <1>7, <1>8, <2>1, <2>2 DEF WasSoaked, HasAbsorbed, d, q, u, H, mess
<1>13. CASE data # <<>> /\ u > 0 /\ k < size - u
  <2> DEFINE y == MessageWith(mess, u, data)
  <2>1. new = Buffered(rested, y)
    <3>1. u # 0 /\ ~(k >= size - u)
      BY <1>1, <1>2, <1>13
    <3> QED BY <1>1, <1>8, <1>11, <1>13, <3>1 DEF Sha3Update, FillsBlock, Buffered, Rested, rested
  <2>2. u \in Nat /\ u + k <= StateLength /\ u + k < size
    BY <1>1, <1>2, <1>13
  <2>3. /\ Long(y, StateLength)
        /\ \A i \in 1..u : y[i] = mess[i]
        /\ \A i \in 1..k : y[u + i] = data[i]
    <3>1. Long(mess, StateLength) /\ StateLength \in Nat /\ u \in Nat /\ u + k <= StateLength
      BY <1>1, <1>4, <2>2
    <3> HIDE DEF new
    <3> QED BY <3>1, MessageWithIs
  <2> HIDE DEF y, new
  <2>4. new = Sponge(H(q), y, r, size)
    BY <1>10, <2>1, SpongeChanged
  <2>5. (n + k) \div size = q /\ r = u + k
    <3> DEFINE x == u + k
    <3>1. x \in Nat /\ x < size /\ n + k = (q * size) + x
      BY <1>1, <1>2, <2>2
    <3> HIDE DEF x
    <3>2. ((q * size) + x) \div size = q /\ ((q * size) + x) % size = x
      BY <1>1, <1>2, <3>1, QuotientIs
    <3> QED BY <3>1, <3>2 DEF x, r
  <2>6. ASSUME NEW j \in 1..u + k PROVE y[j] = d[size * q + j]
    <3>1. CASE j <= u
      <4>1. j \in 1..u
        BY <1>2, <3>1
      <4> QED BY <1>7, <2>3, <4>1
    <3>2. CASE ~(j <= u)
      <4> DEFINE i == j - u
      <4>1. i \in 1..k /\ u + i = j /\ size * q + j = n + i
        BY <1>2, <3>2
      <4> HIDE DEF i
      <4>2. y[u + i] = data[i] /\ d[n + i] = data[i]
        BY <1>3, <2>3, <4>1
      <4> QED BY <4>1, <4>2
    <3> QED BY <3>1, <3>2
  <2>7. new.message = y
    BY <2>4, SpongeIs
  <2>8. HasAbsorbed(P, size, d, (n + k) \div size, n + k, new)
    BY <2>3, <2>4, <2>5, <2>7 DEF HasAbsorbed, H, r
  <2> QED BY <2>5, <2>6, <2>7, <2>8 DEF WasSoaked, d, new, r
<1>14. CASE data # <<>> /\ ~(u > 0 /\ k < size - u)
  <2> DEFINE left == IF u = 0 THEN 0 ELSE size - u
             part == SubSeq(data, 1, left)
             z == MessageWith(mess, u, part)
             filled == IF u = 0 THEN rested ELSE Blocked(rested, z, Sha3ProcessBlock(P, rested.hash, z, size))
             p == IF u = 0 THEN q ELSE q + 1
             w == IF u = 0 THEN mess ELSE z
             blocks == (k - left) \div size
             v == (k - left) % size
             from == left + size * blocks
             over == Slice(data, from, k)
             i == p + blocks
             y == MessageWith(w, 0, over)
  <2>1. left \in 0..k /\ p \in Nat /\ n + left = size * p
    <3>1. left \in 0..k /\ p \in Nat
      BY <1>1, <1>2, <1>14
    <3>2. CASE u = 0
      BY <1>1, <1>2, <3>1, <3>2
    <3>3. CASE u # 0
      <4>1. size * (q + 1) = size * q + size
        BY <1>1, <1>2
      <4>2. n = size * q + u /\ left = size - u /\ p = q + 1
        BY <1>2, <3>3
      <4> HIDE DEF left, p, blocks, new
      <4>3. n + left = size * q + size
        BY <1>1, <1>2, <4>1, <4>2
      <4> QED BY <3>1, <4>1, <4>2, <4>3
    <3> QED BY <3>2, <3>3
  <2>2. filled = Sponge(H(p), w, r, size) /\ Long(w, StateLength)
    <3>1. CASE u = 0
      BY <1>4, <1>10, <3>1
    <3>2. CASE u # 0
      <4> DEFINE f == size - u
      <4>1. f = left /\ f \in 0..k /\ u + f = size /\ u \in Nat /\ f \in Nat /\ p = q + 1 /\ w = z
            /\ filled = Blocked(rested, z, Sha3ProcessBlock(P, rested.hash, z, size))
        BY <1>1, <1>2, <2>1, <3>2
      <4> HIDE DEF f, left, p, filled, w
      <4>2. Long(part, f) /\ \A j \in 1..f : part[j] = data[j]
        <5>1. part = SubSeq(data, 0 + 1, f) /\ 0 \in Nat /\ f \in 0..k /\ f - 0 = f /\ \A j \in 1..f : 0 + j = j
          BY <4>1
        <5>2. part = SubSeq(data, 1, f) /\ f \in 0..k
          BY <4>1
        <5> HIDE DEF part
        <5> QED BY <5>2, SubSeqFromStart
      <4> HIDE DEF part
      <4>3. /\ Long(z, StateLength)
            /\ \A j \in 1..u : z[j] = mess[j]
            /\ \A j \in 1..f : z[u + j] = part[j]
        <5>1. u + f <= StateLength
          BY <1>1, <4>1
        <5> QED BY <1>1, <1>4, <4>1, <4>2, <5>1, MessageWithIs
      <4> HIDE DEF z
      <4>4. ASSUME NEW j \in 1..size PROVE z[j] = d[size * q + j]
        <5>1. CASE j <= u
          <6>1. j \in 1..u
            BY <1>2, <5>1
          <6> QED BY <1>7, <4>3, <6>1
        <5>2. CASE ~(j <= u)
          <6> DEFINE e == j - u
          <6>1. e \in 1..f /\ e \in 1..k /\ u + e = j /\ size * q + j = n + e
            BY <1>1, <1>2, <4>1, <5>2
          <6> HIDE DEF e
          <6>2. z[u + e] = data[e] /\ d[n + e] = data[e]
            BY <1>3, <4>2, <4>3, <6>1
          <6> QED BY <6>1, <6>2
        <5> QED BY <5>1, <5>2
      <4>5. Sha3ProcessBlock(P, H(q), z, size) = H(q + 1)
        BY <1>2, <4>4, NextStretch DEF H
      <4>6. filled = Blocked(rested, z, H(q + 1))
        BY <1>11, <4>1, <4>5
      <4>7. Blocked(rested, z, H(q + 1)) = Sponge(H(q + 1), z, r, size)
        BY <1>10, SpongeChanged
      <4> QED BY <4>1, <4>3, <4>6, <4>7
    <3> QED BY <3>1, <3>2
  <2>3. filled.hash = H(p) /\ filled.message = w
    BY <2>2, SpongeIs
  <2>4. new = Taken(filled, Sha3Blocks(P, filled.hash, data, left, blocks, size), MessageWith(filled.message, 0, over))
    <3>1. u = 0 \/ k >= size - u
      BY <1>1, <1>2, <1>14
    <3> QED BY <1>1, <1>2, <1>8, <1>11, <1>14, <3>1 DEF Sha3Update, FillsBlock, Taken, Blocked, Rested, rested
  <2> HIDE DEF new, filled, left, p, w
  <2>5. blocks \in Nat /\ v \in 0..size - 1 /\ k - left = (blocks * size) + v
    <3>1. k - left \in Nat
      BY <2>1
    <3> QED BY <1>1, <3>1, Division
  <2>6. from \in Nat /\ from <= k /\ k - from = v /\ size * blocks = blocks * size
    <3> HIDE DEF blocks, v
    <3> QED BY <1>1, <2>1, <2>5
  <2> HIDE DEF blocks, v
  <2>7. Sha3Blocks(P, H(p), data, left, blocks, size) = H(i)
    <3>1. ASSUME NEW j \in 1..k - left PROVE data[left + j] = d[size * p + j]
      <4>1. left + j \in 1..k /\ n + (left + j) = size * p + j
        BY <2>1
      <4> QED BY <1>3, <4>1
    <3>2. left \in Nat /\ left + size * blocks <= k
      BY <2>1, <2>6
    <3> QED BY <2>1, <2>5, <3>1, <3>2, LoopTurnsStretches DEF H
  <2>8. Long(over, v) /\ \A j \in 1..v : over[j] = data[from + j]
    <3>1. over = SubSeq(data, from + 1, k)
      BY DEF Slice
    <3> HIDE DEF over, from
    <3>2. k \in from..k
      BY <2>6
    <3>3. Long(SubSeq(data, from + 1, k), k - from) /\ \A j \in 1..k - from : SubSeq(data, from + 1, k)[j] = data[from + j]
      BY <2>6, <3>2, SubSeqLong
    <3> QED BY <2>6, <3>1, <3>3
  <2>9. new = Sponge(H(i), y, r, size)
    <3>1. new = Taken(filled, H(i), y)
      BY <2>3, <2>4, <2>7
    <3> HIDE DEF i, y
    <3> QED BY <2>2, <3>1, SpongeChanged
  <2>10. Long(y, StateLength) /\ \A j \in 1..v : y[0 + j] = over[j]
    <3>1. 0 \in Nat /\ v \in Nat /\ 0 + v <= StateLength
      BY <1>1, <2>5
    <3> HIDE DEF over
    <3> QED BY <1>1, <2>2, <2>8, <3>1, MessageWithIs
  <2> HIDE DEF y, over
  <2>11. i \in Nat /\ n + from = size * i /\ n + k = (i * size) + v
    <3>1. size * (p + blocks) = size * p + size * blocks /\ size * (p + blocks) = (p + blocks) * size /\ p + blocks \in Nat
      BY <1>1, <2>1, <2>5
    <3>2. n + from = size * p + size * blocks
      BY <1>1, <2>1, <2>5
    <3> HIDE DEF from
    <3> QED BY <2>5, <2>6, <3>1, <3>2
  <2> HIDE DEF i, from
  <2>12. (n + k) \div size = i /\ r = v
    <3>1. v \in Nat /\ v < size
      BY <1>1, <2>5
    <3>2. ((i * size) + v) \div size = i /\ ((i * size) + v) % size = v
      BY <1>1, <2>11, <3>1, QuotientIs
    <3> QED BY <2>11, <3>2 DEF r
  <2>13. ASSUME NEW j \in 1..v PROVE y[j] = d[size * i + j]
    <3>1. 0 + j = j /\ from + j \in 1..k /\ size * i + j = n + (from + j)
      BY <2>5, <2>6, <2>11
    <3> QED BY <1>3, <2>8, <2>10, <3>1
  <2>14. new.message = y
    BY <2>9, SpongeIs
  <2>15. HasAbsorbed(P, size, d, (n + k) \div size, n + k, new)
    BY <2>9, <2>10, <2>12, <2>14 DEF HasAbsorbed, H, r
  <2> QED BY <2>12, <2>13, <2>14, <2>15 DEF WasSoaked, d, new, r
<1> QED BY <1>2, <1>12, <1>13, <1>14

SpongeZeros(n, size) == CHOOSE z \in 0..size - 1 : (n + 1 + z) % size = 0

LEMMA SpongeZerosAre ==
    ASSUME NEW n \in Nat, NEW size \in Nat \ {0}
    PROVE  /\ SpongeZeros(n, size) \in 0..size - 1
           /\ n + 1 + SpongeZeros(n, size) = (n \div size + 1) * size
<1> DEFINE q == n \div size
           u == n % size
           y == size - u - 1
           z == SpongeZeros(n, size)
           T == n + 1 + z
           t == T \div size
           p == q + 1
<1>1. q \in Nat /\ u \in 0..size - 1 /\ n = (q * size) + u
  BY Division
<1> HIDE DEF q, u
<1>2. y \in 0..size - 1 /\ p \in Nat /\ p * size = (q * size) + size /\ n + 1 + y = p * size
  BY <1>1
<1> HIDE DEF y, p
<1>3. (n + 1 + y) % size = 0
  <2>1. ((p * size) + 0) % size = 0
    BY <1>2, QuotientIs
  <2>2. (p * size) + 0 = n + 1 + y
    BY <1>2
  <2> QED BY <2>1, <2>2
<1>4. z \in 0..size - 1 /\ T % size = 0
  BY <1>2, <1>3 DEF SpongeZeros
<1> HIDE DEF z
<1>5. T \in Nat /\ t \in Nat /\ T = t * size
  <2>1. T \in Nat
    BY <1>4
  <2> HIDE DEF T
  <2>2. T \div size \in Nat /\ T = ((T \div size) * size) + (T % size)
    BY <2>1, Division
  <2> QED BY <1>4, <2>1, <2>2
<1> HIDE DEF t
<1>6. t = p
  <2> DEFINE d == t - p
  <2>1. d \in Int /\ d * size = (t * size) - (p * size)
    BY <1>2, <1>5
  <2>2. (t * size) - (p * size) = z - y
    BY <1>2, <1>4, <1>5
  <2> HIDE DEF d
  <2>3. d * size < size /\ d * size > - size
    BY <1>2, <1>4, <2>1, <2>2
  <2>4. ~(d >= 1) /\ ~(d <= -1)
    BY <2>1, <2>3
  <2>5. d = 0
    BY <2>1, <2>4
  <2> QED BY <1>2, <1>5, <2>5 DEF d
<1> QED BY <1>4, <1>5, <1>6 DEF z, q, p

Soaking(m, n, size, domain) == m \o <<domain>> \o Zeros(SpongeZeros(n, size))
Soaked(m, n, size, domain) ==
    LET raw == Soaking(m, n, size, domain) IN [raw EXCEPT ![Len(raw)] = @ | 128]

LEMMA SoakingIs ==
    ASSUME NEW m, NEW n \in Nat, Long(m, n), NEW size \in Nat \ {0}, NEW domain
    PROVE  /\ Long(Soaking(m, n, size, domain), (n \div size + 1) * size)
           /\ \A i \in 1..n : Soaking(m, n, size, domain)[i] = m[i]
           /\ Soaking(m, n, size, domain)[n + 1] = domain
           /\ \A i \in n + 2..(n \div size + 1) * size : Soaking(m, n, size, domain)[i] = 0
<1> DEFINE mark == <<domain>>
           s == m \o mark
           z == SpongeZeros(n, size)
           zs == Zeros(z)
           d == s \o zs
           N == (n \div size + 1) * size
           k == n + 1
<1>1. z \in Nat /\ n + 1 + z = N
  <2>1. z \in 0..size - 1 /\ n + 1 + z = N
    BY SpongeZerosAre
  <2> HIDE DEF z, N
  <2> QED BY <2>1
<1>2. Long(mark, 1) /\ mark[1] = domain
  BY DEF Long
<1>3. Long(zs, z) /\ \A i \in 1..z : zs[i] = 0
  BY <1>1, ZerosLong
<1>4. Soaking(m, n, size, domain) = d
  BY DEF Soaking
<1> HIDE DEF mark, z, N, zs
<1>5. JoinOf(s, m, n, mark, 1)
  BY <1>2, JoinIs
<1> HIDE DEF s
<1>6. Long(s, k) /\ s[k] = domain /\ k \in Nat /\ \A i \in 1..n : s[i] = m[i]
  BY <1>2, <1>5 DEF JoinOf
<1>7. JoinOf(d, s, k, zs, z)
  <2> HIDE DEF k
  <2> QED BY <1>1, <1>3, <1>6, JoinIs
<1> HIDE DEF d
<1>8. /\ Long(d, N)
      /\ \A i \in 1..n : d[i] = m[i]
      /\ d[k] = domain
  BY <1>1, <1>6, <1>7 DEF JoinOf
<1>9. ASSUME NEW i \in n + 2..N PROVE d[i] = 0
  <2> DEFINE j == i - k
  <2>1. j \in 1..z /\ k + j = i
    BY <1>1
  <2> HIDE DEF j, k
  <2> QED BY <1>3, <1>7, <2>1 DEF JoinOf
<1> QED BY <1>4, <1>8, <1>9 DEF N

\* d is the n items of m, the domain and zeros, N in all, the last one marked.
PaddedTo(d, m, n, N, domain) ==
    /\ Long(d, N)
    /\ \A i \in 1..n : d[i] = m[i]
    /\ \A i \in n + 1..N : d[i] = LET byte == IF i = n + 1 THEN domain ELSE 0 IN IF i = N THEN byte | 128 ELSE byte

LEMMA SoakedIs ==
    ASSUME NEW m, NEW n \in Nat, Long(m, n), NEW size \in Nat \ {0}, NEW domain \in Nat
    PROVE  PaddedTo(Soaked(m, n, size, domain), m, n, (n \div size + 1) * size, domain)
<1> DEFINE N == (n \div size + 1) * size
           raw == Soaking(m, n, size, domain)
           d == Soaked(m, n, size, domain)
<1>1. Long(raw, N) /\ (\A i \in 1..n : raw[i] = m[i]) /\ raw[n + 1] = domain /\ \A i \in n + 2..N : raw[i] = 0
  BY SoakingIs
<1>2. N \in Nat /\ n + 1 <= N
  <2> DEFINE z == SpongeZeros(n, size)
  <2>1. z \in 0..size - 1 /\ n + 1 + z = N
    BY SpongeZerosAre
  <2> HIDE DEF z, N
  <2> QED BY <2>1
<1> HIDE DEF N
<1>3. d = [raw EXCEPT ![N] = raw[N] | 128]
  <2>1. Len(raw) = N
    <3> HIDE DEF raw
    <3> QED BY <1>1, LongIsSeq
  <2> QED BY <2>1 DEF Soaked
<1> HIDE DEF raw, d
<1>4. d = [i \in 1..N |-> IF i = N THEN raw[N] | 128 ELSE raw[i]]
  BY <1>1, <1>2, <1>3 DEF Long
<1>5. Long(d, N)
  BY <1>2, <1>4 DEF Long
<1>6. ASSUME NEW i \in 1..n PROVE d[i] = m[i]
  BY <1>1, <1>2, <1>4
<1>7. ASSUME NEW i \in n + 1..N
      PROVE  d[i] = LET byte == IF i = n + 1 THEN domain ELSE 0 IN IF i = N THEN byte | 128 ELSE byte
  <2>1. i \in 1..N /\ raw[i] = IF i = n + 1 THEN domain ELSE 0
    BY <1>1, <1>2
  <2>2. d[i] = IF i = N THEN raw[i] | 128 ELSE raw[i]
    BY <1>4, <2>1
  <2> QED BY <2>1, <2>2
<1>8. PaddedTo(d, m, n, N, domain)
  BY <1>5, <1>6, <1>7 DEF PaddedTo
<1> QED BY <1>8 DEF N, d

\* The loop over a padded message is a chain of its stretches.
LEMMA SpongeChainIs ==
    ASSUME NEW P, NEW size, RightSize(size), NEW d, NEW blocks \in Nat, Long(d, blocks * size)
    PROVE  SpongeChain(P, size, d) = Chained("sponge", P, Zeros(25), StretchesOf(d, size), blocks)
<1> DEFINE Cut(i) == Slice(d, (i - 1) * size, i * size)
           Absorb(h, i) == P[[j \in 1..25 |-> IF j <= size \div KeccakBytes THEN h[j] ^^ LaneOf(Cut(i), j - 1) ELSE h[j]]]
           Step(h, i) == Sha3ProcessBlock(P, h, Cut(i), size)
           W(f) == f = [i \in 0..blocks |-> IF i = 0 THEN Zeros(25) ELSE CHOOSE r \in {Absorb(h, 0 + i) : h \in {f[i - 1]}} : TRUE]
           B == StretchesOf(d, size)
<1>1. size \in Nat \ {0} /\ size \div KeccakBytes = Absorbed(size)
  <2> DEFINE A == Absorbed(size)
  <2>1. size \in Nat \ {0} /\ size = A * KeccakBytes /\ A \in Nat /\ KeccakBytes \in Nat \ {0}
    BY SizesRight DEF RightSize
  <2> HIDE DEF A
  <2>2. ((A * KeccakBytes) + 0) \div KeccakBytes = A
    BY <2>1, QuotientIs
  <2> QED BY <2>1, <2>2 DEF A
<1>2. Len(d) \div size = blocks
  <2> DEFINE N == blocks * size
  <2>1. Long(d, N)
    OBVIOUS
  <2> HIDE DEF N
  <2>2. Len(d) = N
    BY <2>1, LongIsSeq
  <2>3. ((blocks * size) + 0) \div size = blocks /\ blocks * size \in Nat
    BY <1>1, QuotientIs
  <2> QED BY <2>2, <2>3 DEF N
<1>3. ASSUME NEW i \in 1..blocks PROVE /\ Long(Cut(i), size) /\ \A j \in 1..size : Cut(i)[j] = d[size * (i - 1) + j]
  <2> DEFINE lo == (i - 1) * size
             hi == i * size
             N == blocks * size
  <2>1. lo \in Nat /\ hi = lo + size /\ lo = size * (i - 1) /\ N \in Nat /\ hi <= N
    BY <1>1
  <2>2. Cut(i) = SubSeq(d, lo + 1, hi) /\ Long(d, N)
    BY DEF Slice
  <2> HIDE DEF lo, hi, N, Cut
  <2>3. hi \in lo..N /\ hi - lo = size /\ lo \in Nat
    BY <1>1, <2>1
  <2>4. Long(SubSeq(d, lo + 1, hi), hi - lo) /\ \A j \in 1..hi - lo : SubSeq(d, lo + 1, hi)[j] = d[lo + j]
    BY <2>2, <2>3, SubSeqLong
  <2> QED BY <2>1, <2>2, <2>3, <2>4
<1>4. ASSUME NEW i \in 1..blocks, NEW t PROVE Step(t, i) = Turned("sponge", P, t, B[i])
  <2>1. Step(t, i) = Turned("sponge", P, t, Stretch(d, size * (i - 1), size))
    <3> HIDE DEF Cut
    <3> QED BY <1>3, TurnsStretch
  <2>2. B[i] = Stretch(d, size * (i - 1), size)
    BY DEF StretchesOf
  <2> QED BY <2>1, <2>2
<1>5. ASSUME NEW i \in 1..blocks, NEW t PROVE Absorb(t, i) = Turned("sponge", P, t, B[i])
  <2>1. Absorb(t, i) = Step(t, i)
    BY <1>1 DEF Sha3ProcessBlock
  <2> HIDE DEF Absorb, Step, B
  <2> QED BY <1>4, <2>1
<1>6. SpongeChain(P, size, d) = (CHOOSE f : W(f))[blocks]
  BY <1>2 DEF SpongeChain, Loop
<1> HIDE DEF Step, B, Absorb
<1>7. ASSUME NEW f PROVE W(f) <=> Chain(f, "sponge", P, Zeros(25), B, blocks)
  <2>1. ASSUME NEW i \in 1..blocks PROVE (CHOOSE r \in {Absorb(h, 0 + i) : h \in {f[i - 1]}} : TRUE) = Absorb(f[i - 1], i)
    OBVIOUS
  <2>2. ASSUME NEW i \in 0..blocks
        PROVE  (IF i = 0 THEN Zeros(25) ELSE CHOOSE r \in {Absorb(h, 0 + i) : h \in {f[i - 1]}} : TRUE)
                 = IF i = 0 THEN Zeros(25) ELSE Turned("sponge", P, f[i - 1], B[i])
    <3>1. CASE i = 0
      BY <3>1
    <3>2. CASE i # 0
      <4>1. i \in 1..blocks
        BY <3>2
      <4> QED BY <1>5, <2>1, <3>2, <4>1
    <3> QED BY <3>1, <3>2
  <2>3. [i \in 0..blocks |-> IF i = 0 THEN Zeros(25) ELSE CHOOSE r \in {Absorb(h, 0 + i) : h \in {f[i - 1]}} : TRUE]
          = [i \in 0..blocks |-> IF i = 0 THEN Zeros(25) ELSE Turned("sponge", P, f[i - 1], B[i])]
    BY <2>2
  <2> QED BY <2>3 DEF Chain
<1>8. (CHOOSE f : W(f)) = CHOOSE f : Chain(f, "sponge", P, Zeros(25), B, blocks)
  BY <1>7
<1> HIDE DEF W
<1> QED BY <1>6, <1>8 DEF Chained, B

\* However a context was fed, its digest is the one of all it was fed with.
LEMMA SoakedFinal ==
    ASSUME NEW P, NEW size, RightSize(size), NEW m, NEW n \in Nat, Long(m, n),
           NEW ctx, WasSoaked(P, size, m, n, ctx), NEW domain \in Nat, NEW init, init.size = size
    PROVE  Finished(P, ctx, domain) = SpongeOf(P, init, m, domain)
<1> DEFINE q == n \div size
           u == n % size
           N == (q + 1) * size
           d == Soaked(m, n, size, domain)
           H(i) == Chained("sponge", P, Zeros(25), StretchesOf(d, size), i)
           mess == ctx.message
           b == Padded(ctx, domain)
           count == (StateLength - size) \div 2
<1>1. size \in Nat \ {0} /\ StateLength \in Nat /\ size <= StateLength
  BY SizesRight DEF RightSize
<1>2. q \in Nat /\ u \in 0..size - 1 /\ n = size * q + u /\ size * q \in Nat
  <2>1. q \in Nat /\ u \in 0..size - 1 /\ n = (q * size) + u
    BY <1>1, Division
  <2> HIDE DEF q, u
  <2>2. size * q = q * size /\ size * q \in Nat
    BY <1>1, <2>1
  <2> QED BY <2>1, <2>2
<1>3. /\ Long(d, N)
      /\ \A i \in 1..n : d[i] = m[i]
      /\ \A i \in n + 1..N :
           d[i] = LET byte == IF i = n + 1 THEN domain ELSE 0 IN IF i = N THEN byte | 128 ELSE byte
  <2>1. PaddedTo(d, m, n, N, domain)
    BY <1>1, SoakedIs
  <2> HIDE DEF d, N
  <2> QED BY <2>1 DEF PaddedTo
<1>4. ctx = Sponge(Chained("sponge", P, Zeros(25), StretchesOf(m, size), q), mess, u, size) /\ Long(mess, StateLength)
      /\ \A j \in 1..u : mess[j] = m[size * q + j]
  BY DEF WasSoaked, HasAbsorbed
<1> HIDE DEF q, u, d
<1>5. Chained("sponge", P, Zeros(25), StretchesOf(m, size), q) = H(q)
  <2>1. \A i \in 1..size * q : d[i] = m[i]
    BY <1>2, <1>3
  <2> HIDE DEF N
  <2> QED BY <1>1, <1>2, <2>1, StretchedMore
<1> HIDE DEF mess
<1>6. ctx.rest = u /\ ctx.size = size /\ ctx.hash = H(q) /\ ctx.message = mess
  <2> HIDE DEF H
  <2>1. ctx = Sponge(H(q), mess, u, size)
    BY <1>4, <1>5
  <2> QED BY <2>1, SpongeIs
<1>7. N = size * q + size /\ N \in Nat
  BY <1>1, <1>2
<1>8. ASSUME NEW j \in 1..size PROVE b[j] = d[size * q + j]
  <2> DEFINE byte == IF j <= u THEN mess[j] ELSE 0
             first == IF j = u + 1 THEN byte | domain ELSE byte
             i == size * q + j
  <2>1. b[j] = IF j = size THEN first | 128 ELSE first
    <3>1. Len(mess) = StateLength /\ j \in 1..StateLength /\ j <= size
      <4>1. Len(mess) = StateLength
        BY <1>4, LongIsSeq
      <4> QED BY <1>1, <4>1
    <3> QED BY <1>6, <3>1 DEF Padded
  <2>2. CASE j <= u
    <3>1. j \in 1..u /\ j # size /\ j # u + 1 /\ i \in 1..n
      BY <1>1, <1>2, <2>2
    <3>2. b[j] = mess[j]
      BY <2>1, <3>1
    <3> HIDE DEF b, H
    <3> QED BY <1>3, <1>4, <3>1, <3>2
  <2>3. CASE ~(j <= u)
    <3>1. i \in n + 1..N /\ (i = n + 1 <=> j = u + 1) /\ (i = N <=> j = size)
      BY <1>1, <1>2, <1>7, <2>3
    <3>2. d[i] = LET x == IF i = n + 1 THEN domain ELSE 0 IN IF i = N THEN x | 128 ELSE x
      BY <1>3, <3>1
    <3>3. byte = 0
      BY <2>3
    <3>4. 0 | domain = domain
      BY DEF |
    <3>5. first = IF j = u + 1 THEN domain ELSE 0
      BY <3>3, <3>4
    <3> HIDE DEF b, first, N, i
    <3> QED BY <2>1, <3>1, <3>2, <3>5 DEF i
  <2> QED BY <2>2, <2>3
<1>9. Sha3ProcessBlock(P, H(q), b, size) = H(q + 1)
  <2> HIDE DEF b
  <2> QED BY <1>2, <1>8, NextStretch
<1>10. Finished(P, ctx, domain) = KeccakDigest(H(q + 1), count)
  <2> HIDE DEF H
  <2>1. Finished(P, ctx, domain) = KeccakDigest(Sha3ProcessBlock(P, ctx.hash, b, ctx.size), (StateLength - ctx.size) \div 2)
    BY DEF Finished
  <2> HIDE DEF b
  <2> QED BY <1>6, <1>9, <2>1
<1>11. SpongeChain(P, size, d) = H(q + 1)
  <2> DEFINE p == q + 1
  <2>1. p \in Nat /\ Long(d, p * size)
    BY <1>2, <1>3
  <2> HIDE DEF p
  <2> QED BY <2>1, SpongeChainIs DEF p
<1>12. SpongeOf(P, init, m, domain) = KeccakDigest(SpongeChain(P, size, d), count)
  <2>1. Len(m) = n
    BY LongIsSeq
  <2> QED BY <2>1 DEF SpongeOf, d, Soaked, Soaking, SpongeZeros
<1> HIDE DEF H, b
<1> QED BY <1>10, <1>11, <1>12

LEMMA SoakedInit ==
    ASSUME NEW P, NEW bits \in {224, 256, 384, 512}, NEW m
    PROVE  LET ctx == KeccakInit(bits)
           IN /\ RightSize(ctx.size)
              /\ WasSoaked(P, ctx.size, m, 0, ctx)
<1> DEFINE size == StateLength - (2 * bits * KeccakBytes) \div 64
           ctx == KeccakInit(bits)
<1>1. size \in Sizes
  <2>1. KeccakBytes \in Nat
    BY SizesRight
  <2> QED BY <2>1 DEF Sizes, StateLength
<1>2. RightSize(size) /\ size \in Nat \ {0} /\ StateLength \in Nat
  BY <1>1, SizesRight DEF RightSize
<1>3. ctx = Sponge(Zeros(25), Zeros(StateLength), 0, size)
  BY DEF KeccakInit, Sponge
<1> HIDE DEF size, ctx
<1>4. ctx.size = size /\ ctx.message = Zeros(StateLength)
  BY <1>3, SpongeIs
<1>5. 0 \div size = 0 /\ 0 % size = 0
  <2>1. ((0 * size) + 0) \div size = 0 /\ ((0 * size) + 0) % size = 0
    BY <1>2, QuotientIs
  <2>2. (0 * size) + 0 = 0
    BY <1>2
  <2> QED BY <2>1, <2>2
<1>6. Long(Zeros(StateLength), StateLength)
  BY <1>2, ZerosLong
<1>7. Chained("sponge", P, Zeros(25), StretchesOf(m, size), 0) = Zeros(25)
  BY ChainedNone
<1>8. HasAbsorbed(P, size, m, 0, 0, ctx)
  BY <1>3, <1>4, <1>5, <1>6, <1>7 DEF HasAbsorbed
<1>9. WasSoaked(P, size, m, 0, ctx)
  BY <1>5, <1>8 DEF WasSoaked
<1> QED BY <1>2, <1>4, <1>9 DEF ctx

-----------------------------------------------------------------------------
(* Hashes of whole messages, begun from any state.                         *)

LEMMA EmptyLong ==
    ASSUME NEW m, NEW n, Long(m, n)
    PROVE  Long(<<>>, 0) /\ <<>> \o m = m
<1>1. n \in Nat /\ Long(<<>>, 0)
  BY DEF Long
<1>2. JoinOf(<<>> \o m, <<>>, 0, m, n)
  BY <1>1, JoinIs
<1> DEFINE d == <<>> \o m
<1> HIDE DEF d
<1>3. Long(d, 0 + n) /\ \A i \in 1..n : d[0 + i] = m[i]
  BY <1>2 DEF JoinOf, d
<1>4. 0 + n = n /\ \A i \in 1..n : 0 + i = i
  BY <1>1
<1>5. d = m
  BY <1>3, <1>4, SameLong
<1> QED BY <1>1, <1>5 DEF d

LEMMA JoinLong ==
    ASSUME NEW s, NEW n, Long(s, n), NEW t, NEW k, Long(t, k)
    PROVE  Long(s \o t, n + k)
<1>1. n \in Nat /\ k \in Nat
  BY DEF Long
<1>2. JoinOf(s \o t, s, n, t, k)
  BY <1>1, JoinIs
<1> QED BY <1>2 DEF JoinOf

LEMMA JoinsAssociate ==
    ASSUME NEW s, NEW n, Long(s, n), NEW t, NEW k, Long(t, k), NEW u, NEW l, Long(u, l)
    PROVE  (s \o t) \o u = s \o (t \o u)
<1> DEFINE S == {s[i] : i \in 1..n} \cup {t[i] : i \in 1..k} \cup {u[i] : i \in 1..l}
<1>1. s \in [1..n -> S] /\ t \in [1..k -> S] /\ u \in [1..l -> S] /\ n \in Nat /\ k \in Nat /\ l \in Nat
  BY DEF Long
<1> HIDE DEF S
<1>2. s \in Seq(S) /\ t \in Seq(S) /\ u \in Seq(S)
  BY <1>1
<1> QED BY <1>2, ConcatAssociative

LEMMA SmallCount ==
    ASSUME NEW c \in 0..Lane - 1
    PROVE  CountOf(c) = [low |-> c, high |-> 0]
<1>1. Lane \in Nat \ {0}
  BY BlockSizes
<1> HIDE DEF Lane
<1>2. c \div Lane = 0 /\ c % Lane = c /\ 0 % Lane = 0
  <2>1. ((0 * Lane) + c) \div Lane = 0 /\ ((0 * Lane) + c) % Lane = c
    BY <1>1, QuotientIs
  <2>2. ((0 * Lane) + 0) % Lane = 0
    BY <1>1, QuotientIs
  <2>3. (0 * Lane) + c = c /\ (0 * Lane) + 0 = 0
    BY <1>1
  <2> QED BY <2>1, <2>2, <2>3
<1> QED BY <1>2 DEF CountOf

\* The sizes that the codes and the generators add up.
LEMMA MacSizes ==
    /\ DigestLength \in Nat \ {0} /\ DigestLength <= BlockLength
    /\ 0 \in 0..Lane - 1 /\ 8 * BlockLength \in 0..Lane - 1 /\ 8 * (BlockLength + DigestLength + 1) \in 0..Lane - 1
    /\ 0 % (8 * BlockLength) = 0 /\ (8 * BlockLength) % (8 * BlockLength) = 0
<1> DEFINE m == 8 * BlockLength
<1>1. DigestLength \in Nat \ {0} /\ DigestLength <= BlockLength /\ m \in Nat \ {0}
  BY BlockSizes DEF DigestLength
<1>2. 8 * (BlockLength + DigestLength + 1) < Lane /\ Lane \in Nat /\ BlockLength \in Nat
  BY BlockSizes, MacAssumption
<1> HIDE DEF m, DigestLength, Lane
<1>3. 0 \in 0..Lane - 1 /\ m \in 0..Lane - 1 /\ 8 * (BlockLength + DigestLength + 1) \in 0..Lane - 1
  BY <1>1, <1>2 DEF m
<1>4. 0 % m = 0 /\ m % m = 0
  <2>1. ((0 * m) + 0) % m = 0 /\ ((1 * m) + 0) % m = 0
    BY <1>1, QuotientIs
  <2>2. (0 * m) + 0 = 0 /\ (1 * m) + 0 = m
    BY <1>1
  <2> QED BY <2>1, <2>2
<1> QED BY <1>1, <1>3, <1>4 DEF m

\* A context with nothing in it, and one that goes on behind a first block.
LEMMA FedFresh ==
    ASSUME NEW F, NEW state
    PROVE  /\ WasFed(F, state, 0, <<>>, 0, Sha256InitEx(state, [low |-> 0, high |-> 0]))
           /\ WasFed(F, state, 8 * BlockLength, <<>>, 0, Resumed(state, BlockLength))
<1>1. CountOf(0) = [low |-> 0, high |-> 0] /\ CountOf(8 * BlockLength) = [low |-> 8 * BlockLength, high |-> 0]
  BY MacSizes, SmallCount
<1>2. 8 * BlockLength \in Nat
  BY BlockSizes
<1> QED BY <1>1, <1>2, FedInit DEF Resumed

\* A context that goes on behind a block was fed with that block.
LEMMA FedBlock ==
    ASSUME NEW F, NEW init, NEW m, Long(m, BlockLength)
    PROVE  WasFed(F, init, 0, m, BlockLength, Resumed(Squeeze(F, init, LanesOf(m)), BlockLength))
<1> DEFINE h == Squeeze(F, init, LanesOf(m))
           ctx == Resumed(h, BlockLength)
<1>1. BlockLength \in Nat \ {0} /\ BlockLength \div BlockLength = 1 /\ BlockLength % BlockLength = 0
  <2>1. ((1 * BlockLength) + 0) \div BlockLength = 1 /\ ((1 * BlockLength) + 0) % BlockLength = 0
    BY BlockSizes, QuotientIs
  <2>2. (1 * BlockLength) + 0 = BlockLength
    BY BlockSizes
  <2> QED BY <2>1, <2>2, BlockSizes
<1>2. ctx = [state |-> h, buffer |-> Zeros(BlockLength), count |-> [low |-> 8 * BlockLength, high |-> 0]]
  BY DEF Sha256InitEx, Resumed
<1>3. CountOf(8 * BlockLength + 0) = [low |-> 8 * BlockLength, high |-> 0]
  <2>1. 8 * BlockLength + 0 = 8 * BlockLength
    BY <1>1
  <2> QED BY <2>1, MacSizes, SmallCount
<1>4. Long(Zeros(BlockLength), BlockLength)
  BY <1>1, ZerosLong
<1>5. Chained("lanes", F, init, BlocksOf(m), 1) = h
  <2>1. Chained("lanes", F, init, BlocksOf(m), 0 + 1) = Squeeze(F, init, BlocksOf(m)[0 + 1])
    <3>1. 0 \in Nat
      OBVIOUS
    <3> DEFINE B == BlocksOf(m)
    <3> HIDE DEF B
    <3>2. Chained("lanes", F, init, B, 0) = init
      BY ChainedNone
    <3>3. Chained("lanes", F, init, B, 0 + 1) = Turned("lanes", F, Chained("lanes", F, init, B, 0), B[0 + 1])
      BY <3>1, ChainedOnce
    <3> QED BY <3>2, <3>3, TurnedIs DEF B
  <2>2. BlocksOf(m)[1] = WordsOf(m, 0)
    <3>1. BlockLength * (1 - 1) = 0
      BY <1>1
    <3> QED BY <3>1 DEF BlocksOf
  <2>3. LanesOf(m) = WordsOf(m, 0)
    BY HostWordsAre DEF LanesOf
  <2>4. 0 + 1 = 1
    OBVIOUS
  <2> QED BY <2>1, <2>2, <2>3, <2>4
<1> HIDE DEF ctx, h
<1>6. HasTaken(F, init, 0, BlocksOf(m), 1, BlockLength, ctx)
  BY <1>2, <1>3, <1>4, <1>5 DEF HasTaken
<1>7. WasFed(F, init, 0, m, BlockLength, ctx)
  BY <1>1, <1>6 DEF WasFed
<1> QED BY <1>7 DEF ctx, h

\* Any context, fed once more or twice more, and finished.
LEMMA FedToEnd ==
    ASSUME NEW F, NEW init, NEW before \in Nat, before % (8 * BlockLength) = 0,
           NEW p, NEW n, Long(p, n), NEW ctx, WasFed(F, init, before, p, n, ctx),
           NEW m, NEW k, Long(m, k), NEW lanes \in Nat
    PROVE  ShaFinal(F, ShaUpdate(F, ctx, m), lanes) = ShaOf(F, init, p \o m, before, lanes)
<1>1. WasFed(F, init, before, p \o m, n + k, ShaUpdate(F, ctx, m)) /\ Long(p \o m, n + k) /\ n + k \in Nat
  <2>1. Long(p \o m, n + k) /\ n + k \in Nat
    BY JoinLong DEF Long
  <2> QED BY <2>1, FedOnward
<1> QED BY <1>1, FedFinal

LEMMA FedTwiceToEnd ==
    ASSUME NEW F, NEW init, NEW before \in Nat, before % (8 * BlockLength) = 0,
           NEW p, NEW n, Long(p, n), NEW ctx, WasFed(F, init, before, p, n, ctx),
           NEW m, NEW k, Long(m, k), NEW more, NEW l, Long(more, l), NEW lanes \in Nat
    PROVE  ShaFinal(F, ShaUpdate(F, ShaUpdate(F, ctx, m), more), lanes) = ShaOf(F, init, p \o (m \o more), before, lanes)
<1> DEFINE c == ShaUpdate(F, ctx, m)
           d == p \o m
           e == n + k
<1>1. Long(d, e)
  BY JoinLong
<1>2. WasFed(F, init, before, d, e, c)
  BY FedOnward
<1>3. d \o more = p \o (m \o more)
  BY JoinsAssociate
<1> HIDE DEF c, d, e
<1>4. ShaFinal(F, ShaUpdate(F, c, more), lanes) = ShaOf(F, init, d \o more, before, lanes)
  BY <1>1, <1>2, FedToEnd
<1> QED BY <1>3, <1>4 DEF c

LEMMA DigestLong ==
    ASSUME NEW F, NEW init, NEW m, NEW before, NEW n \in Nat
    PROVE  Long(ShaOf(F, init, m, before, n), LaneBytes * n)
<1>1. LaneBytes * n \in Nat
  BY BlockSizes
<1> QED BY <1>1 DEF ShaOf, BigEndian, Long

\* A context with nothing in it, fed once.
LEMMA FreshToEnd ==
    ASSUME NEW F, NEW state, NEW before \in Nat, before % (8 * BlockLength) = 0,
           NEW ctx, WasFed(F, state, before, <<>>, 0, ctx), NEW m, NEW n, Long(m, n), NEW lanes \in Nat
    PROVE  ShaFinal(F, ShaUpdate(F, ctx, m), lanes) = ShaOf(F, state, m, before, lanes)
<1> DEFINE p == <<>>
           z == 0
<1>1. WasFed(F, state, before, p, z, ctx) /\ Long(p, z)
  BY EmptyLong
<1> HIDE DEF p, z
<1>2. ShaFinal(F, ShaUpdate(F, ctx, m), lanes) = ShaOf(F, state, p \o m, before, lanes)
  BY <1>1, FedToEnd
<1>3. p \o m = m
  BY EmptyLong DEF p
<1> QED BY <1>2, <1>3

\* A message at once.
LEMMA RawIs ==
    ASSUME NEW F, NEW state, NEW m, NEW n, Long(m, n), NEW lanes \in Nat
    PROVE  ShaRaw(F, Sha256InitEx(state, [low |-> 0, high |-> 0]), m, lanes) = ShaOf(F, state, m, 0, lanes)
<1> DEFINE ctx == Sha256InitEx(state, [low |-> 0, high |-> 0])
           none == 0
<1>1. WasFed(F, state, none, <<>>, 0, ctx) /\ none \in Nat /\ none % (8 * BlockLength) = 0
  BY FedFresh, MacSizes
<1> HIDE DEF ctx, none
<1>2. ShaFinal(F, ShaUpdate(F, ctx, m), lanes) = ShaOf(F, state, m, none, lanes)
  BY <1>1, FreshToEnd
<1> QED BY <1>2 DEF ShaRaw, ctx, none

-----------------------------------------------------------------------------
(* hasher.c.                                                               *)

HasherTypes == Sha2Types \cup Sha3Types \cup {"BLAKE", "BLAKED", "BLAKE_RIPEMD"}

HasherOf(type, param, ctx) == [type |-> type, param |-> param, ctx |-> ctx]

\* What a type starts from, and how it takes data.
StartOf(type, param, midstate) ==
    IF type = "SHA2_TAPSIGHASH" THEN Resumed(midstate, BlockLength)
    ELSE IF type \in Sha2Types THEN Sha256Init
    ELSE IF type \in Sha3Types THEN Sha3_256_Init
    ELSE [of |-> type, param |-> param, data |-> <<>>]

UpdateOf(F, P, type, ctx, data) ==
    IF type \in Sha2Types THEN ShaUpdate(F, ctx, data)
    ELSE IF type \in Sha3Types THEN Sha3Update(P, ctx, data)
    ELSE Appended(ctx, data)

LEMMA HasherSteps ==
    ASSUME NEW F, NEW P, NEW type \in HasherTypes, NEW param, NEW midstate, NEW ctx, NEW data
    PROVE  /\ HasherInitParam(type, param, midstate) = HasherOf(type, param, StartOf(type, param, midstate))
           /\ HasherReset(HasherOf(type, param, ctx), midstate) = HasherOf(type, param, StartOf(type, param, midstate))
           /\ HasherUpdate(F, P, HasherOf(type, param, ctx), data) = HasherOf(type, param, UpdateOf(F, P, type, ctx, data))
<1>1. HasherInitParam(type, param, midstate) = HasherOf(type, param, StartOf(type, param, midstate))
  <2>1. CASE type = "SHA2_TAPSIGHASH"
    BY <2>1 DEF HasherInitParam, HasherOf, StartOf, Sha2Types, Sha3Types
  <2>2. CASE type \in Sha2Types \ {"SHA2_TAPSIGHASH"}
    BY <2>2 DEF HasherInitParam, HasherOf, StartOf, Sha2Types, Sha3Types
  <2>3. CASE type \in Sha3Types
    BY <2>3 DEF HasherInitParam, HasherOf, StartOf, Sha2Types, Sha3Types
  <2>4. CASE type \in {"BLAKE", "BLAKED", "BLAKE_RIPEMD"}
    BY <2>4 DEF HasherInitParam, HasherOf, StartOf, Sha2Types, Sha3Types
  <2> QED BY <2>1, <2>2, <2>3, <2>4 DEF HasherTypes
<1> DEFINE h == HasherOf(type, param, ctx)
<1>2. h.type = type /\ h.param = param /\ h.ctx = ctx /\ h = [type |-> type, param |-> param, ctx |-> ctx]
  BY DEF HasherOf
<1>3. HasherReset(h, midstate) = HasherInitParam(type, param, midstate)
  BY <1>2 DEF HasherReset
<1> DEFINE x == UpdateOf(F, P, type, ctx, data)
<1>4. HasherUpdate(F, P, h, data) = [h EXCEPT !.ctx = x]
  <2> DEFINE y == CASE h.type \in Sha2Types -> ShaUpdate(F, h.ctx, data)
                    [] h.type \in Sha3Types -> Sha3Update(P, h.ctx, data)
                    [] OTHER -> Appended(h.ctx, data)
  <2>1. HasherUpdate(F, P, h, data) = [h EXCEPT !.ctx = y]
    BY DEF HasherUpdate
  <2>2. Sha2Types \cap Sha3Types = {}
    BY DEF Sha2Types, Sha3Types
  <2> HIDE DEF h
  <2>3. y = x
    BY <1>2, <2>2 DEF UpdateOf
  <2> HIDE DEF x, y
  <2> QED BY <2>1, <2>3
<1> HIDE DEF x
<1>5. [h EXCEPT !.ctx = x] = HasherOf(type, param, x)
  BY <1>2 DEF HasherOf
<1> HIDE DEF h
<1> QED BY <1>1, <1>3, <1>4, <1>5 DEF h, x

\* What the digest of a SHA-2 or SHA-3 type makes of its context.
LEMMA HasherEnds ==
    ASSUME NEW F, NEW P, NEW type \in HasherTypes, NEW param, NEW ctx
    PROVE  LET digest == ShaFinal(F, ctx, 8)
               end == HasherFinal(F, P, HasherOf(type, param, ctx))
           IN /\ type \in {"SHA2", "SHA2_TAPSIGHASH"} => end = digest
              /\ type = "SHA2D" => end = ShaRaw(F, Sha256Init, digest, 8)
              /\ type = "SHA2_RIPEMD" => end = [of |-> "ripemd160", data |-> digest]
              /\ type = "SHA3" => end = Sha3Final(P, ctx)
              /\ type = "SHA3K" => end = KeccakFinal(P, ctx)
<1> DEFINE h == HasherOf(type, param, ctx)
<1>1. h.type = type /\ h.ctx = ctx
  BY DEF HasherOf
<1> HIDE DEF h
<1> QED BY <1>1 DEF HasherFinal, h

\* What the SHA-2 types are digests of: the state they start from, and the bits
\* counted before.
BaseOf(type, midstate) == IF type = "SHA2_TAPSIGHASH" THEN midstate ELSE InitialState(Sha256)
BeforeOf(type) == IF type = "SHA2_TAPSIGHASH" THEN 8 * BlockLength ELSE 0

LEMMA Sha2Hasher ==
    ASSUME NEW F, NEW type \in Sha2Types, NEW param, NEW midstate,
           NEW m, NEW n, Long(m, n), NEW more, NEW k, Long(more, k)
    PROVE  LET start == StartOf(type, param, midstate)
               right == ShaOf(F, BaseOf(type, midstate), m \o more, BeforeOf(type), 8)
           IN /\ ShaFinal(F, ShaUpdate(F, start, m \o more), 8) = right
              /\ ShaFinal(F, ShaUpdate(F, ShaUpdate(F, start, m), more), 8) = right
<1> DEFINE start == StartOf(type, param, midstate)
           base == BaseOf(type, midstate)
           before == BeforeOf(type)
           p == <<>>
           z == 0
           d == m \o more
           l == n + k
<1>1. before \in Nat /\ before % (8 * BlockLength) = 0
  BY MacSizes DEF BeforeOf
<1>2. WasFed(F, base, before, p, z, start)
  <2>1. CASE type = "SHA2_TAPSIGHASH"
    BY <2>1, FedFresh DEF StartOf, BaseOf, BeforeOf
  <2>2. CASE type # "SHA2_TAPSIGHASH"
    BY <2>2, FedFresh DEF StartOf, BaseOf, BeforeOf, Sha256Init
  <2> QED BY <2>1, <2>2
<1>3. Long(p, z) /\ Long(d, l) /\ p \o d = d
  <2>1. Long(d, l)
    BY JoinLong
  <2> HIDE DEF d, l
  <2> QED BY <2>1, EmptyLong
<1> HIDE DEF start, base, before, p, z, d, l
<1>4. ShaFinal(F, ShaUpdate(F, start, d), 8) = ShaOf(F, base, p \o d, before, 8)
  <2>1. ShaFinal(F, ShaUpdate(F, start, d), 8) = ShaOf(F, base, d, before, 8)
    BY <1>1, <1>2, <1>3, FreshToEnd DEF p, z
  <2> QED BY <1>3, <2>1
<1>5. ShaFinal(F, ShaUpdate(F, ShaUpdate(F, start, m), more), 8) = ShaOf(F, base, p \o (m \o more), before, 8)
  BY <1>1, <1>2, <1>3, 8 \in Nat, FedTwiceToEnd
<1>6. p \o (m \o more) = d
  BY <1>3 DEF d
<1> QED BY <1>3, <1>4, <1>5, <1>6 DEF start, base, before, d

LEMMA Sha3Hasher ==
    ASSUME NEW P, NEW m, NEW n, Long(m, n), NEW more, NEW k, Long(more, k), NEW domain \in Nat
    PROVE  LET right == SpongeOf(P, Sha3_256_Init, m \o more, domain)
           IN /\ Finished(P, Sha3Update(P, Sha3_256_Init, m \o more), domain) = right
              /\ Finished(P, Sha3Update(P, Sha3Update(P, Sha3_256_Init, m), more), domain) = right
<1> DEFINE init == Sha3_256_Init
           size == init.size
           p == <<>>
           z == 0
           d == m \o more
           l == n + k
           once == Sha3Update(P, init, m)
           twice == Sha3Update(P, once, more)
           whole == Sha3Update(P, init, d)
<1>1. RightSize(size) /\ WasSoaked(P, size, p, z, init) /\ z \in Nat
  BY SoakedInit DEF Sha3_256_Init
<1>2. /\ Long(p, z) /\ Long(d, l) /\ p \o d = d /\ p \o m = m /\ n \in Nat /\ k \in Nat /\ l \in Nat
      /\ z + n = n /\ z + l = l
  <2>1. Long(d, l) /\ n \in Nat /\ k \in Nat /\ l \in Nat
    BY JoinLong DEF Long
  <2> HIDE DEF d
  <2> QED BY <2>1, EmptyLong
<1> HIDE DEF p, z, size, l, d, init
<1>3. WasSoaked(P, size, p \o m, z + n, once) /\ WasSoaked(P, size, p \o d, z + l, whole)
  BY <1>1, <1>2, SoakedOnward
<1> HIDE DEF once, whole
<1>4. WasSoaked(P, size, m \o more, n + k, twice)
  <2>1. WasSoaked(P, size, m, n, once)
    BY <1>2, <1>3
  <2> QED BY <1>1, <1>2, <2>1, SoakedOnward
<1> HIDE DEF twice
<1>5. Finished(P, whole, domain) = SpongeOf(P, init, d, domain)
  BY <1>1, <1>2, <1>3, SoakedFinal DEF size
<1>6. WasSoaked(P, size, d, l, twice)
  BY <1>4 DEF d, l
<1>7. Finished(P, twice, domain) = SpongeOf(P, init, d, domain)
  BY <1>1, <1>2, <1>6, SoakedFinal DEF size
<1> QED BY <1>5, <1>7 DEF whole, twice, once, d, init

LEMMA OtherHasher ==
    ASSUME NEW type, NEW param, NEW m, NEW n, Long(m, n), NEW more, NEW k, Long(more, k)
    PROVE  LET start == [of |-> type, param |-> param, data |-> <<>>]
           IN Appended(Appended(start, m), more) = Appended(start, m \o more)
<1> DEFINE start == [of |-> type, param |-> param, data |-> <<>>]
<1>1. ASSUME NEW x, NEW y
      PROVE  Appended([of |-> type, param |-> param, data |-> x], y) = [of |-> type, param |-> param, data |-> x \o y]
  <2> DEFINE r == [of |-> type, param |-> param, data |-> x]
             z == x \o y
             t == [of |-> type, param |-> param, data |-> z]
  <2>1. r.data = x /\ r.data \o y = z
    OBVIOUS
  <2>2. Appended(r, y) = [r EXCEPT !.data = r.data \o y]
    BY DEF Appended
  <2> HIDE DEF z
  <2>3. [r EXCEPT !.data = z] = t
    OBVIOUS
  <2> HIDE DEF r, t
  <2>4. Appended(r, y) = t
    BY <2>1, <2>2, <2>3
  <2> QED BY <2>4 DEF r, t, z
<1>2. (<<>> \o m) \o more = <<>> \o (m \o more)
  <2>1. Long(<<>>, 0)
    BY EmptyLong
  <2> DEFINE p == <<>>
  <2> HIDE DEF p
  <2> QED BY <2>1, JoinsAssociate DEF p
<1>3. Appended(Appended(start, m), more) = [of |-> type, param |-> param, data |-> (<<>> \o m) \o more]
  BY <1>1
<1>4. Appended(start, m \o more) = [of |-> type, param |-> param, data |-> <<>> \o (m \o more)]
  BY <1>1
<1> HIDE DEF start
<1>5. Appended(Appended(start, m), more) = Appended(start, m \o more)
  BY <1>2, <1>3, <1>4
<1> QED BY <1>5 DEF start

\* A hasher that is reset forgets what it was fed with.
LEMMA HasherAgain ==
    ASSUME NEW F, NEW P, NEW type \in HasherTypes, NEW midstate,
           NEW m, NEW n, Long(m, n), NEW more, NEW k, Long(more, k)
    PROVE  LET Fed(h, data) == HasherUpdate(F, P, h, data)
               used == Fed(HasherInitParam(type, <<>>, midstate), more)
               again == HasherFinal(F, P, Fed(Fed(HasherReset(used, midstate), m), more))
           IN /\ again = HasherRaw(F, P, type, midstate, m \o more)
              /\ type = "SHA2D" => again = ShaOf(F, InitialState(Sha256), ShaOf(F, InitialState(Sha256), m \o more, 0, 8), 0, 8)
              /\ type = "SHA2_TAPSIGHASH" => again = ShaOf(F, midstate, m \o more, 8 * BlockLength, 8)
              /\ type = "SHA3K" => again = SpongeOf(P, Sha3_256_Init, m \o more, 1)
<1> DEFINE Fed(h, data) == HasherUpdate(F, P, h, data)
           used == Fed(HasherInitParam(type, <<>>, midstate), more)
           again == HasherFinal(F, P, Fed(Fed(HasherReset(used, midstate), m), more))
           raw == HasherRaw(F, P, type, midstate, m \o more)
           start == StartOf(type, <<>>, midstate)
           part == UpdateOf(F, P, type, start, m)
           twice == UpdateOf(F, P, type, part, more)
           once == UpdateOf(F, P, type, start, m \o more)
           H(c) == HasherOf(type, <<>>, c)
           Ended(c) == HasherFinal(F, P, H(c))
           right == ShaOf(F, BaseOf(type, midstate), m \o more, BeforeOf(type), 8)
<1>1. again = Ended(twice)
  <2>1. HasherInitParam(type, <<>>, midstate) = H(start)
    BY HasherSteps
  <2> DEFINE c == UpdateOf(F, P, type, start, more)
  <2> HIDE DEF start
  <2>2. Fed(H(start), more) = H(c)
    BY HasherSteps
  <2> HIDE DEF c
  <2>3. HasherReset(H(c), midstate) = H(start)
    BY HasherSteps DEF start
  <2>4. Fed(H(start), m) = H(part)
    BY HasherSteps
  <2> HIDE DEF part
  <2>5. Fed(H(part), more) = H(twice)
    BY HasherSteps
  <2> HIDE DEF H, twice, Fed
  <2> QED BY <2>1, <2>2, <2>3, <2>4, <2>5
<1>2. raw = Ended(once)
  <2> DEFINE d == m \o more
  <2>1. HasherInitParam(type, <<>>, midstate) = H(start)
    BY HasherSteps
  <2> HIDE DEF start, d
  <2>2. HasherUpdate(F, P, H(start), d) = H(UpdateOf(F, P, type, start, d))
    BY HasherSteps
  <2> HIDE DEF H
  <2> QED BY <2>1, <2>2 DEF HasherRaw, d
<1>3. ASSUME type \in Sha2Types
      PROVE  ShaFinal(F, once, 8) = right /\ ShaFinal(F, twice, 8) = right
  <2>1. twice = ShaUpdate(F, ShaUpdate(F, start, m), more) /\ once = ShaUpdate(F, start, m \o more)
    BY <1>3 DEF UpdateOf
  <2> HIDE DEF twice, once
  <2> QED BY <1>3, <2>1, Sha2Hasher
<1>4. ASSUME type \in Sha3Types, NEW domain \in Nat
      PROVE  /\ Finished(P, once, domain) = SpongeOf(P, Sha3_256_Init, m \o more, domain)
             /\ Finished(P, twice, domain) = SpongeOf(P, Sha3_256_Init, m \o more, domain)
  <2>1. start = Sha3_256_Init /\ type \notin Sha2Types
    BY <1>4 DEF StartOf, Sha2Types, Sha3Types
  <2> HIDE DEF start
  <2>2. twice = Sha3Update(P, Sha3Update(P, start, m), more) /\ once = Sha3Update(P, start, m \o more)
    BY <1>4, <2>1 DEF UpdateOf
  <2> HIDE DEF twice, once
  <2> QED BY <2>1, <2>2, Sha3Hasher
<1>5. ASSUME type \in {"BLAKE", "BLAKED", "BLAKE_RIPEMD"} PROVE once = twice
  <2>1. /\ start = [of |-> type, param |-> <<>>, data |-> <<>>]
        /\ type \notin Sha2Types /\ type \notin Sha3Types
    BY <1>5 DEF StartOf, Sha2Types, Sha3Types
  <2> HIDE DEF start
  <2>2. twice = Appended(Appended(start, m), more) /\ once = Appended(start, m \o more)
    BY <2>1 DEF UpdateOf
  <2> HIDE DEF twice, once
  <2> QED BY <2>1, <2>2, OtherHasher
<1> HIDE DEF once, twice, start, part, right, again, raw
<1>6. ASSUME NEW c
      PROVE  LET digest == ShaFinal(F, c, 8)
             IN /\ type \in {"SHA2", "SHA2_TAPSIGHASH"} => Ended(c) = digest
                /\ type = "SHA2D" => Ended(c) = ShaRaw(F, Sha256Init, digest, 8)
                /\ type = "SHA2_RIPEMD" => Ended(c) = [of |-> "ripemd160", data |-> digest]
                /\ type = "SHA3" => Ended(c) = Finished(P, c, 6)
                /\ type = "SHA3K" => Ended(c) = Finished(P, c, 1)
  BY HasherEnds DEF Sha3Final, KeccakFinal
<1> HIDE DEF Ended
<1>7. CASE type \in Sha2Types
  <2>1. again = raw
    BY <1>1, <1>2, <1>3, <1>6, <1>7 DEF Sha2Types
  <2>2. ASSUME type = "SHA2D"
        PROVE  again = ShaOf(F, InitialState(Sha256), ShaOf(F, InitialState(Sha256), m \o more, 0, 8), 0, 8)
    <3>1. right = ShaOf(F, InitialState(Sha256), m \o more, 0, 8)
      BY <2>2 DEF right, BaseOf, BeforeOf
    <3>2. again = ShaRaw(F, Sha256Init, right, 8)
      BY <1>1, <1>3, <1>6, <1>7, <2>2
    <3>3. Long(right, LaneBytes * 8)
      BY <3>1, DigestLong
    <3>4. ShaRaw(F, Sha256Init, right, 8) = ShaOf(F, InitialState(Sha256), right, 0, 8)
      BY <3>3, RawIs DEF Sha256Init
    <3> QED BY <3>1, <3>2, <3>4
  <2>3. ASSUME type = "SHA2_TAPSIGHASH" PROVE again = ShaOf(F, midstate, m \o more, 8 * BlockLength, 8)
    <3>1. right = ShaOf(F, midstate, m \o more, 8 * BlockLength, 8)
      BY <2>3 DEF right, BaseOf, BeforeOf
    <3> QED BY <1>1, <1>3, <1>6, <1>7, <2>3, <3>1
  <2>4. type # "SHA3K"
    BY <1>7 DEF Sha2Types
  <2> QED BY <2>1, <2>2, <2>3, <2>4 DEF again, raw
<1>8. CASE type \in Sha3Types
  <2>1. again = raw
    BY <1>1, <1>2, <1>4, <1>6, <1>8 DEF Sha3Types
  <2>2. ASSUME type = "SHA3K" PROVE again = SpongeOf(P, Sha3_256_Init, m \o more, 1)
    BY <1>1, <1>4, <1>6, <1>8, <2>2
  <2>3. type \notin {"SHA2D", "SHA2_TAPSIGHASH"}
    BY <1>8 DEF Sha3Types
  <2> QED BY <2>1, <2>2, <2>3 DEF again, raw
<1>9. CASE type \in {"BLAKE", "BLAKED", "BLAKE_RIPEMD"}
  BY <1>1, <1>2, <1>5, <1>9 DEF again, raw
<1> QED BY <1>7, <1>8, <1>9 DEF HasherTypes

\* To go on behind a block is to have hashed it.
LEMMA BehindBlock ==
    ASSUME NEW F, NEW init, NEW p, Long(p, BlockLength), NEW d, NEW n, Long(d, n), NEW lanes \in Nat
    PROVE  /\ ShaOf(F, Squeeze(F, init, LanesOf(p)), d, 8 * BlockLength, lanes) = ShaOf(F, init, p \o d, 0, lanes)
           /\ ShaFinal(F, ShaUpdate(F, Resumed(Squeeze(F, init, LanesOf(p)), BlockLength), d), lanes)
                = ShaOf(F, init, p \o d, 0, lanes)
<1> DEFINE h == Squeeze(F, init, LanesOf(p))
           ctx == Resumed(h, BlockLength)
           none == 0
           bits == 8 * BlockLength
           l == BlockLength
<1>1. /\ none \in Nat /\ none % (8 * BlockLength) = 0 /\ bits \in Nat /\ bits % (8 * BlockLength) = 0
  BY MacSizes, BlockSizes
<1>2. WasFed(F, init, none, p, l, ctx) /\ Long(p, l)
  BY FedBlock
<1>3. WasFed(F, h, bits, <<>>, 0, ctx)
  BY FedFresh
<1> HIDE DEF h, ctx, none, bits, l
<1>4. ShaFinal(F, ShaUpdate(F, ctx, d), lanes) = ShaOf(F, h, d, bits, lanes)
  BY <1>1, <1>3, FreshToEnd
<1>5. ShaFinal(F, ShaUpdate(F, ctx, d), lanes) = ShaOf(F, init, p \o d, none, lanes)
  BY <1>1, <1>2, FedToEnd
<1> QED BY <1>4, <1>5 DEF ctx, h, bits, none

-----------------------------------------------------------------------------
(* Loops of loops.  What TLC nests is a chain too, however long it is.       *)

After(B, a) == [i \in Nat |-> B[a + i]]

LEMMA ChainSplit ==
    ASSUME NEW how, NEW F, NEW s0, NEW B, NEW a \in Nat, NEW b \in Nat
    PROVE  Chained(how, F, Chained(how, F, s0, B, a), After(B, a), b) = Chained(how, F, s0, B, a + b)
<1> DEFINE s1 == Chained(how, F, s0, B, a)
           C == After(B, a)
           T == {k \in Nat : Chained(how, F, s1, C, k) = Chained(how, F, s0, B, a + k)}
<1>1. 0 \in T
  <2>1. Chained(how, F, s1, C, 0) = s1 /\ a + 0 = a
    BY ChainedNone
  <2> QED BY <2>1
<1>2. ASSUME NEW k \in Nat, k \in T PROVE k + 1 \in T
  <2>1. C[k + 1] = B[a + (k + 1)] /\ a + (k + 1) = (a + k) + 1 /\ a + k \in Nat
    BY DEF After
  <2> HIDE DEF C, s1
  <2>2. Chained(how, F, s1, C, k + 1) = Turned(how, F, Chained(how, F, s1, C, k), C[k + 1])
    BY ChainedOnce
  <2> DEFINE ak == a + k
  <2>3. ak \in Nat
    BY <2>1
  <2> HIDE DEF ak
  <2>4. Chained(how, F, s0, B, ak + 1) = Turned(how, F, Chained(how, F, s0, B, ak), B[ak + 1])
    BY <2>3, ChainedOnce
  <2>5. Chained(how, F, s1, C, k) = Chained(how, F, s0, B, ak)
    BY <1>2 DEF ak
  <2>6. C[k + 1] = B[ak + 1] /\ a + (k + 1) = ak + 1
    BY <2>1 DEF ak
  <2> QED BY <2>2, <2>4, <2>5, <2>6
<1> HIDE DEF T
<1>3. b \in T
  BY <1>1, <1>2, Induction
<1> QED BY <1>3 DEF T

\* The turn t of the outer loop over n turns, `size` at a time, and all of it.
Stint(size, n, t) == IF size * t <= n THEN size ELSE n - size * (t - 1)

Turns(how, F, B, size, n, s, t) == Chained(how, F, s, After(B, size * (t - 1)), Stint(size, n, t))

Outer(f, how, F, s0, B, size, n, m) ==
    f = [t \in 0..m |-> IF t = 0 THEN s0 ELSE Turns(how, F, B, size, n, f[t - 1], t)]

OuterEnd(how, F, s0, B, size, n, m) == (CHOOSE f : Outer(f, how, F, s0, B, size, n, m))[m]

LEMMA OuterIs ==
    ASSUME NEW how, NEW F, NEW s0, NEW B, NEW size \in {6, 12, 48}, NEW n \in Nat, NEW m \in Nat,
           m = (n + size - 1) \div size
    PROVE  OuterEnd(how, F, s0, B, size, n, m) = Chained(how, F, s0, B, n)
<1> DEFINE At(t) == IF size * t <= n THEN size * t ELSE n
           g == [t \in 0..m |-> Chained(how, F, s0, B, At(t))]
<1>1. At(0) = 0 /\ At(m) = n /\ 0 \in 0..m /\ m \in 0..m
  OBVIOUS
<1>2. ASSUME NEW t \in 0..m, t # 0
      PROVE  At(t - 1) = size * (t - 1) /\ Stint(size, n, t) \in Nat /\ At(t) = At(t - 1) + Stint(size, n, t) /\ At(t - 1) \in Nat /\ t - 1 \in 0..m
  BY <1>2 DEF Stint
<1> HIDE DEF At
<1>3. ASSUME NEW t \in 0..m, t # 0 PROVE g[t] = Turns(how, F, B, size, n, g[t - 1], t)
  <2> DEFINE a == At(t - 1)
             b == Stint(size, n, t)
  <2>1. a \in Nat /\ b \in Nat /\ size * (t - 1) = a /\ At(t) = a + b /\ t - 1 \in 0..m
    BY <1>2, <1>3
  <2>2. g[t - 1] = Chained(how, F, s0, B, a) /\ g[t] = Chained(how, F, s0, B, At(t))
    BY <2>1
  <2> HIDE DEF a, b, g
  <2>3. Turns(how, F, B, size, n, g[t - 1], t) = Chained(how, F, Chained(how, F, s0, B, a), After(B, a), b)
    BY <2>1, <2>2 DEF Turns, b
  <2> QED BY <2>1, <2>2, <2>3, ChainSplit
<1>4. g[0] = s0
  BY <1>1, ChainedNone
<1>5. \E f : Outer(f, how, F, s0, B, size, n, m)
  <2>1. g = [t \in 0..m |-> g[t]]
    OBVIOUS
  <2>2. ASSUME NEW t \in 0..m PROVE g[t] = IF t = 0 THEN s0 ELSE Turns(how, F, B, size, n, g[t - 1], t)
    BY <1>3, <1>4
  <2> HIDE DEF g
  <2>3. Outer(g, how, F, s0, B, size, n, m)
    BY <2>1, <2>2 DEF Outer
  <2> QED BY <2>3
<1> DEFINE f == CHOOSE f : Outer(f, how, F, s0, B, size, n, m)
<1>6. Outer(f, how, F, s0, B, size, n, m)
  BY <1>5
<1> HIDE DEF f
<1>7. \A t \in 0..m : f[t] = IF t = 0 THEN s0 ELSE Turns(how, F, B, size, n, f[t - 1], t)
  BY <1>6 DEF Outer
<1> DEFINE T == {k \in Nat : k <= m => f[k] = g[k]}
<1> HIDE DEF g
<1>8. 0 \in T
  BY <1>1, <1>4, <1>7
<1>9. ASSUME NEW k \in Nat, k \in T PROVE k + 1 \in T
  <2>1. SUFFICES ASSUME k + 1 <= m PROVE f[k + 1] = g[k + 1]
    OBVIOUS
  <2> DEFINE t == k + 1
  <2>2. t \in 0..m /\ t # 0 /\ t - 1 = k
    BY <2>1
  <2>3. f[k] = g[k]
    BY <1>9, <2>1
  <2> HIDE DEF t
  <2>4. f[t] = Turns(how, F, B, size, n, f[t - 1], t) /\ g[t] = Turns(how, F, B, size, n, g[t - 1], t)
    BY <1>3, <1>7, <2>2
  <2>5. f[t - 1] = g[t - 1]
    BY <2>2, <2>3
  <2> QED BY <2>4, <2>5 DEF t
<1> HIDE DEF T
<1>10. m \in T
  BY <1>8, <1>9, Induction
<1>11. f[m] = g[m]
  BY <1>10 DEF T
<1> QED BY <1>1, <1>11 DEF f, g, OuterEnd

\* Numbers and their digits.
LEMMA NumberChained ==
    ASSUME NEW ds, NEW base, NEW n \in Nat, Len(ds) = n
    PROVE  Number(ds, base) = Chained("number", base, 0, ds, n)
<1> DEFINE Step(s, i) == s * base + ds[i]
           l == Len(ds)
           size == IF l <= 36 THEN 6 ELSE IF l <= 144 THEN 12 ELSE 48
           m == (l + size - 1) \div size
           V(s, from, k, f) == f = [i \in 0..k |-> IF i = 0 THEN s ELSE CHOOSE r \in {Step(u, from + i) : u \in {f[i - 1]}} : TRUE]
           Inner(s, from, k) == (CHOOSE f : V(s, from, k, f))[k]
           Turn(s, t) == Inner(s, size * (t - 1), IF size * t <= l THEN size ELSE l - size * (t - 1))
           W(f) == f = [t \in 0..m |-> IF t = 0 THEN 0 ELSE CHOOSE r \in {Turn(s, 0 + t) : s \in {f[t - 1]}} : TRUE]
<1>1. Number(ds, base) = (CHOOSE f : W(f))[m]
  BY DEF Number, Iterate, Loop
<1>2. l = n /\ l \in Nat
  OBVIOUS
<1>3. size \in {6, 12, 48}
  OBVIOUS
<1>4. ASSUME NEW s, NEW i PROVE Step(s, i) = Turned("number", base, s, ds[i])
  BY TurnedIs DEF DigitTaken
<1> HIDE DEF Step, l, size
<1>5. ASSUME NEW s, NEW from \in Nat, NEW k \in Nat
      PROVE  Inner(s, from, k) = Chained("number", base, s, After(ds, from), k)
  <2> DEFINE C == After(ds, from)
  <2>1. ASSUME NEW i \in 1..k PROVE C[i] = ds[from + i]
    BY DEF After
  <2> HIDE DEF C
  <2>2. ASSUME NEW f PROVE V(s, from, k, f) <=> Chain(f, "number", base, s, C, k)
    <3>1. ASSUME NEW i \in 1..k
          PROVE  (CHOOSE r \in {Step(u, from + i) : u \in {f[i - 1]}} : TRUE) = Turned("number", base, f[i - 1], C[i])
      <4>1. (CHOOSE r \in {Step(u, from + i) : u \in {f[i - 1]}} : TRUE) = Step(f[i - 1], from + i)
        OBVIOUS
      <4> QED BY <1>4, <2>1, <4>1
    <3> QED BY <3>1 DEF Chain
  <2> HIDE DEF V
  <2>3. (CHOOSE f : V(s, from, k, f)) = CHOOSE f : Chain(f, "number", base, s, C, k)
    BY <2>2
  <2> QED BY <2>3 DEF Chained, C
<1> HIDE DEF Inner
<1>6. m \in Nat
  BY <1>2, <1>3
<1>7. ASSUME NEW s, NEW t \in 1..m PROVE Turn(s, t) = Turns("number", base, ds, size, l, s, t)
  <2> DEFINE k == Stint(size, l, t)
             from == size * (t - 1)
  <2>1. k \in Nat /\ from \in Nat /\ Turn(s, t) = Inner(s, from, k)
    <3> USE <1>3
    <3> QED BY <1>2, <1>6 DEF Stint
  <2> HIDE DEF k, from
  <2> QED BY <1>5, <2>1 DEF Turns, from, k
<1> HIDE DEF Turn
<1>8. ASSUME NEW f PROVE W(f) <=> Outer(f, "number", base, 0, ds, size, l, m)
  <2> HIDE DEF m
  <2>1. ASSUME NEW t \in 1..m
        PROVE  (CHOOSE r \in {Turn(s, 0 + t) : s \in {f[t - 1]}} : TRUE) = Turns("number", base, ds, size, l, f[t - 1], t)
    <3>1. (CHOOSE r \in {Turn(s, 0 + t) : s \in {f[t - 1]}} : TRUE) = Turn(f[t - 1], t)
      BY <1>6
    <3> QED BY <1>7, <3>1
  <2> QED BY <1>6, <2>1 DEF Outer
<1>9. m = (l + size - 1) \div size
  OBVIOUS
<1> HIDE DEF W, m
<1>10. (CHOOSE f : W(f)) = CHOOSE f : Outer(f, "number", base, 0, ds, size, l, m)
  BY <1>8
<1>11. OuterEnd("number", base, 0, ds, size, l, m) = Chained("number", base, 0, ds, l)
  BY <1>2, <1>3, <1>6, <1>9, OuterIs
<1> QED BY <1>1, <1>2, <1>10, <1>11 DEF OuterEnd

LEMMA DigitsChained ==
    ASSUME NEW v, NEW base, NEW n \in Nat, NEW B
    PROVE  DigitsOf(v, base, n) = Chained("digits", base, [rest |-> v, ds |-> <<>>], B, n).ds
<1> DEFINE s0 == [rest |-> v, ds |-> <<>>]
           Step(s, i) == [rest |-> s.rest \div base, ds |-> <<s.rest % base>> \o s.ds]
           l == n
           size == IF l <= 36 THEN 6 ELSE IF l <= 144 THEN 12 ELSE 48
           m == (l + size - 1) \div size
           V(s, from, k, f) == f = [i \in 0..k |-> IF i = 0 THEN s ELSE CHOOSE r \in {Step(u, from + i) : u \in {f[i - 1]}} : TRUE]
           Inner(s, from, k) == (CHOOSE f : V(s, from, k, f))[k]
           Turn(s, t) == Inner(s, size * (t - 1), IF size * t <= l THEN size ELSE l - size * (t - 1))
           W(f) == f = [t \in 0..m |-> IF t = 0 THEN s0 ELSE CHOOSE r \in {Turn(s, 0 + t) : s \in {f[t - 1]}} : TRUE]
<1>1. DigitsOf(v, base, n) = (CHOOSE f : W(f))[m].ds
  BY DEF DigitsOf, Iterate, Loop
<1>2. l = n /\ l \in Nat
  OBVIOUS
<1>3. size \in {6, 12, 48}
  OBVIOUS
<1>4. ASSUME NEW s, NEW i PROVE Step(s, i) = Turned("digits", base, s, B[i])
  BY TurnedIs DEF DigitGiven
<1> HIDE DEF Step, l, size, s0
<1>5. ASSUME NEW s, NEW from \in Nat, NEW k \in Nat
      PROVE  Inner(s, from, k) = Chained("digits", base, s, After(B, from), k)
  <2> DEFINE C == After(B, from)
  <2>1. ASSUME NEW i \in 1..k PROVE C[i] = B[from + i]
    BY DEF After
  <2> HIDE DEF C
  <2>2. ASSUME NEW f PROVE V(s, from, k, f) <=> Chain(f, "digits", base, s, C, k)
    <3>1. ASSUME NEW i \in 1..k
          PROVE  (CHOOSE r \in {Step(u, from + i) : u \in {f[i - 1]}} : TRUE) = Turned("digits", base, f[i - 1], C[i])
      <4>1. (CHOOSE r \in {Step(u, from + i) : u \in {f[i - 1]}} : TRUE) = Step(f[i - 1], from + i)
        OBVIOUS
      <4> QED BY <1>4, <2>1, <4>1
    <3> QED BY <3>1 DEF Chain
  <2> HIDE DEF V
  <2>3. (CHOOSE f : V(s, from, k, f)) = CHOOSE f : Chain(f, "digits", base, s, C, k)
    BY <2>2
  <2> QED BY <2>3 DEF Chained, C
<1> HIDE DEF Inner
<1>6. m \in Nat
  BY <1>2, <1>3
<1>7. ASSUME NEW s, NEW t \in 1..m PROVE Turn(s, t) = Turns("digits", base, B, size, l, s, t)
  <2> DEFINE k == Stint(size, l, t)
             from == size * (t - 1)
  <2>1. k \in Nat /\ from \in Nat /\ Turn(s, t) = Inner(s, from, k)
    <3> USE <1>3
    <3> QED BY <1>2, <1>6 DEF Stint
  <2> HIDE DEF k, from
  <2> QED BY <1>5, <2>1 DEF Turns, from, k
<1> HIDE DEF Turn
<1>8. ASSUME NEW f PROVE W(f) <=> Outer(f, "digits", base, s0, B, size, l, m)
  <2> HIDE DEF m
  <2>1. ASSUME NEW t \in 1..m
        PROVE  (CHOOSE r \in {Turn(s, 0 + t) : s \in {f[t - 1]}} : TRUE) = Turns("digits", base, B, size, l, f[t - 1], t)
    <3>1. (CHOOSE r \in {Turn(s, 0 + t) : s \in {f[t - 1]}} : TRUE) = Turn(f[t - 1], t)
      BY <1>6
    <3> QED BY <1>7, <3>1
  <2> QED BY <1>6, <2>1 DEF Outer
<1>9. m = (l + size - 1) \div size
  OBVIOUS
<1> HIDE DEF W, m
<1>10. (CHOOSE f : W(f)) = CHOOSE f : Outer(f, "digits", base, s0, B, size, l, m)
  BY <1>8
<1>11. OuterEnd("digits", base, s0, B, size, l, m) = Chained("digits", base, s0, B, l)
  BY <1>2, <1>3, <1>6, <1>9, OuterIs
<1> QED BY <1>1, <1>2, <1>10, <1>11 DEF s0, OuterEnd

-----------------------------------------------------------------------------
(* Digits there and back.                                                   *)

Split(rest, ds) == [rest |-> rest, ds |-> ds]

LEMMA SplitFields ==
    ASSUME NEW rest, NEW ds
    PROVE  Split(rest, ds).rest = rest /\ Split(rest, ds).ds = ds
BY DEF Split

LEMMA DigitLeaves ==
    ASSUME NEW v, NEW a, NEW d, v \div 256 = a, v % 256 = d, NEW ds
    PROVE  DigitGiven(256, Split(v, ds)) = Split(a, <<d>> \o ds)
<1> DEFINE c == Split(v, ds)
<1>1. c.rest = v /\ c.ds = ds
  BY SplitFields
<1> HIDE DEF c
<1>2. DigitGiven(256, c) = [rest |-> c.rest \div 256, ds |-> <<c.rest % 256>> \o c.ds]
  BY DEF DigitGiven
<1> QED BY <1>1, <1>2 DEF Split, c

\* The last digits of s, from its item k on.
LEMMA ItemPrepends ==
    ASSUME NEW s, NEW n \in Nat, Long(s, n), NEW k \in 1..n
    PROVE  <<s[k]>> \o SubSeq(s, k + 1, n) = SubSeq(s, k, n)
<1> DEFINE lo == k - 1
           b == SubSeq(s, k + 1, n)
           a == <<s[k]>>
           w == a \o b
           t == SubSeq(s, k, n)
           one == 1
           rest == n - k
<1>1. lo \in Nat /\ n \in lo..n /\ n - lo = rest + 1 /\ lo + 1 = k /\ k \in Nat /\ n \in k..n /\ rest \in Nat /\ one \in Nat
  OBVIOUS
<1>2. Long(a, one) /\ a[one] = s[k]
  BY DEF Long
<1>3. Long(b, rest) /\ \A i \in 1..rest : b[i] = s[k + i]
  BY <1>1, SubSeqLong
<1> DEFINE u == SubSeq(s, lo + 1, n)
<1>4. u = t
  BY <1>1
<1> HIDE DEF lo, u
<1>5. Long(u, n - lo) /\ \A i \in 1..n - lo : u[i] = s[lo + i]
  BY <1>1, SubSeqLong DEF u
<1>6. Long(t, rest + 1) /\ \A i \in 1..rest + 1 : t[i] = s[lo + i]
  BY <1>1, <1>4, <1>5
<1> HIDE DEF a, b, t, one, rest
<1>7. JoinOf(w, a, one, b, rest)
  BY <1>1, <1>2, <1>3, JoinIs
<1> HIDE DEF w
<1>8. Long(w, one + rest) /\ (\A i \in 1..one : w[i] = a[i]) /\ \A i \in 1..rest : w[one + i] = b[i]
  BY <1>7 DEF JoinOf
<1>9. one + rest = rest + 1 /\ one = 1
  BY <1>1 DEF one
<1>10. ASSUME NEW i \in 1..rest + 1 PROVE w[i] = t[i]
  <2>1. CASE i = 1
    <3>1. w[1] = s[k] /\ t[1] = s[lo + 1]
      BY <1>1, <1>2, <1>6, <1>8, <1>9, <2>1
    <3> QED BY <1>1, <2>1, <3>1
  <2>2. CASE i # 1
    <3> DEFINE j == i - 1
    <3>1. j \in 1..rest /\ one + j = i /\ k + j = lo + i
      BY <1>1, <1>9, <2>2
    <3> HIDE DEF j
    <3>2. w[one + j] = b[j] /\ b[j] = s[k + j]
      BY <1>3, <1>8, <3>1
    <3> QED BY <1>6, <3>1, <3>2
  <2> QED BY <2>1, <2>2
<1>11. w = t
  <2> DEFINE l == rest + 1
  <2>1. Long(w, l) /\ Long(t, l) /\ \A i \in 1..l : w[i] = t[i]
    BY <1>6, <1>8, <1>9, <1>10
  <2> HIDE DEF l
  <2> QED BY <2>1, SameLong
<1> QED BY <1>11 DEF w, a, b, t

LEMMA AllAndNone ==
    ASSUME NEW s, NEW n \in Nat, Long(s, n)
    PROVE  SubSeq(s, n + 1, n) = <<>> /\ SubSeq(s, 1, n) = s
<1>1. n + 1 \in Int /\ n \in Int /\ n < n + 1 /\ n \in 0..n
  OBVIOUS
<1>2. SubSeq(s, n + 1, n) = <<>>
  BY <1>1, SubSeqEmpty
<1>3. Long(SubSeq(s, 1, n), n) /\ \A i \in 1..n : SubSeq(s, 1, n)[i] = s[i]
  BY <1>1, SubSeqFromStart
<1>4. SubSeq(s, 1, n) = s
  BY <1>3, SameLong
<1> QED BY <1>2, <1>4

\* The number made of bytes falls apart into the bytes.
LEMMA DigitsBack ==
    ASSUME NEW s, NEW n \in Nat, Long(s, n), \A i \in 1..n : s[i] \in 0..255
    PROVE  DigitsOf(Number(s, 256), 256, n) = s /\ Number(s, 256) \in Nat
<1> DEFINE N(k) == Chained("number", 256, 0, s, k)
<1>1. N(0) = 0
  BY ChainedNone
<1>2. ASSUME NEW k \in Nat PROVE N(k + 1) = N(k) * 256 + s[k + 1]
  <2> DEFINE u == N(k)
             base == 256
             x == s[k + 1]
  <2>1. N(k + 1) = Turned("number", base, u, x)
    BY ChainedOnce
  <2> HIDE DEF u, base, x, N
  <2>2. Turned("number", base, u, x) = u * base + x
    BY TurnedIs DEF DigitTaken
  <2> QED BY <2>1, <2>2 DEF u, base, x
<1>3. Number(s, 256) = N(n)
  <2>1. Len(s) = n
    BY LongIsSeq
  <2> DEFINE base == 256
  <2> HIDE DEF base
  <2>2. Number(s, base) = Chained("number", base, 0, s, n)
    BY <2>1, NumberChained
  <2> QED BY <2>2 DEF base
<1> HIDE DEF N
<1> DEFINE T == {k \in Nat : k <= n => N(k) \in Nat}
<1>4. 0 \in T
  BY <1>1
<1>5. ASSUME NEW k \in Nat, k \in T PROVE k + 1 \in T
  <2>1. SUFFICES ASSUME k + 1 <= n PROVE N(k + 1) \in Nat
    OBVIOUS
  <2> DEFINE a == N(k)
             d == s[k + 1]
  <2>2. a \in Nat /\ d \in 0..255 /\ N(k + 1) = a * 256 + d
    BY <1>2, <1>5, <2>1
  <2> HIDE DEF a, d
  <2> QED BY <2>2
<1> HIDE DEF T
<1>6. Nat \subseteq T
  BY <1>4, <1>5, Induction
<1>7. \A k \in 0..n : N(k) \in Nat
  BY <1>6 DEF T
<1> DEFINE B == [i \in 1..n |-> 0]
           s0 == Split(N(n), <<>>)
           D(k) == Chained("digits", 256, s0, B, k)
           left(k) == SubSeq(s, n - k + 1, n)
<1>8. D(0) = s0
  BY ChainedNone
<1> HIDE DEF s0, B
<1>9. ASSUME NEW k \in Nat PROVE D(k + 1) = DigitGiven(256, D(k))
  <2> DEFINE base == 256
             x == B[k + 1]
             u == D(k)
  <2>1. D(k + 1) = Turned("digits", base, u, x)
    BY ChainedOnce
  <2> HIDE DEF base, x, u, D
  <2>2. Turned("digits", base, u, x) = DigitGiven(base, u)
    BY TurnedIs
  <2> QED BY <2>1, <2>2 DEF base, u
<1>10. DigitsOf(N(n), 256, n) = D(n).ds
  <2> DEFINE base == 256
             v == N(n)
  <2> HIDE DEF base, v
  <2>1. DigitsOf(v, base, n) = Chained("digits", base, [rest |-> v, ds |-> <<>>], B, n).ds
    BY DigitsChained
  <2> QED BY <2>1 DEF s0, Split, v, base
<1>11. left(0) = <<>> /\ left(n) = s
  <2>1. n - 0 + 1 = n + 1 /\ n - n + 1 = 1
    OBVIOUS
  <2> QED BY <2>1, AllAndNone
<1> HIDE DEF D, left
<1> DEFINE S == {k \in Nat : k <= n => D(k) = Split(N(n - k), left(k))}
<1>12. 0 \in S
  BY <1>8, <1>11 DEF s0
<1>13. ASSUME NEW k \in Nat, k \in S PROVE k + 1 \in S
  <2>1. SUFFICES ASSUME k + 1 <= n PROVE D(k + 1) = Split(N(n - (k + 1)), left(k + 1))
    OBVIOUS
  <2> DEFINE j == n - k - 1
             a == N(j)
             i == n - k
             d == s[i]
  <2>2. j \in Nat /\ j + 1 = i /\ n - (k + 1) = j /\ j \in 0..n /\ k <= n /\ i \in 1..n /\ n - k + 1 = i + 1 /\ n - (k + 1) + 1 = i
    BY <2>1
  <2> HIDE DEF j
  <2>3. N(i) = a * 256 + d /\ a \in Nat /\ d \in 0..255
    BY <1>2, <1>7, <2>2
  <2>4. D(k) = Split(N(i), left(k))
    BY <1>13, <2>2
  <2>5. left(k) = SubSeq(s, i + 1, n) /\ left(k + 1) = SubSeq(s, i, n)
    BY <2>2 DEF left
  <2>6. <<d>> \o left(k) = left(k + 1)
    <3> HIDE DEF i
    <3>1. <<s[i]>> \o SubSeq(s, i + 1, n) = SubSeq(s, i, n)
      BY <2>2, ItemPrepends
    <3> QED BY <2>5, <3>1
  <2> HIDE DEF a, d, i
  <2>7. DigitGiven(256, Split(N(i), left(k))) = Split(a, <<d>> \o left(k))
    <3> DEFINE ds == left(k)
               v == N(i)
    <3> HIDE DEF ds, v
    <3>1. v \div 256 = a /\ v % 256 = d
      BY <2>3 DEF v
    <3>2. DigitGiven(256, Split(v, ds)) = Split(a, <<d>> \o ds)
      BY <3>1, DigitLeaves
    <3> QED BY <3>2 DEF ds, v
  <2>8. D(k + 1) = DigitGiven(256, D(k))
    BY <1>9
  <2> QED BY <2>2, <2>4, <2>6, <2>7, <2>8 DEF a
<1> HIDE DEF S
<1>14. Nat \subseteq S
  BY <1>12, <1>13, Induction
<1>15. D(n) = Split(N(0), s)
  <2>1. n \in S /\ n - n = 0
    BY <1>14
  <2> QED BY <1>11, <2>1 DEF S
<1>16. N(n) \in Nat
  BY <1>7
<1> QED BY <1>3, <1>10, <1>15, <1>16, SplitFields

-----------------------------------------------------------------------------
(* The exclusive or of numbers.                                             *)

Pairs == Nat \X Nat

Xored(f, p) == IF p[1] = 0 \/ p[2] = 0 THEN p[1] + p[2] ELSE 16 * f[Upper(p)] + XorNibbles[Lower(p)]

LEMMA PairIs ==
    ASSUME NEW x \in Nat, NEW y \in Nat
    PROVE  /\ <<x, y>> \in Pairs /\ <<x, y>>[1] = x /\ <<x, y>>[2] = y
           /\ Upper(<<x, y>>) = <<x \div 16, y \div 16>> /\ Lower(<<x, y>>) = <<x % 16, y % 16>>
BY DEF Pairs, Upper, Lower

LEMMA UpperIs ==
    ASSUME NEW p \in Pairs
    PROVE  /\ Upper(p) \in Pairs /\ p[1] \in Nat /\ p[2] \in Nat
           /\ p[1] # 0 => Upper(p)[1] \in 0..p[1] - 1
           /\ p[1] = 0 => Upper(p)[1] = 0
BY DEF Pairs, Upper

\* A function that obeys the recursion where the first number is k at most.
Obeys(f, k) == \A p \in Pairs : p[1] <= k => f[p] = Xored(f, p)

LEMMA ObeyersExist ==
    ASSUME NEW n \in Nat
    PROVE  \E f : Obeys(f, n)
<1> DEFINE T == {k \in Nat : \E f : Obeys(f, k)}
<1>1. 0 \in T
  <2> DEFINE f == [p \in Pairs |-> p[1] + p[2]]
  <2>1. Obeys(f, 0)
    BY UpperIs DEF Obeys, Xored
  <2> QED BY <2>1
<1>2. ASSUME NEW k \in Nat, k \in T PROVE k + 1 \in T
  <2> PICK g : Obeys(g, k)
    BY <1>2
  <2> DEFINE f == [p \in Pairs |-> Xored(g, p)]
  <2>1. ASSUME NEW p \in Pairs, p[1] <= k PROVE f[p] = g[p]
    BY <2>1 DEF Obeys
  <2>2. ASSUME NEW p \in Pairs, p[1] <= k + 1 PROVE f[p] = Xored(f, p)
    <3>1. f[p] = Xored(g, p)
      OBVIOUS
    <3>2. CASE p[1] = 0
      BY <3>1, <3>2 DEF Xored
    <3>3. CASE p[1] # 0
      <4>1. Upper(p) \in Pairs /\ Upper(p)[1] <= k
        BY <2>2, <3>3, UpperIs
      <4> HIDE DEF f
      <4>2. f[Upper(p)] = g[Upper(p)]
        BY <2>1, <4>1
      <4> QED BY <3>1, <4>2 DEF Xored
    <3> QED BY <3>2, <3>3
  <2> HIDE DEF f
  <2>3. Obeys(f, k + 1)
    BY <2>2 DEF Obeys
  <2> QED BY <2>3
<1> HIDE DEF T
<1>3. n \in T
  BY <1>1, <1>2, Induction
<1> QED BY <1>3 DEF T

LEMMA ObeyersAgree ==
    ASSUME NEW f, NEW k \in Nat, Obeys(f, k), NEW g, NEW m \in Nat, Obeys(g, m), NEW p \in Pairs, p[1] <= k, p[1] <= m
    PROVE  f[p] = g[p]
<1> DEFINE T == {n \in Nat : \A q \in Pairs : (q[1] <= n /\ q[1] <= k /\ q[1] <= m) => f[q] = g[q]}
<1>1. 0 \in T
  BY UpperIs DEF Obeys, Xored
<1>2. ASSUME NEW n \in Nat, n \in T PROVE n + 1 \in T
  <2> SUFFICES ASSUME NEW q \in Pairs, q[1] <= n + 1, q[1] <= k, q[1] <= m PROVE f[q] = g[q]
    OBVIOUS
  <2>1. f[q] = Xored(f, q) /\ g[q] = Xored(g, q)
    BY DEF Obeys
  <2>2. CASE q[1] = 0
    BY <2>1, <2>2 DEF Xored
  <2>3. CASE q[1] # 0
    <3>1. Upper(q) \in Pairs /\ Upper(q)[1] <= n /\ Upper(q)[1] <= k /\ Upper(q)[1] <= m
      BY <2>3, UpperIs
    <3>2. f[Upper(q)] = g[Upper(q)]
      BY <1>2, <3>1
    <3> QED BY <2>1, <3>2 DEF Xored
  <2> QED BY <2>2, <2>3
<1> HIDE DEF T
<1>3. Nat \subseteq T
  BY <1>1, <1>2, Induction
<1>4. p[1] \in Nat
  BY UpperIs
<1> QED BY <1>3, <1>4 DEF T

Obeyer(n) == CHOOSE f : Obeys(f, n)

LEMMA BitXorIs == BitXor = [p \in Pairs |-> Xored(BitXor, p)]
<1>1. BitXor = CHOOSE f : f = [p \in Pairs |-> Xored(f, p)]
  BY DEF BitXor, Xored, Pairs
<1>2. \E f : f = [p \in Pairs |-> Xored(f, p)]
  <2> DEFINE f == [p \in Pairs |-> Obeyer(p[1])[p]]
  <2>1. ASSUME NEW n \in Nat PROVE Obeys(Obeyer(n), n)
    BY ObeyersExist DEF Obeyer
  <2>2. ASSUME NEW p \in Pairs PROVE f[p] = Xored(f, p)
    <3> DEFINE g == Obeyer(p[1])
    <3>1. p[1] \in Nat /\ p[2] \in Nat /\ Upper(p) \in Pairs /\ f[p] = g[p]
      BY UpperIs
    <3>2. g[p] = Xored(g, p) /\ Obeys(g, p[1])
      BY <2>1, <3>1 DEF Obeys
    <3>3. CASE p[1] = 0
      BY <3>1, <3>2, <3>3 DEF Xored
    <3>4. CASE p[1] # 0
      <4> DEFINE u == Upper(p)
                 h == Obeyer(u[1])
      <4>1. u \in Pairs /\ u[1] \in Nat /\ u[1] <= p[1]
        BY <3>4, UpperIs
      <4>2. Obeys(h, u[1]) /\ f[u] = h[u]
        BY <2>1, <4>1
      <4> HIDE DEF u, h, g, f
      <4>3. f[u] = g[u]
        BY <3>1, <3>2, <4>1, <4>2, ObeyersAgree
      <4> QED BY <3>1, <3>2, <4>3 DEF Xored, u
    <3> QED BY <3>3, <3>4
  <2>3. f = [p \in Pairs |-> f[p]]
    OBVIOUS
  <2> HIDE DEF f
  <2>4. f = [p \in Pairs |-> Xored(f, p)]
    BY <2>2, <2>3
  <2> QED BY <2>4
<1> QED BY <1>1, <1>2

LEMMA NibblesXor ==
    ASSUME NEW a \in 0..15, NEW b \in 0..15
    PROVE  /\ XorNibbles[<<a, b>>] \in 0..15
           /\ XorNibbles[<<a, 0>>] = a /\ XorNibbles[<<0, b>>] = b
<1> DEFINE F(x, y) == (x + y) % 2
           E(x, y) == F(x % 2, y % 2) + F((x \div 2) % 2, (y \div 2) % 2) * 2
                        + F((x \div 4) % 2, (y \div 4) % 2) * 4 + F((x \div 8) % 2, (y \div 8) % 2) * 8
<1>1. ASSUME NEW x \in 0..15, NEW y \in 0..15 PROVE XorNibbles[<<x, y>>] = E(x, y)
  <2> DEFINE At(p, c) == F((p[1] \div c) % 2, (p[2] \div c) % 2) * c
  <2>1. 2^0 = 1 /\ 2^1 = 2 /\ 2^2 = 4 /\ 2^3 = 8
    OBVIOUS
  <2>2. XorNibbles = [p \in (0..15) \X (0..15) |-> At(p, 2^0) + At(p, 2^1) + At(p, 2^2) + At(p, 2^3)]
    BY Zenon DEF XorNibbles, OfNibbles
  <2> DEFINE p == <<x, y>>
  <2>3. p \in (0..15) \X (0..15) /\ p[1] = x /\ p[2] = y
    OBVIOUS
  <2> HIDE DEF At, p
  <2>4. XorNibbles[p] = At(p, 1) + At(p, 2) + At(p, 4) + At(p, 8)
    BY <2>1, <2>2, <2>3
  <2>5. At(p, 1) = F(x % 2, y % 2)
    <3>1. x \div 1 = x /\ y \div 1 = y
      OBVIOUS
    <3> QED BY <2>3, <3>1 DEF At
  <2>6. At(p, 2) = F((x \div 2) % 2, (y \div 2) % 2) * 2
    BY <2>3 DEF At
  <2>7. At(p, 4) = F((x \div 4) % 2, (y \div 4) % 2) * 4
    BY <2>3 DEF At
  <2>8. At(p, 8) = F((x \div 8) % 2, (y \div 8) % 2) * 8
    BY <2>3 DEF At
  <2> QED BY <2>4, <2>5, <2>6, <2>7, <2>8 DEF p
<1>2. ASSUME NEW x \in Int, NEW y \in Int PROVE F(x, y) \in 0..1
  OBVIOUS
<1>3. E(a, b) \in 0..15
  <2> HIDE DEF F
  <2> QED BY <1>2
<1>4. ASSUME NEW x \in 0..1 PROVE F(x, 0) = x /\ F(0, x) = x
  OBVIOUS
<1>5. 0 % 2 = 0 /\ (0 \div 2) % 2 = 0 /\ (0 \div 4) % 2 = 0 /\ (0 \div 8) % 2 = 0
  OBVIOUS
<1>6. ASSUME NEW x \in 0..15
      PROVE  /\ x % 2 \in 0..1 /\ (x \div 2) % 2 \in 0..1 /\ (x \div 4) % 2 \in 0..1 /\ (x \div 8) % 2 \in 0..1
             /\ x = (x % 2) + ((x \div 2) % 2) * 2 + ((x \div 4) % 2) * 4 + ((x \div 8) % 2) * 8
  OBVIOUS
<1>7. E(a, 0) = a /\ E(0, b) = b
  <2> HIDE DEF F
  <2>1. E(a, 0) = (a % 2) + ((a \div 2) % 2) * 2 + ((a \div 4) % 2) * 4 + ((a \div 8) % 2) * 8
    BY <1>4, <1>5, <1>6
  <2>2. E(0, b) = (b % 2) + ((b \div 2) % 2) * 2 + ((b \div 4) % 2) * 4 + ((b \div 8) % 2) * 8
    BY <1>4, <1>5, <1>6
  <2> QED BY <1>6, <2>1, <2>2
<1>8. XorNibbles[<<a, b>>] = E(a, b) /\ XorNibbles[<<a, 0>>] = E(a, 0) /\ XorNibbles[<<0, b>>] = E(0, b)
  <2> DEFINE none == 0
  <2>1. none \in 0..15
    OBVIOUS
  <2> HIDE DEF E, none
  <2>2. XorNibbles[<<a, b>>] = E(a, b)
    BY <1>1
  <2>3. XorNibbles[<<a, none>>] = E(a, none)
    BY <1>1, <2>1
  <2>4. XorNibbles[<<none, b>>] = E(none, b)
    BY <1>1, <2>1
  <2> QED BY <2>2, <2>3, <2>4 DEF none
<1> HIDE DEF E
<1> QED BY <1>3, <1>7, <1>8

LEMMA XorIs ==
    ASSUME NEW x \in Nat, NEW y \in Nat
    PROVE  /\ x ^^ y = BitXor[<<x, y>>]
           /\ BitXor[<<x, y>>] = 16 * BitXor[<<x \div 16, y \div 16>>] + XorNibbles[<<x % 16, y % 16>>]
           /\ BitXor[<<x, y>>] \in Nat
<1>1. ASSUME NEW u \in Nat, NEW v \in Nat
      PROVE  BitXor[<<u, v>>] = IF u = 0 \/ v = 0 THEN u + v
                                ELSE 16 * BitXor[<<u \div 16, v \div 16>>] + XorNibbles[<<u % 16, v % 16>>]
  <2> DEFINE p == <<u, v>>
  <2>1. p \in Pairs /\ p[1] = u /\ p[2] = v /\ Upper(p) = <<u \div 16, v \div 16>> /\ Lower(p) = <<u % 16, v % 16>>
    BY PairIs
  <2> HIDE DEF p
  <2>2. BitXor[p] = Xored(BitXor, p)
    BY <2>1, BitXorIs
  <2> QED BY <2>1, <2>2 DEF Xored, p
<1> DEFINE X(u, v) == BitXor[<<u, v>>]
           N(u, v) == XorNibbles[<<u, v>>]
           T == {n \in Nat : \A u \in Nat, v \in Nat : u <= n => X(u, v) \in Nat}
<1>2. ASSUME NEW u \in Nat, NEW v \in Nat
      PROVE  X(u, v) = IF u = 0 \/ v = 0 THEN u + v ELSE 16 * X(u \div 16, v \div 16) + N(u % 16, v % 16)
  BY <1>1
<1>3. ASSUME NEW u \in 0..15, NEW v \in 0..15 PROVE N(u, v) \in 0..15 /\ N(u, 0) = u /\ N(0, v) = v
  BY NibblesXor
<1>4. x ^^ y = IF x = 0 \/ y = 0 THEN x + y ELSE X(x, y)
  BY DEF ^^
<1> HIDE DEF X, N
<1>5. ASSUME NEW u \in Nat
      PROVE  /\ u \div 16 \in Nat /\ u % 16 \in 0..15 /\ u = 16 * (u \div 16) + (u % 16)
             /\ u = 0 => u \div 16 = 0 /\ u % 16 = 0
             /\ u # 0 => u \div 16 <= u - 1
  OBVIOUS
<1>6. 0 \in T
  BY <1>2
<1>7. ASSUME NEW n \in Nat, n \in T PROVE n + 1 \in T
  <2> SUFFICES ASSUME NEW u \in Nat, NEW v \in Nat, u <= n + 1 PROVE X(u, v) \in Nat
    OBVIOUS
  <2>1. CASE u = 0 \/ v = 0
    BY <1>2, <2>1
  <2>2. CASE ~(u = 0 \/ v = 0)
    <3>1. u \div 16 \in Nat /\ v \div 16 \in Nat /\ u \div 16 <= n
      BY <1>5, <2>2
    <3>2. X(u \div 16, v \div 16) \in Nat
      BY <1>7, <3>1
    <3>3. N(u % 16, v % 16) \in 0..15
      BY <1>3, <1>5
    <3> DEFINE big == X(u \div 16, v \div 16)
               small == N(u % 16, v % 16)
    <3>4. X(u, v) = 16 * big + small
      BY <1>2, <2>2
    <3> HIDE DEF big, small
    <3> QED BY <3>2, <3>3, <3>4 DEF big, small
  <2> QED BY <2>1, <2>2
<1> HIDE DEF T
<1>8. Nat \subseteq T
  BY <1>6, <1>7, Induction
<1>9. X(x, y) \in Nat
  BY <1>8 DEF T
<1>10. x ^^ y = X(x, y)
  BY <1>2, <1>4
<1>11. X(x, y) = 16 * X(x \div 16, y \div 16) + N(x % 16, y % 16)
  <2>1. CASE x = 0
    <3>1. x \div 16 = 0 /\ x % 16 = 0 /\ y \div 16 \in Nat
      BY <1>5, <2>1
    <3>2. X(0, y \div 16) = y \div 16 /\ X(x, y) = y
      BY <1>2, <1>5, <2>1, <3>1
    <3>3. N(0, y % 16) = y % 16
      BY <1>3, <1>5
    <3> QED BY <1>5, <3>1, <3>2, <3>3
  <2>2. CASE y = 0
    <3>1. y \div 16 = 0 /\ y % 16 = 0 /\ x \div 16 \in Nat
      BY <1>5, <2>2
    <3>2. X(x \div 16, 0) = x \div 16 /\ X(x, y) = x
      BY <1>2, <1>5, <2>2, <3>1
    <3>3. N(x % 16, 0) = x % 16
      BY <1>3, <1>5
    <3> QED BY <1>5, <3>1, <3>2, <3>3
  <2>3. CASE x # 0 /\ y # 0
    BY <1>2, <2>3
  <2> QED BY <2>1, <2>2, <2>3
<1> QED BY <1>9, <1>10, <1>11 DEF X, N

LEMMA XorSplits ==
    ASSUME NEW u \in Nat, NEW v \in Nat, NEW a, NEW b, NEW c, NEW d,
           u \div 256 = a, u % 256 = c, v \div 256 = b, v % 256 = d
    PROVE  u ^^ v = 256 * (a ^^ b) + (c ^^ d) /\ c ^^ d \in 0..255 /\ u ^^ v \in Nat
<1> DEFINE X(x, y) == BitXor[<<x, y>>]
           N(x, y) == XorNibbles[<<x, y>>]
<1>1. ASSUME NEW x \in Nat, NEW y \in Nat
      PROVE  x ^^ y = X(x, y) /\ X(x, y) = 16 * X(x \div 16, y \div 16) + N(x % 16, y % 16) /\ X(x, y) \in Nat
  BY XorIs
<1>2. ASSUME NEW x \in 0..15, NEW y \in 0..15 PROVE N(x, y) \in 0..15
  BY NibblesXor
<1>3. X(0, 0) = 0
  <2>1. 0 ^^ 0 = 0
    BY DEF ^^
  <2> QED BY <1>1, <2>1
<1>4. ASSUME NEW x \in Nat
      PROVE  /\ x \div 16 \in Nat /\ x % 16 \in 0..15 /\ (x \div 16) \div 16 = x \div 256
             /\ (x % 256) % 16 = x % 16 /\ (x % 256) \div 16 = (x \div 16) % 16
             /\ ((x % 256) \div 16) \div 16 = 0 /\ ((x % 256) \div 16) % 16 = (x % 256) \div 16
             /\ x % 256 \in 0..255 /\ x \div 256 \in Nat /\ (x % 256) \div 16 \in 0..15
  OBVIOUS
<1> HIDE DEF X, N
<1> DEFINE u1 == u \div 16
           v1 == v \div 16
           c1 == c \div 16
           d1 == d \div 16
           low == N(u % 16, v % 16)
           high == N(c1, d1)
           rest == X(a, b)
<1>20. \A x \in Nat, y \in Nat : X(x, y) = 16 * X(x \div 16, y \div 16) + N(x % 16, y % 16)
  BY <1>1
<1>21. \A x \in Nat, y \in Nat : x ^^ y = X(x, y)
  BY <1>1
<1>22. \A x \in Nat, y \in Nat : X(x, y) \in Nat
  BY <1>1
<1>5. c1 \in Nat /\ d1 \in Nat /\ c \in Nat /\ d \in Nat /\ a \in Nat /\ b \in Nat /\ c \in 0..255 /\ d \in 0..255 /\ u1 \in Nat /\ v1 \in Nat /\ c1 \in 0..15 /\ d1 \in 0..15
  BY <1>4
<1>6. u1 \div 16 = a /\ v1 \div 16 = b /\ u1 % 16 = c1 /\ v1 % 16 = d1 /\ c % 16 = u % 16 /\ d % 16 = v % 16
  BY <1>4
<1>7. c1 \div 16 = 0 /\ d1 \div 16 = 0 /\ c1 % 16 = c1 /\ d1 % 16 = d1
  BY <1>4
<1>8. low \in 0..15 /\ high \in 0..15
  BY <1>2, <1>4, <1>5
<1> HIDE DEF u1, v1
<1>9. X(u, v) = 16 * X(u1, v1) + low
  BY <1>1 DEF u1, v1
<1>10. X(u1, v1) = 16 * rest + high
  <2>1. X(u1, v1) = 16 * X(u1 \div 16, v1 \div 16) + N(u1 % 16, v1 % 16)
    BY <1>5, <1>20, Zenon
  <2> QED BY <1>6, <2>1
<1>11. X(c, d) = 16 * X(c1, d1) + low
  <2>1. X(c, d) = 16 * X(c \div 16, d \div 16) + N(c % 16, d % 16)
    <3> DEFINE y == c
               z == d
    <3>1. y \in Nat /\ z \in Nat
      BY <1>5
    <3> HIDE DEF y, z
    <3>2. X(y, z) = 16 * X(y \div 16, z \div 16) + N(y % 16, z % 16)
      BY <1>20, <3>1, Zenon
    <3> QED BY <3>2 DEF y, z
  <2> QED BY <1>6, <2>1
<1> HIDE DEF c1, d1
<1>12. X(c1, d1) = 16 * X(0, 0) + high
  <2>1. X(c1, d1) = 16 * X(c1 \div 16, d1 \div 16) + N(c1 % 16, d1 % 16)
    BY <1>5, <1>20, Zenon
  <2> QED BY <1>7, <2>1
<1> HIDE DEF low, high
<1>13. rest \in Nat
  BY <1>1, <1>5
<1> HIDE DEF rest
<1>14. X(u, v) = 256 * rest + X(c, d) /\ X(c, d) \in 0..255
  <2> DEFINE p == X(c, d)
             q == X(c1, d1)
             r == X(u1, v1)
             z == X(0, 0)
  <2>1. z = 0 /\ X(u, v) = 16 * r + low /\ r = 16 * rest + high /\ p = 16 * q + low /\ q = 16 * z + high
    BY <1>3, <1>9, <1>10, <1>11, <1>12
  <2> HIDE DEF p, q, r, z
  <2>2. X(u, v) = 256 * rest + p /\ p \in 0..255
    BY <1>8, <1>13, <2>1
  <2> QED BY <2>2 DEF p
<1>15. u ^^ v = X(u, v) /\ c ^^ d = X(c, d) /\ a ^^ b = rest
  BY <1>5, <1>21, Zenon DEF rest
<1>16. u ^^ v \in Nat
  BY <1>1
<1> QED BY <1>14, <1>15, <1>16

\* n bytes.
Octets(s, n) == Long(s, n) /\ \A i \in 1..n : s[i] \in 0..255

LEMMA XorOctets ==
    ASSUME NEW a \in 0..255, NEW b \in 0..255
    PROVE  a ^^ b \in 0..255
<1> DEFINE X(x, y) == BitXor[<<x, y>>]
           N(x, y) == XorNibbles[<<x, y>>]
           a1 == a \div 16
           b1 == b \div 16
           low == N(a % 16, b % 16)
           high == N(a1, b1)
           one == X(a1, b1)
           none == X(0, 0)
<1>1. \A x \in Nat, y \in Nat : X(x, y) = 16 * X(x \div 16, y \div 16) + N(x % 16, y % 16)
  BY XorIs
<1>2. \A x \in Nat, y \in Nat : x ^^ y = X(x, y)
  BY XorIs
<1>3. \A x \in 0..15, y \in 0..15 : N(x, y) \in 0..15
  BY NibblesXor
<1>4. none = 0
  <2>1. 0 ^^ 0 = 0 /\ 0 \in Nat
    BY DEF ^^
  <2> QED BY <1>2, <2>1
<1>5. a1 \in 0..15 /\ b1 \in 0..15 /\ a1 \div 16 = 0 /\ b1 \div 16 = 0 /\ a1 % 16 = a1 /\ b1 % 16 = b1
      /\ a % 16 \in 0..15 /\ b % 16 \in 0..15
  OBVIOUS
<1>6. a \in Nat /\ b \in Nat /\ a1 \in Nat /\ b1 \in Nat
  OBVIOUS
<1> HIDE DEF X, N
<1>7. low \in 0..15 /\ high \in 0..15
  BY <1>3, <1>5
<1>8. X(a, b) = 16 * one + low
  BY <1>1, <1>6, Zenon
<1> HIDE DEF a1, b1
<1>9. one = 16 * X(a1 \div 16, b1 \div 16) + N(a1 % 16, b1 % 16)
  BY <1>1, <1>6, Zenon
<1>10. one = 16 * none + high
  BY <1>5, <1>9
<1>11. a ^^ b = X(a, b)
  BY <1>2, <1>6, Zenon
<1> HIDE DEF one, none, high, low
<1> QED BY <1>4, <1>7, <1>8, <1>10, <1>11

LEMMA NumberGrows ==
    ASSUME NEW s, NEW n \in Nat, Octets(s, n)
    PROVE  LET N(k) == Chained("number", 256, 0, s, k)
           IN /\ N(0) = 0 /\ Number(s, 256) = N(n)
              /\ \A k \in 0..n : N(k) \in Nat
              /\ \A k \in 0..n - 1 : N(k + 1) \div 256 = N(k) /\ N(k + 1) % 256 = s[k + 1]
<1> DEFINE N(k) == Chained("number", 256, 0, s, k)
<1>1. N(0) = 0
  BY ChainedNone
<1>2. ASSUME NEW k \in Nat PROVE N(k + 1) = N(k) * 256 + s[k + 1]
  <2> DEFINE u == N(k)
             base == 256
             x == s[k + 1]
  <2>1. N(k + 1) = Turned("number", base, u, x)
    BY ChainedOnce
  <2> HIDE DEF u, base, x, N
  <2>2. Turned("number", base, u, x) = u * base + x
    BY TurnedIs DEF DigitTaken
  <2> QED BY <2>1, <2>2 DEF u, base, x
<1>3. Number(s, 256) = N(n)
  <2>1. Len(s) = n
    BY LongIsSeq DEF Octets
  <2> DEFINE base == 256
  <2> HIDE DEF base
  <2>2. Number(s, base) = Chained("number", base, 0, s, n)
    BY <2>1, NumberChained
  <2> QED BY <2>2 DEF base
<1> HIDE DEF N
<1> DEFINE T == {k \in Nat : k <= n => N(k) \in Nat}
<1>4. 0 \in T
  BY <1>1
<1>5. ASSUME NEW k \in Nat, k \in T PROVE k + 1 \in T
  <2>1. SUFFICES ASSUME k + 1 <= n PROVE N(k + 1) \in Nat
    OBVIOUS
  <2> DEFINE a == N(k)
             d == s[k + 1]
  <2>2. a \in Nat /\ d \in 0..255 /\ N(k + 1) = a * 256 + d
    BY <1>2, <1>5, <2>1 DEF Octets
  <2> HIDE DEF a, d
  <2> QED BY <2>2
<1> HIDE DEF T
<1>6. Nat \subseteq T
  BY <1>4, <1>5, Induction
<1>7. \A k \in 0..n : N(k) \in Nat
  BY <1>6 DEF T
<1>8. ASSUME NEW k \in 0..n - 1 PROVE N(k + 1) \div 256 = N(k) /\ N(k + 1) % 256 = s[k + 1]
  <2> DEFINE a == N(k)
             d == s[k + 1]
             w == N(k + 1)
  <2>1. a \in Nat /\ d \in 0..255 /\ w = a * 256 + d
    BY <1>2, <1>7 DEF Octets
  <2> HIDE DEF a, d, w
  <2>2. w \div 256 = a /\ w % 256 = d
    BY <2>1
  <2> QED BY <2>2 DEF a, d, w
<1> QED BY <1>1, <1>3, <1>7, <1>8 DEF N

\* The exclusive or of numbers is the one of their bytes.
LEMMA XorOfNumbers ==
    ASSUME NEW s, NEW t, NEW u, NEW n \in Nat, Octets(s, n), Octets(t, n), Long(u, n), \A i \in 1..n : u[i] = s[i] ^^ t[i]
    PROVE  Number(s, 256) ^^ Number(t, 256) = Number(u, 256) /\ Octets(u, n)
<1> DEFINE S(k) == Chained("number", 256, 0, s, k)
           R(k) == Chained("number", 256, 0, t, k)
           U(k) == Chained("number", 256, 0, u, k)
<1>1. Octets(u, n)
  BY XorOctets DEF Octets
<1>2. /\ S(0) = 0 /\ Number(s, 256) = S(n) /\ \A k \in 0..n : S(k) \in Nat
      /\ \A k \in 0..n - 1 : S(k + 1) \div 256 = S(k) /\ S(k + 1) % 256 = s[k + 1]
  BY NumberGrows
<1>3. /\ R(0) = 0 /\ Number(t, 256) = R(n) /\ \A k \in 0..n : R(k) \in Nat
      /\ \A k \in 0..n - 1 : R(k + 1) \div 256 = R(k) /\ R(k + 1) % 256 = t[k + 1]
  BY NumberGrows
<1>4. /\ U(0) = 0 /\ Number(u, 256) = U(n) /\ \A k \in 0..n : U(k) \in Nat
      /\ \A k \in 0..n - 1 : U(k + 1) \div 256 = U(k) /\ U(k + 1) % 256 = u[k + 1]
  BY <1>1, NumberGrows
<1> HIDE DEF S, R, U
<1> DEFINE T == {k \in Nat : k <= n => S(k) ^^ R(k) = U(k)}
<1>5. 0 \in T
  <2>1. 0 ^^ 0 = 0
    BY DEF ^^
  <2> QED BY <1>2, <1>3, <1>4, <2>1
<1>6. ASSUME NEW k \in Nat, k \in T PROVE k + 1 \in T
  <2>1. SUFFICES ASSUME k + 1 <= n PROVE S(k + 1) ^^ R(k + 1) = U(k + 1)
    OBVIOUS
  <2> DEFINE j == k + 1
             c == s[j]
             d == t[j]
  <2>2. j \in 0..n /\ j \in 1..n /\ k \in 0..n - 1 /\ S(k) ^^ R(k) = U(k) /\ u[j] = c ^^ d
    BY <1>6, <2>1
  <2>3. /\ S(j) \div 256 = S(k) /\ S(j) % 256 = c /\ R(j) \div 256 = R(k) /\ R(j) % 256 = d
        /\ U(j) \div 256 = U(k) /\ U(j) % 256 = c ^^ d /\ S(j) \in Nat /\ R(j) \in Nat /\ U(j) \in Nat
    BY <1>2, <1>3, <1>4, <2>2
  <2> HIDE DEF j, c, d
  <2>4. S(j) ^^ R(j) = 256 * (S(k) ^^ R(k)) + (c ^^ d)
    BY <2>3, XorSplits
  <2> DEFINE w == U(j)
             x == c ^^ d
             y == U(k)
  <2>5. w \div 256 = y /\ w % 256 = x /\ w \in Nat
    BY <2>3
  <2>6. S(j) ^^ R(j) = 256 * y + x
    BY <2>2, <2>4
  <2> HIDE DEF w, x, y
  <2>7. w = 256 * y + x
    BY <2>5
  <2> QED BY <2>6, <2>7 DEF w, j
<1> HIDE DEF T
<1>7. n \in T
  BY <1>5, <1>6, Induction
<1>8. S(n) ^^ R(n) = U(n)
  BY <1>7 DEF T
<1> QED BY <1>1, <1>2, <1>3, <1>4, <1>8

-----------------------------------------------------------------------------
(* Words and their bytes, most significant first.                           *)

WordAt(s, j) == Number([b \in 1..LaneBytes |-> s[LaneBytes * (j - 1) + b]], 256)

LEMMA ByteInside ==
    ASSUME NEW n \in Nat, NEW j \in 1..n, NEW b \in 1..LaneBytes
    PROVE  LaneBytes * (j - 1) + b \in 1..LaneBytes * n
<1> DEFINE q == j - 1
           x == LaneBytes * q
           m == n - j
           y == LaneBytes * m
<1>1. LaneBytes \in Nat \ {0} /\ q \in Nat /\ m \in Nat
  BY BlockSizes
<1>2. x \in Nat /\ y \in Nat
  BY <1>1
<1>3. LaneBytes * n = x + LaneBytes + y
  BY <1>1
<1> HIDE DEF q, x, y, m
<1>4. x + b \in 1..x + LaneBytes + y
  BY <1>1, <1>2
<1> QED BY <1>3, <1>4 DEF x, q

LEMMA LanesAre ==
    ASSUME NEW s, NEW n \in Nat, Long(s, LaneBytes * n)
    PROVE  LanesOf(s) = [j \in 1..n |-> WordAt(s, j)]
<1> DEFINE t == Reversed(s)
           l == LaneBytes * n
<1>1. Long(t, l) /\ Len(t) = l
  BY ReversedLong, LongIsSeq
<1>2. l \div LaneBytes = n
  <2>1. ((n * LaneBytes) + 0) \div LaneBytes = n
    BY BlockSizes, QuotientIs
  <2>2. LaneBytes \in Nat \ {0}
    BY BlockSizes
  <2>3. (n * LaneBytes) + 0 = LaneBytes * n
    BY <2>2
  <2> QED BY <2>1, <2>3
<1>3. ASSUME NEW j \in 1..n, NEW b \in 1..LaneBytes
      PROVE  t[LaneBytes * j + 1 - b] = s[LaneBytes * (j - 1) + b]
  <2> DEFINE c == LaneBytes + 1 - b
  <2>1. /\ LaneBytes \in Nat \ {0} /\ c \in 1..LaneBytes /\ j - 1 \in Nat
        /\ LaneBytes + 1 - c = b
    BY BlockSizes
  <2>2. LaneBytes * j = LaneBytes * (j - 1) + LaneBytes
    BY <2>1
  <2>3. LaneBytes * j + 1 - b = LaneBytes * (j - 1) + c
    BY <2>1, <2>2
  <2> HIDE DEF c
  <2>4. LaneBytes * (j - 1) + c \in 1..l
    BY <2>1, ByteInside
  <2> DEFINE q == j - 1
  <2>5. q \in Nat /\ LaneBytes * q + c \in 1..l
    BY <2>1, <2>4
  <2> HIDE DEF q
  <2>6. t[LaneBytes * q + c] = s[LaneBytes * q + (LaneBytes + 1 - c)]
    BY <2>1, <2>5, ReversedLong
  <2> HIDE DEF t
  <2> QED BY <2>1, <2>3, <2>6 DEF q
<1> HIDE DEF t, l
<1>4. HostWords(t) = [j \in 1..n |-> Number([b \in 1..LaneBytes |-> t[LaneBytes * j + 1 - b]], 256)]
  BY <1>1, <1>2 DEF HostWords
<1>5. ASSUME NEW j \in 1..n
      PROVE  [b \in 1..LaneBytes |-> t[LaneBytes * j + 1 - b]] = [b \in 1..LaneBytes |-> s[LaneBytes * (j - 1) + b]]
  BY <1>3
<1> QED BY <1>4, <1>5 DEF WordAt, LanesOf, t

LaneWords == {Number(s, 256) : s \in [1..LaneBytes -> 0..255]}
OctetsOf(w) == DigitsOf(w, 256, LaneBytes)

LEMMA WordOctets ==
    ASSUME NEW w \in LaneWords
    PROVE  Octets(OctetsOf(w), LaneBytes) /\ Number(OctetsOf(w), 256) = w /\ w \in Nat
<1> PICK s \in [1..LaneBytes -> 0..255] : w = Number(s, 256)
  BY DEF LaneWords
<1>1. LaneBytes \in Nat
  BY BlockSizes
<1>2. Octets(s, LaneBytes)
  BY <1>1 DEF Octets, Long
<1>3. OctetsOf(w) = s /\ w \in Nat
  BY <1>1, <1>2, DigitsBack DEF OctetsOf, Octets
<1> QED BY <1>2, <1>3

LEMMA OctetsMakeWord ==
    ASSUME NEW s, NEW n \in Nat, Octets(s, LaneBytes * n), NEW j \in 1..n
    PROVE  WordAt(s, j) \in LaneWords
<1> DEFINE t == [b \in 1..LaneBytes |-> s[LaneBytes * (j - 1) + b]]
<1>1. t \in [1..LaneBytes -> 0..255]
  BY ByteInside DEF Octets
<1> HIDE DEF t
<1>2. Number(t, 256) \in LaneWords
  BY <1>1 DEF LaneWords
<1> QED BY <1>2 DEF WordAt, t

LEMMA BigEndianLong ==
    ASSUME NEW v, NEW n \in Nat
    PROVE  /\ Long(BigEndian(v, n), LaneBytes * n)
           /\ \A j \in 1..n, b \in 1..LaneBytes : BigEndian(v, n)[LaneBytes * (j - 1) + b] = OctetsOf(v[j])[b]
<1> DEFINE t == BigEndian(v, n)
           D(p, r) == DigitsOf(v[p + 1], 256, LaneBytes)[r]
<1>1. t = [k \in 1..LaneBytes * n |-> D((k - 1) \div LaneBytes, ((k - 1) % LaneBytes) + 1)]
  BY DEF BigEndian
<1>2. LaneBytes \in Nat \ {0} /\ LaneBytes * n \in Nat
  BY BlockSizes
<1> HIDE DEF t, D
<1>3. Long(t, LaneBytes * n)
  BY <1>1, <1>2 DEF Long
<1>4. ASSUME NEW j \in 1..n, NEW b \in 1..LaneBytes
      PROVE  t[LaneBytes * (j - 1) + b] = OctetsOf(v[j])[b]
  <2> DEFINE k == LaneBytes * (j - 1) + b
             p == j - 1
             r == b - 1
  <2>1. k \in 1..LaneBytes * n
    BY ByteInside
  <2>2. p \in Nat /\ r \in Nat /\ r < LaneBytes /\ p + 1 = j /\ r + 1 = b
    BY <1>2
  <2>3. k - 1 = (p * LaneBytes) + r
    BY <1>2
  <2> HIDE DEF k, p, r
  <2>4. (k - 1) \div LaneBytes = p /\ (k - 1) % LaneBytes = r
    BY <1>2, <2>2, <2>3, QuotientIs
  <2>5. t[k] = D(p, r + 1)
    BY <1>1, <2>1, <2>4
  <2>6. D(p, b) = OctetsOf(v[j])[b]
    BY <2>2 DEF D, OctetsOf
  <2> QED BY <2>2, <2>5, <2>6 DEF k
<1> QED BY <1>3, <1>4 DEF t

\* Eight words, and the bytes of eight words.
Eight == [1..8 -> LaneWords]

LEMMA DigestOctets ==
    ASSUME NEW v \in Eight
    PROVE  Octets(BigEndian(v, 8), DigestLength) /\ LanesOf(BigEndian(v, 8)) = v
<1> DEFINE n == 8
           t == BigEndian(v, n)
           size == LaneBytes * n
<1>1. n \in Nat /\ LaneBytes \in Nat \ {0} /\ size = DigestLength /\ size \in Nat
  BY BlockSizes DEF DigestLength
<1>2. v \in [1..n -> LaneWords]
  BY DEF Eight
<1> HIDE DEF n
<1>3. Long(t, size) /\ \A j \in 1..n, b \in 1..LaneBytes : t[LaneBytes * (j - 1) + b] = OctetsOf(v[j])[b]
  BY <1>1, BigEndianLong
<1> HIDE DEF t
<1>4. ASSUME NEW k \in 1..size PROVE t[k] \in 0..255
  <2> DEFINE p == (k - 1) \div LaneBytes
             r == (k - 1) % LaneBytes
             a == k - 1
  <2>1. a \in Nat
    BY <1>1
  <2> HIDE DEF a
  <2>2. a \div LaneBytes \in Nat /\ a % LaneBytes \in 0..LaneBytes - 1 /\ a = ((a \div LaneBytes) * LaneBytes) + (a % LaneBytes)
    BY <1>1, <2>1, Division
  <2>3. p \in Nat /\ r \in 0..LaneBytes - 1 /\ k - 1 = p * LaneBytes + r
    BY <2>2 DEF a
  <2> HIDE DEF p, r
  <2> DEFINE m == n - p
             x == p * LaneBytes
             j == p + 1
             b == r + 1
  <2>4. m \in Int /\ x \in Nat /\ size = x + m * LaneBytes /\ x < size
    BY <1>1, <2>3
  <2>5. m >= 1
    <3> HIDE DEF m, x, size
    <3>1. m * LaneBytes > 0
      BY <1>1, <2>4
    <3> QED BY <1>1, <2>4, <3>1
  <2>6. j \in 1..n /\ b \in 1..LaneBytes /\ j - 1 = p
    BY <1>1, <2>3, <2>5
  <2>7. k = LaneBytes * p + b
    BY <1>1, <2>3
  <2> HIDE DEF j, b
  <2>8. t[LaneBytes * (j - 1) + b] = OctetsOf(v[j])[b] /\ v[j] \in LaneWords
    BY <1>2, <1>3, <2>6
  <2>9. OctetsOf(v[j])[b] \in 0..255
    BY <2>6, <2>8, WordOctets DEF Octets
  <2> QED BY <2>6, <2>7, <2>8, <2>9
<1>5. Octets(t, size)
  BY <1>3, <1>4 DEF Octets
<1>6. ASSUME NEW j \in 1..n PROVE WordAt(t, j) = v[j]
  <2> DEFINE w == v[j]
             u == [b \in 1..LaneBytes |-> t[LaneBytes * (j - 1) + b]]
  <2>1. w \in LaneWords
    BY <1>2
  <2>2. Octets(OctetsOf(w), LaneBytes) /\ Number(OctetsOf(w), 256) = w
    BY <2>1, WordOctets
  <2>3. u = [b \in 1..LaneBytes |-> OctetsOf(w)[b]]
    BY <1>3
  <2>4. u = OctetsOf(w)
    BY <2>2, <2>3 DEF Octets, Long
  <2> QED BY <2>2, <2>4 DEF WordAt
<1>7. LanesOf(t) = [j \in 1..n |-> WordAt(t, j)]
  BY <1>1, <1>3, LanesAre
<1>8. LanesOf(t) = v
  BY <1>2, <1>6, <1>7
<1> QED BY <1>1, <1>5, <1>8 DEF t, n

LEMMA BytesAre ==
    ASSUME NEW v, Len(v) = 8
    PROVE  BytesOf(v) = BigEndian(v, 8)
BY ReversedHostBytes DEF BytesOf

-----------------------------------------------------------------------------
(* The exclusive or of words is the one of their bytes.                     *)

LEMMA XorLanesAre ==
    ASSUME NEW s, NEW t, NEW u, NEW n \in Nat, Octets(s, LaneBytes * n), Octets(t, LaneBytes * n),
           Long(u, LaneBytes * n), \A i \in 1..LaneBytes * n : u[i] = s[i] ^^ t[i]
    PROVE  \A j \in 1..n : WordAt(s, j) ^^ WordAt(t, j) = WordAt(u, j)
<1> SUFFICES ASSUME NEW j \in 1..n PROVE WordAt(s, j) ^^ WordAt(t, j) = WordAt(u, j)
  OBVIOUS
<1> DEFINE S == [b \in 1..LaneBytes |-> s[LaneBytes * (j - 1) + b]]
           R == [b \in 1..LaneBytes |-> t[LaneBytes * (j - 1) + b]]
           U == [b \in 1..LaneBytes |-> u[LaneBytes * (j - 1) + b]]
<1>1. LaneBytes \in Nat
  BY BlockSizes
<1>2. Octets(S, LaneBytes) /\ Octets(R, LaneBytes)
  BY <1>1, ByteInside DEF Octets, Long
<1>3. Long(U, LaneBytes)
  BY <1>1 DEF Long
<1>4. \A b \in 1..LaneBytes : U[b] = S[b] ^^ R[b]
  BY ByteInside
<1> HIDE DEF S, R, U
<1>5. Number(S, 256) ^^ Number(R, 256) = Number(U, 256)
  BY <1>1, <1>2, <1>3, <1>4, XorOfNumbers
<1> QED BY <1>5 DEF WordAt, S, R, U

-----------------------------------------------------------------------------
(* HMAC.                                                                    *)

\* A compression computes words.
Compresses(F) == \A s \in [1..8 -> Nat], b \in [1..16 -> Nat] : Squeeze(F, s, b) \in Eight

\* The words of the digest of the n bytes of m.
DigestWords(F, init, m, n, before) ==
    Squeeze(F, Chained("lanes", F, init, BlocksOf(Body(m, n)), BlocksBefore(n)),
            LastBlock(Body(m, n), BlockLength * BlocksBefore(n), CountOf(8 * n + before)))

LEMMA EightNat == Eight \subseteq [1..8 -> Nat]
<1>1. LaneWords \subseteq Nat
  BY WordOctets
<1> QED BY <1>1 DEF Eight

LEMMA WordsNat ==
    ASSUME NEW s, NEW n \in Nat, \A i \in 1..n : s[i] \in 0..255, NEW at \in Nat, at + BlockLength <= n
    PROVE  WordsOf(s, at) \in [1..16 -> Nat]
<1> SUFFICES ASSUME NEW j \in 1..16
             PROVE  Number([b \in 1..LaneBytes |-> s[at + (LaneBytes * (j - 1) + b)]], 256) \in Nat
  BY DEF WordsOf
<1> DEFINE t == [b \in 1..LaneBytes |-> s[at + (LaneBytes * (j - 1) + b)]]
<1>1. LaneBytes \in Nat /\ BlockLength \in Nat
  BY BlockSizes
<1>2. ASSUME NEW b \in 1..LaneBytes PROVE at + (LaneBytes * (j - 1) + b) \in 1..n
  <2> DEFINE k == LaneBytes * (j - 1) + b
  <2>1. k \in 1..BlockLength
    BY ByteOfWord
  <2> HIDE DEF k
  <2>2. at + k \in 1..n
    BY <1>1, <2>1
  <2> QED BY <2>2 DEF k
<1>3. Octets(t, LaneBytes)
  BY <1>1, <1>2 DEF Octets, Long
<1> HIDE DEF t
<1>4. Number(t, 256) \in Nat
  BY <1>1, <1>3, DigitsBack DEF Octets
<1> QED BY <1>4 DEF t

LEMMA BodyOctets ==
    ASSUME NEW m, NEW n \in Nat, Octets(m, n)
    PROVE  LET Q == BlocksBefore(n)
           IN /\ Q \in Nat
              /\ \A i \in 1..Q : BlocksOf(Body(m, n))[i] \in [1..16 -> Nat]
              /\ \A before \in Nat : LastBlock(Body(m, n), BlockLength * Q, CountOf(8 * n + before)) \in [1..16 -> Nat]
<1> DEFINE Q == BlocksBefore(n)
           d == Body(m, n)
           x == Q * BlockLength
           l == x + ShortBlockLength
<1>1. Q \in Nat
  BY ZerosAre
<1>2. BlockLength \in Nat /\ LaneBytes \in Nat /\ ShortBlockLength = 14 * LaneBytes /\ BlockLength = 16 * LaneBytes
  BY BlockSizes DEF ShortBlockLength
<1>3. x \in Nat /\ x = BlockLength * Q /\ l \in Nat
  BY <1>1, <1>2
<1>4. \A i \in 1..l : d[i] \in 0..255
  <2>1. /\ \A i \in 1..n : d[i] = m[i]
        /\ d[n + 1] = 128
        /\ \A i \in n + 2..l : d[i] = 0
    BY BodyIs DEF Octets
  <2> HIDE DEF d, l
  <2> QED BY <1>3, <2>1 DEF Octets
<1> HIDE DEF Q, d, x
<1>5. ASSUME NEW i \in 1..Q PROVE BlocksOf(d)[i] \in [1..16 -> Nat]
  <2> DEFINE at == BlockLength * (i - 1)
             y == BlockLength * (Q - i)
  <2>1. at \in Nat /\ y \in Nat /\ x = at + BlockLength + y
    BY <1>1, <1>2, <1>3
  <2>2. at + BlockLength <= l
    BY <1>2, <2>1
  <2>3. BlocksOf(d)[i] = WordsOf(d, at)
    BY <1>1 DEF BlocksOf
  <2> HIDE DEF at, l
  <2>4. l \in Nat /\ at \in Nat
    BY <1>3, <2>1
  <2>5. WordsOf(d, at) \in [1..16 -> Nat]
    BY <1>4, <2>2, <2>4, WordsNat
  <2> QED BY <2>3, <2>5
<1>6. ASSUME NEW before \in Nat PROVE LastBlock(d, BlockLength * Q, CountOf(8 * n + before)) \in [1..16 -> Nat]
  <2> DEFINE count == CountOf(8 * n + before)
  <2>1. count.high \in Nat /\ count.low \in Nat
    <3> DEFINE bits == 8 * n + before
    <3>1. bits \in Nat /\ Lane \in Nat \ {0}
      BY BlockSizes
    <3> HIDE DEF bits
    <3>5. bits \div Lane \in Nat /\ bits % Lane \in 0..Lane - 1
      BY <3>1, Division
    <3>2. bits \div Lane \in Nat /\ bits % Lane \in Nat
      BY <3>1, <3>5
    <3> DEFINE high == bits \div Lane
    <3>3. high \in Nat
      BY <3>2
    <3> HIDE DEF high
    <3>6. high % Lane \in 0..Lane - 1
      BY <3>1, <3>3, Division
    <3>4. high % Lane \in Nat
      BY <3>1, <3>6
    <3> QED BY <3>2, <3>4 DEF CountOf, bits, high
  <2> HIDE DEF count
  <2>2. ASSUME NEW j \in 1..14 PROVE WordsOf(d, x)[j] \in Nat
    <3> DEFINE t == [b \in 1..LaneBytes |-> d[x + (LaneBytes * (j - 1) + b)]]
    <3>1. WordsOf(d, x)[j] = Number(t, 256)
      BY DEF WordsOf
    <3>2. ASSUME NEW b \in 1..LaneBytes PROVE x + (LaneBytes * (j - 1) + b) \in 1..l
      <4> DEFINE k == LaneBytes * (j - 1) + b
                 fourteen == 14
      <4>1. fourteen \in Nat /\ j \in 1..fourteen
        OBVIOUS
      <4> HIDE DEF fourteen
      <4>2. k \in 1..LaneBytes * fourteen
        BY <4>1, ByteInside
      <4>3. LaneBytes * fourteen = ShortBlockLength
        BY <1>2 DEF fourteen
      <4> HIDE DEF k
      <4>4. k \in 1..ShortBlockLength /\ ShortBlockLength \in Nat
        BY <1>2, <4>2, <4>3
      <4>5. x + k \in 1..l
        BY <1>3, <4>4
      <4> QED BY <4>5 DEF k
    <3> HIDE DEF l
    <3>3. Octets(t, LaneBytes)
      BY <1>2, <1>4, <3>2 DEF Octets, Long
    <3> HIDE DEF t
    <3>4. Number(t, 256) \in Nat
      BY <1>2, <3>3, DigitsBack DEF Octets
    <3> QED BY <3>1, <3>4
  <2>3. ASSUME NEW j \in 1..16
        PROVE  (IF j = 15 THEN count.high ELSE IF j = 16 THEN count.low ELSE WordsOf(d, x)[j]) \in Nat
    <3>1. CASE j \in 1..14
      BY <2>2, <3>1
    <3>2. CASE j \in {15, 16}
      BY <2>1, <3>2
    <3> QED BY <3>1, <3>2
  <2>4. LastBlock(d, x, count) \in [1..16 -> Nat]
    BY <2>3 DEF LastBlock
  <2> QED BY <1>3, <2>4 DEF count
<1> QED BY <1>1, <1>5, <1>6 DEF Q, d

LEMMA DigestIs ==
    ASSUME NEW F, Compresses(F), NEW init \in [1..8 -> Nat], NEW m, NEW n \in Nat, Octets(m, n), NEW before \in Nat
    PROVE  /\ DigestWords(F, init, m, n, before) \in Eight
           /\ ShaOf(F, init, m, before, 8) = BigEndian(DigestWords(F, init, m, n, before), 8)
<1> DEFINE B == BlocksOf(Body(m, n))
           Q == BlocksBefore(n)
           S(i) == Chained("lanes", F, init, B, i)
           last == LastBlock(Body(m, n), BlockLength * Q, CountOf(8 * n + before))
<1>1. Q \in Nat /\ (\A i \in 1..Q : B[i] \in [1..16 -> Nat]) /\ last \in [1..16 -> Nat]
  BY BodyOctets
<1>2. ShaOf(F, init, m, before, 8) = BigEndian(Squeeze(F, S(Q), last), 8)
  BY ShaOfIs DEF Octets
<1>3. DigestWords(F, init, m, n, before) = Squeeze(F, S(Q), last)
  BY DEF DigestWords
<1> HIDE DEF B, Q, last
<1>4. S(0) = init
  BY ChainedNone
<1>5. ASSUME NEW i \in Nat PROVE S(i + 1) = Squeeze(F, S(i), B[i + 1])
  BY LanesOnce
<1> HIDE DEF S
<1> DEFINE T == {i \in Nat : i <= Q => S(i) \in [1..8 -> Nat]}
<1>6. 0 \in T
  BY <1>4
<1>7. ASSUME NEW i \in Nat, i \in T PROVE i + 1 \in T
  <2> SUFFICES ASSUME i + 1 <= Q PROVE S(i + 1) \in [1..8 -> Nat]
    OBVIOUS
  <2> DEFINE j == i + 1
  <2>1. S(i) \in [1..8 -> Nat] /\ j \in 1..Q
    BY <1>1, <1>7
  <2>2. S(j) = Squeeze(F, S(i), B[j]) /\ B[j] \in [1..16 -> Nat]
    BY <1>1, <1>5, <2>1
  <2> HIDE DEF j
  <2>3. S(j) \in Eight
    BY <2>1, <2>2 DEF Compresses
  <2> QED BY <2>3, EightNat DEF j
<1> HIDE DEF T
<1>8. Q \in T
  BY <1>1, <1>6, <1>7, Induction
<1>9. S(Q) \in [1..8 -> Nat]
  BY <1>1, <1>8 DEF T
<1>10. Squeeze(F, S(Q), last) \in Eight
  BY <1>1, <1>9 DEF Compresses
<1> QED BY <1>2, <1>3, <1>10

LEMMA InitialNat == InitialState(Sha256) \in [1..8 -> Nat] /\ Sha256Init.state = InitialState(Sha256)
<1>1. Sha256.lanes = 8
  BY DEF Sha256
<1>2. Lane \in Nat \ {0}
  BY BlockSizes
<1> HIDE DEF Lane
<1>3. ASSUME NEW i \in 1..8 PROVE (31 * i + 5) % Lane \in Nat
  <2> DEFINE a == 31 * i + 5
  <2>1. a \in Nat
    OBVIOUS
  <2> HIDE DEF a
  <2>2. a % Lane \in 0..Lane - 1
    BY <1>2, <2>1, Division
  <2>3. a % Lane \in Nat
    BY <1>2, <2>2
  <2> QED BY <2>3 DEF a
<1>4. InitialState(Sha256) = [i \in 1..8 |-> (31 * i + 5) % Lane]
  BY <1>1 DEF InitialState
<1> QED BY <1>3, <1>4 DEF Sha256Init, Sha256InitEx

LEMMA HashOctets ==
    ASSUME NEW F, Compresses(F), NEW m, NEW n \in Nat, Octets(m, n)
    PROVE  /\ Octets(HashBy(F, m), DigestLength)
           /\ LanesOf(HashBy(F, m)) \in Eight
           /\ HashBy(F, m) = BigEndian(LanesOf(HashBy(F, m)), 8)
<1> DEFINE v == DigestWords(F, InitialState(Sha256), m, n, 0)
<1>1. v \in Eight /\ HashBy(F, m) = BigEndian(v, 8)
  BY InitialNat, DigestIs DEF HashBy
<1> HIDE DEF v
<1>2. Octets(BigEndian(v, 8), DigestLength) /\ LanesOf(BigEndian(v, 8)) = v
  BY <1>1, DigestOctets
<1> QED BY <1>1, <1>2

PadOf(F, key, byte) == XorBytes(KeyBlock(F, Sha256Init, key), byte)

LEMMA XorLong ==
    ASSUME NEW s, NEW n, Long(s, n), NEW byte
    PROVE  Long(XorBytes(s, byte), n) /\ \A i \in 1..n : XorBytes(s, byte)[i] = s[i] ^^ byte
<1>1. Len(s) = n /\ n \in Nat
  BY LongIsSeq DEF Long
<1>2. XorBytes(s, byte) = [i \in 1..n |-> s[i] ^^ byte]
  BY <1>1 DEF XorBytes
<1> QED BY <1>1, <1>2 DEF Long

\* What of a key is filled up to a block.
Shortened(F, key) == IF Len(key) > BlockLength THEN HashBy(F, key) ELSE key

LEMMA ShortenedLong ==
    ASSUME NEW F, NEW key, NEW k, Long(key, k)
    PROVE  /\ \E n \in 0..BlockLength : Long(Shortened(F, key), n)
           /\ KeyBlock(F, Sha256Init, key) = FilledUp(Shortened(F, key))
<1>1. Len(key) = k /\ k \in Nat
  BY LongIsSeq DEF Long
<1>2. ShaRaw(F, Sha256Init, key, 8) = HashBy(F, key)
  BY RawIs DEF HashBy, Sha256Init
<1>3. KeyBlock(F, Sha256Init, key) = FilledUp(Shortened(F, key))
  BY <1>2 DEF KeyBlock, HashedFirst, Shortened
<1>4. BlockLength \in Nat /\ DigestLength \in Nat /\ DigestLength <= BlockLength
  BY BlockSizes, MacSizes
<1>5. CASE k > BlockLength
  <2> DEFINE n == 8
  <2>1. LaneBytes * n = DigestLength /\ n \in Nat
    BY BlockSizes DEF DigestLength
  <2> HIDE DEF n
  <2>2. Long(ShaOf(F, InitialState(Sha256), key, 0, n), LaneBytes * n)
    BY <2>1, DigestLong
  <2>3. Long(HashBy(F, key), DigestLength)
    BY <2>1, <2>2 DEF HashBy, n
  <2> QED BY <1>1, <1>3, <1>4, <1>5, <2>3 DEF Shortened
<1>6. CASE ~(k > BlockLength)
  BY <1>1, <1>3, <1>4, <1>6 DEF Shortened
<1> QED BY <1>5, <1>6

LEMMA FilledUpLong ==
    ASSUME NEW s, NEW n \in 0..BlockLength, Long(s, n)
    PROVE  /\ Long(FilledUp(s), BlockLength)
           /\ \A i \in 1..n : FilledUp(s)[i] = s[i]
           /\ \A i \in n + 1..BlockLength : FilledUp(s)[i] = 0
<1> DEFINE z == BlockLength - n
           t == Zeros(z)
           d == s \o t
<1>7. BlockLength \in Nat
  BY BlockSizes
<1>8. Len(s) = n
  BY LongIsSeq
<1>1. BlockLength \in Nat /\ z \in Nat /\ n \in Nat /\ n + z = BlockLength /\ Len(s) = n
  BY <1>7, <1>8
<1>2. Long(t, z) /\ \A i \in 1..z : t[i] = 0
  BY <1>1, ZerosLong
<1>3. FilledUp(s) = d
  BY <1>1 DEF FilledUp
<1> HIDE DEF t, z
<1>4. JoinOf(d, s, n, t, z)
  BY <1>1, <1>2, JoinIs
<1> HIDE DEF d
<1>5. Long(d, n + z) /\ (\A i \in 1..n : d[i] = s[i]) /\ \A i \in 1..z : d[n + i] = t[i]
  BY <1>4 DEF JoinOf
<1>6. ASSUME NEW i \in n + 1..BlockLength PROVE d[i] = 0
  <2> DEFINE j == i - n
  <2>1. j \in 1..z /\ n + j = i
    BY <1>1
  <2> HIDE DEF j
  <2> QED BY <1>2, <1>5, <2>1
<1> QED BY <1>1, <1>3, <1>5, <1>6

LEMMA PadLong ==
    ASSUME NEW F, NEW key, NEW k, Long(key, k), NEW byte
    PROVE  Long(KeyBlock(F, Sha256Init, key), BlockLength) /\ Long(PadOf(F, key, byte), BlockLength)
<1>1. Long(KeyBlock(F, Sha256Init, key), BlockLength)
  BY ShortenedLong, FilledUpLong
<1> QED BY <1>1, XorLong DEF PadOf

LEMMA HmacIs ==
    ASSUME NEW F, NEW key, NEW k, Long(key, k), NEW m
    PROVE  HmacBy(F, key, m) = HashBy(F, PadOf(F, key, OuterPad) \o HashBy(F, PadOf(F, key, InnerPad) \o m))
<1> DEFINE short == IF Len(key) > BlockLength THEN HashBy(F, key) ELSE key
           block == short \o Zeros(BlockLength - Len(short))
<1>1. HmacBy(F, key, m) = HashBy(F, XorBytes(block, OuterPad) \o HashBy(F, XorBytes(block, InnerPad) \o m))
  BY DEF HmacBy, HmacOf
<1>2. block = KeyBlock(F, Sha256Init, key)
  BY ShortenedLong DEF FilledUp, Shortened
<1> HIDE DEF block
<1> QED BY <1>1, <1>2 DEF PadOf

LEMMA HashLong ==
    ASSUME NEW F, NEW m
    PROVE  Long(HashBy(F, m), DigestLength)
<1> DEFINE n == 8
<1>1. LaneBytes * n = DigestLength /\ n \in Nat
  BY BlockSizes DEF DigestLength
<1> HIDE DEF n
<1>2. Long(ShaOf(F, InitialState(Sha256), m, 0, n), LaneBytes * n)
  BY <1>1, DigestLong
<1> QED BY <1>1, <1>2 DEF HashBy, n

\* Fed after the first pad in two pieces, and closed with the second pad.
LEMMA HmacFed ==
    ASSUME NEW F, NEW key, NEW k, Long(key, k), NEW m, NEW n, Long(m, n), NEW more, NEW l, Long(more, l)
    PROVE  HmacFinal(F, Sha256Init, HmacUpdate(F, HmacUpdate(F, HmacInit(F, Sha256Init, key), m), more))
             = HmacBy(F, key, m \o more)
<1> DEFINE inner == PadOf(F, key, InnerPad)
           outer == PadOf(F, key, OuterPad)
           c0 == Sha256Init
           c1 == ShaUpdate(F, c0, inner)
           c2 == ShaUpdate(F, c1, m)
           c3 == ShaUpdate(F, c2, more)
           h1 == HmacInit(F, Sha256Init, key)
           h3 == HmacUpdate(F, HmacUpdate(F, h1, m), more)
           init == InitialState(Sha256)
           all == inner \o (m \o more)
           digest == HashBy(F, all)
<1>1. h1 = [o_key_pad |-> outer, ctx |-> c1]
  BY DEF HmacInit, PadOf
<1>2. h3.o_key_pad = outer /\ h3.ctx = c3
  <2> HIDE DEF h1, outer, c1
  <2>1. HmacUpdate(F, h1, m) = [o_key_pad |-> outer, ctx |-> c2]
    BY <1>1 DEF HmacUpdate
  <2> HIDE DEF c2
  <2> QED BY <2>1 DEF HmacUpdate
<1>3. Long(inner, BlockLength) /\ Long(outer, BlockLength)
  BY PadLong
<1> HIDE DEF h1, h3, inner, outer
<1>4. WasFed(F, init, 0, <<>>, 0, c0) /\ 0 \in Nat /\ 0 % (8 * BlockLength) = 0 /\ 8 \in Nat
  BY FedFresh, MacSizes DEF Sha256Init
<1> DEFINE none == 0
           eight == 8
<1>5. WasFed(F, init, none, <<>>, none, c0) /\ none \in Nat /\ none % (8 * BlockLength) = 0 /\ eight \in Nat
  BY <1>4
<1> HIDE DEF c0, init, none, eight
<1>6. WasFed(F, init, none, inner, BlockLength, c1)
  <2>1. Long(<<>>, none) /\ <<>> \o inner = inner /\ none + BlockLength = BlockLength
    BY <1>3, BlockSizes, EmptyLong DEF none
  <2>2. WasFed(F, init, none, <<>> \o inner, none + BlockLength, ShaUpdate(F, c0, inner))
    BY <1>3, <1>5, <2>1, FedOnward
  <2> QED BY <2>1, <2>2
<1> HIDE DEF c1
<1>7. ShaFinal(F, c3, eight) = ShaOf(F, init, all, none, eight)
  BY <1>3, <1>5, <1>6, FedTwiceToEnd
<1>8. Long(digest, DigestLength)
  BY HashLong
<1>9. digest = ShaFinal(F, c3, eight)
  BY <1>7 DEF HashBy, init, none, eight
<1> HIDE DEF digest, c3, c2
<1>10. ShaFinal(F, ShaUpdate(F, ShaUpdate(F, c0, outer), digest), eight) = ShaOf(F, init, outer \o digest, none, eight)
  <2>1. Long(<<>>, none) /\ <<>> \o (outer \o digest) = outer \o digest
    <3>1. Long(outer \o digest, BlockLength + DigestLength)
      BY <1>3, <1>8, JoinLong
    <3> QED BY <3>1, EmptyLong DEF none
  <2> DEFINE nil == <<>>
  <2>2. Long(nil, none) /\ WasFed(F, init, none, nil, none, c0) /\ none \in Nat /\ none % (8 * BlockLength) = 0 /\ eight \in Nat
    BY <1>5, <2>1
  <2> HIDE DEF nil
  <2>3. ShaFinal(F, ShaUpdate(F, ShaUpdate(F, c0, outer), digest), eight)
          = ShaOf(F, init, nil \o (outer \o digest), none, eight)
    BY <1>3, <1>8, <2>2, FedTwiceToEnd
  <2> QED BY <2>1, <2>3 DEF nil
<1>11. HmacFinal(F, Sha256Init, h3) = ShaFinal(F, ShaUpdate(F, ShaUpdate(F, c0, outer), digest), eight)
  BY <1>2, <1>9 DEF HmacFinal, c0, eight
<1>12. HmacBy(F, key, m \o more) = HashBy(F, outer \o digest)
  BY HmacIs DEF inner, outer, digest
<1> QED BY <1>10, <1>11, <1>12 DEF HashBy, init, none, eight, h1, h3

LEMMA HmacOnce ==
    ASSUME NEW F, NEW key, NEW k, Long(key, k), NEW m, NEW n, Long(m, n)
    PROVE  Hmac(F, Sha256Init, key, m) = HmacBy(F, key, m)
<1> DEFINE h == HmacUpdate(F, HmacInit(F, Sha256Init, key), m)
<1>1. Long(<<>>, 0)
  BY EmptyLong
<1>2. m \o <<>> = m
  <2> DEFINE d == m \o <<>>
  <2>1. n \in Nat /\ JoinOf(d, m, n, <<>>, 0)
    BY <1>1, JoinIs DEF Long
  <2> HIDE DEF d
  <2>2. n + 0 = n /\ Long(d, n) /\ \A i \in 1..n : d[i] = m[i]
    BY <2>1 DEF JoinOf
  <2>3. d = m
    BY <2>2, SameLong
  <2> QED BY <2>3 DEF d
<1>3. HmacUpdate(F, h, <<>>) = h
  <2> DEFINE i == HmacInit(F, Sha256Init, key)
             c == ShaUpdate(F, i.ctx, m)
  <2>1. h = [o_key_pad |-> i.o_key_pad, ctx |-> c]
    <3>1. i = [o_key_pad |-> i.o_key_pad, ctx |-> i.ctx]
      BY DEF HmacInit
    <3>2. h = HmacUpdate(F, i, m)
      OBVIOUS
    <3> HIDE DEF i, h
    <3> QED BY <3>1, <3>2 DEF HmacUpdate
  <2>2. ShaUpdate(F, c, <<>>) = c
    BY DEF ShaUpdate
  <2> HIDE DEF i, c, h
  <2> QED BY <2>1, <2>2 DEF HmacUpdate
<1>4. HmacFinal(F, Sha256Init, HmacUpdate(F, h, <<>>)) = HmacBy(F, key, m \o <<>>)
  BY <1>1, HmacFed
<1> QED BY <1>2, <1>3, <1>4 DEF Hmac

\* From the states that the pads lead to.
KeyedState(F, key, byte) == Squeeze(F, InitialState(Sha256), LanesOf(PadOf(F, key, byte)))

LEMMA HmacResumed ==
    ASSUME NEW F, NEW key, NEW k, Long(key, k), NEW d, NEW n, Long(d, n)
    PROVE  /\ ShaOf(F, KeyedState(F, key, OuterPad), ShaOf(F, KeyedState(F, key, InnerPad), d, 8 * BlockLength, 8), 8 * BlockLength, 8)
                = HmacBy(F, key, d)
           /\ LET Continued(state, data) == ShaFinal(F, ShaUpdate(F, Resumed(state, BlockLength), data), 8)
              IN Continued(KeyedState(F, key, OuterPad), Continued(KeyedState(F, key, InnerPad), d)) = HmacBy(F, key, d)
<1> DEFINE inner == PadOf(F, key, InnerPad)
           outer == PadOf(F, key, OuterPad)
           init == InitialState(Sha256)
           digest == HashBy(F, inner \o d)
           eight == 8
           C(state, data) == ShaFinal(F, ShaUpdate(F, Resumed(state, BlockLength), data), 8)
<1>1. Long(inner, BlockLength) /\ Long(outer, BlockLength) /\ Long(digest, DigestLength) /\ eight \in Nat
  BY PadLong, HashLong
<1>2. HmacBy(F, key, d) = HashBy(F, outer \o digest)
  BY HmacIs
<1> HIDE DEF inner, outer, eight, digest
<1>3. /\ ShaOf(F, Squeeze(F, init, LanesOf(inner)), d, 8 * BlockLength, eight) = ShaOf(F, init, inner \o d, 0, eight)
      /\ ShaFinal(F, ShaUpdate(F, Resumed(Squeeze(F, init, LanesOf(inner)), BlockLength), d), eight)
           = ShaOf(F, init, inner \o d, 0, eight)
  BY <1>1, BehindBlock
<1>4. /\ ShaOf(F, Squeeze(F, init, LanesOf(outer)), digest, 8 * BlockLength, eight) = ShaOf(F, init, outer \o digest, 0, eight)
      /\ ShaFinal(F, ShaUpdate(F, Resumed(Squeeze(F, init, LanesOf(outer)), BlockLength), digest), eight)
           = ShaOf(F, init, outer \o digest, 0, eight)
  BY <1>1, BehindBlock
<1>5. ShaOf(F, KeyedState(F, key, InnerPad), d, 8 * BlockLength, 8) = digest /\ C(KeyedState(F, key, InnerPad), d) = digest
  BY <1>3 DEF KeyedState, inner, digest, eight, HashBy
<1>6. ShaOf(F, KeyedState(F, key, OuterPad), digest, 8 * BlockLength, 8) = HmacBy(F, key, d)
      /\ C(KeyedState(F, key, OuterPad), digest) = HmacBy(F, key, d)
  BY <1>2, <1>4 DEF KeyedState, outer, eight, HashBy
<1> HIDE DEF C
<1>7. C(KeyedState(F, key, OuterPad), C(KeyedState(F, key, InnerPad), d)) = HmacBy(F, key, d)
  BY <1>5, <1>6
<1> QED BY <1>5, <1>6, <1>7 DEF C

LEMMA KeyBlockOctets ==
    ASSUME NEW F, Compresses(F), NEW key, NEW k, Octets(key, k)
    PROVE  Octets(KeyBlock(F, Sha256Init, key), BlockLength)
<1>1. Long(key, k) /\ k \in Nat
  BY DEF Octets, Long
<1>2. Len(key) = k
  BY <1>1, LongIsSeq
<1>3. BlockLength \in Nat /\ DigestLength \in Nat /\ DigestLength <= BlockLength
  BY BlockSizes, MacSizes
<1>4. \E n \in 0..BlockLength : Octets(Shortened(F, key), n)
  <2>1. CASE k > BlockLength
    <3>1. Octets(HashBy(F, key), DigestLength)
      BY <1>1, HashOctets
    <3> QED BY <1>2, <1>3, <2>1, <3>1 DEF Shortened
  <2>2. CASE ~(k > BlockLength)
    BY <1>1, <1>2, <1>3, <2>2 DEF Shortened
  <2> QED BY <2>1, <2>2
<1> PICK n \in 0..BlockLength : Octets(Shortened(F, key), n)
  BY <1>4
<1> DEFINE s == Shortened(F, key)
           d == FilledUp(s)
<1>5. Long(d, BlockLength) /\ (\A i \in 1..n : d[i] = s[i]) /\ \A i \in n + 1..BlockLength : d[i] = 0
  BY FilledUpLong DEF Octets
<1>6. \A i \in 1..n : s[i] \in 0..255
  BY DEF Octets
<1>7. KeyBlock(F, Sha256Init, key) = d
  BY <1>1, ShortenedLong
<1> HIDE DEF d, s
<1>8. Octets(d, BlockLength)
  BY <1>3, <1>5, <1>6 DEF Octets
<1> QED BY <1>7, <1>8

LEMMA PadOctets ==
    ASSUME NEW F, Compresses(F), NEW key, NEW k, Octets(key, k), NEW byte \in 0..255
    PROVE  Octets(PadOf(F, key, byte), BlockLength)
<1> DEFINE block == KeyBlock(F, Sha256Init, key)
<1>1. Octets(block, BlockLength)
  BY KeyBlockOctets
<1> HIDE DEF block
<1>2. Long(XorBytes(block, byte), BlockLength) /\ \A i \in 1..BlockLength : XorBytes(block, byte)[i] = block[i] ^^ byte
  BY <1>1, XorLong DEF Octets
<1>3. Octets(XorBytes(block, byte), BlockLength)
  BY <1>1, <1>2, XorOctets DEF Octets
<1> QED BY <1>3 DEF PadOf, block

LEMMA LanesNat ==
    ASSUME NEW s, Octets(s, BlockLength)
    PROVE  LanesOf(s) = [j \in 1..16 |-> WordAt(s, j)] /\ LanesOf(s) \in [1..16 -> Nat]
<1> DEFINE n == 16
<1>1. n \in Nat /\ LaneBytes * n = BlockLength
  BY BlockSizes
<1> HIDE DEF n
<1>2. LanesOf(s) = [j \in 1..n |-> WordAt(s, j)]
  BY <1>1, LanesAre DEF Octets
<1>3. ASSUME NEW j \in 1..n PROVE WordAt(s, j) \in Nat
  BY <1>1, OctetsMakeWord, WordOctets
<1> QED BY <1>2, <1>3 DEF n

LEMMA KeyedStateIs ==
    ASSUME NEW F, Compresses(F), NEW key, NEW k, Octets(key, k), NEW byte \in 0..255
    PROVE  KeyedState(F, key, byte) \in Eight
<1>1. LanesOf(PadOf(F, key, byte)) \in [1..16 -> Nat]
  BY PadOctets, LanesNat
<1> QED BY <1>1, InitialNat DEF KeyedState, Compresses

\* The words of the pads, instead of their bytes.
LEMMA XorPad ==
    ASSUME NEW s, Octets(s, BlockLength), NEW byte \in 0..255
    PROVE  XorLanes(LanesOf(s), [i \in 1..16 |-> Number([b \in 1..LaneBytes |-> byte], 256)]) = LanesOf(XorBytes(s, byte))
<1> DEFINE n == 16
           t == [i \in 1..BlockLength |-> byte]
           u == XorBytes(s, byte)
           pad == Number([b \in 1..LaneBytes |-> byte], 256)
           lanes == LanesOf(s)
<1>1. n \in Nat /\ LaneBytes * n = BlockLength /\ BlockLength \in Nat
  BY BlockSizes
<1>2. Octets(t, BlockLength)
  BY <1>1 DEF Octets, Long
<1>3. Long(u, BlockLength) /\ \A i \in 1..BlockLength : u[i] = s[i] ^^ byte
  BY XorLong DEF Octets
<1>4. \A i \in 1..BlockLength : t[i] = byte
  OBVIOUS
<1>5. Octets(u, BlockLength)
  BY <1>3, XorOctets DEF Octets
<1>6. LanesOf(u) = [j \in 1..16 |-> WordAt(u, j)] /\ lanes = [j \in 1..16 |-> WordAt(s, j)]
  BY <1>5, LanesNat
<1> HIDE DEF n, t, u
<1>7. \A j \in 1..n : WordAt(s, j) ^^ WordAt(t, j) = WordAt(u, j)
  BY <1>1, <1>2, <1>3, <1>4, XorLanesAre
<1>8. ASSUME NEW j \in 1..n PROVE WordAt(t, j) = pad
  <2>1. \A b \in 1..LaneBytes : t[LaneBytes * (j - 1) + b] = byte
    BY <1>1, <1>4, ByteInside
  <2> QED BY <2>1 DEF WordAt
<1> HIDE DEF pad
<1>9. Len(lanes) = 16
  BY <1>6
<1>10. XorLanes(lanes, [i \in 1..16 |-> pad]) = [j \in 1..16 |-> WordAt(s, j) ^^ pad]
  BY <1>6, <1>9 DEF XorLanes
<1>11. \A j \in 1..16 : WordAt(s, j) ^^ pad = WordAt(u, j)
  BY <1>7, <1>8 DEF n
<1>12. XorLanes(lanes, [i \in 1..16 |-> pad]) = LanesOf(u)
  BY <1>6, <1>10, <1>11
<1> QED BY <1>12 DEF pad, u

LEMMA PreparedIs ==
    ASSUME NEW F, Compresses(F), NEW key, NEW k, Octets(key, k)
    PROVE  HmacPrepare(F, Sha256Init, key)
             = [odig |-> KeyedState(F, key, OuterPad), idig |-> KeyedState(F, key, InnerPad)]
<1> DEFINE block == KeyBlock(F, Sha256Init, key)
           Pad(byte) == [i \in 1..16 |-> Number([b \in 1..LaneBytes |-> byte], 256)]
           inner == XorLanes(LanesOf(block), Pad(InnerPad))
           outer == XorLanes(LanesOf(block), Pad(OuterPad))
<1>1. Octets(block, BlockLength) /\ InnerPad \in 0..255 /\ OuterPad \in 0..255
  BY KeyBlockOctets DEF InnerPad, OuterPad
<1>2. HmacPrepare(F, Sha256Init, key) = [odig |-> Squeeze(F, Sha256Init.state, outer), idig |-> Squeeze(F, Sha256Init.state, inner)]
  BY DEF HmacPrepare, Squeeze
<1> HIDE DEF block
<1>3. inner = LanesOf(XorBytes(block, InnerPad)) /\ outer = LanesOf(XorBytes(block, OuterPad))
  BY <1>1, XorPad
<1> HIDE DEF inner, outer
<1> QED BY <1>2, <1>3, InitialNat DEF KeyedState, PadOf, block

-----------------------------------------------------------------------------
(* Messages of a digest, or of a digest and a byte, in one block.           *)

LEMMA ZeroWord ==
    ASSUME NEW s, NEW n \in Nat, Long(s, n), \A i \in 1..n : s[i] = 0
    PROVE  Number(s, 256) = 0
<1> DEFINE N(k) == Chained("number", 256, 0, s, k)
           T == {k \in Nat : k <= n => N(k) = 0}
<1>1. Octets(s, n)
  BY DEF Octets
<1>2. /\ N(0) = 0 /\ Number(s, 256) = N(n) /\ \A k \in 0..n : N(k) \in Nat
      /\ \A k \in 0..n - 1 : N(k + 1) \div 256 = N(k) /\ N(k + 1) % 256 = s[k + 1]
  BY <1>1, NumberGrows
<1> HIDE DEF N
<1>3. 0 \in T
  BY <1>2
<1>4. ASSUME NEW k \in Nat, k \in T PROVE k + 1 \in T
  <2> SUFFICES ASSUME k + 1 <= n PROVE N(k + 1) = 0
    OBVIOUS
  <2> DEFINE w == N(k + 1)
  <2>1. k \in 0..n - 1 /\ k + 1 \in 0..n /\ k + 1 \in 1..n /\ N(k) = 0
    BY <1>4
  <2>2. w \in Nat /\ w \div 256 = 0 /\ w % 256 = 0
    BY <1>2, <2>1
  <2> HIDE DEF w
  <2>3. w = 0
    BY <2>2
  <2> QED BY <2>3 DEF w
<1> HIDE DEF T
<1>5. n \in T
  BY <1>3, <1>4, Induction
<1> QED BY <1>2, <1>5 DEF T

\* A word whose first bytes are given, the others zeros.
LEMMA MarkIs ==
    /\ Mark \in Nat /\ MarkAfterDomain \in Nat
    /\ \A t : Long(t, LaneBytes) /\ t[1] = 128 /\ (\A b \in 2..LaneBytes : t[b] = 0) => Number(t, 256) = Mark
    /\ \A t : Long(t, LaneBytes) /\ t[1] = 0 /\ t[2] = 128 /\ (\A b \in 3..LaneBytes : t[b] = 0) => Number(t, 256) = MarkAfterDomain
<1> DEFINE one == 1
           two == 2
           p == <<128>>
           q == <<0, 128>>
           l1 == LaneBytes - 1
           l2 == LaneBytes - 2
           z1 == Zeros(l1)
           z2 == Zeros(l2)
           d1 == p \o z1
           d2 == q \o z2
<1>1. LaneBytes \in Nat /\ LaneBytes > 1
  BY LaneAssumption, MacAssumption
<1>2. one \in Nat /\ two \in Nat /\ l1 \in Nat /\ l2 \in Nat /\ one + l1 = LaneBytes /\ two + l2 = LaneBytes
  BY <1>1
<1>3. Long(p, one) /\ Long(q, two) /\ p[1] = 128 /\ q[1] = 0 /\ q[2] = 128
  BY DEF Long
<1>4. Long(z1, l1) /\ (\A i \in 1..l1 : z1[i] = 0) /\ Long(z2, l2) /\ \A i \in 1..l2 : z2[i] = 0
  BY <1>2, ZerosLong
<1>5. Mark = Number(d1, 256) /\ MarkAfterDomain = Number(d2, 256)
  BY DEF Mark, MarkAfterDomain
<1> HIDE DEF p, q, z1, z2, one, two, l1, l2
<1>6. JoinOf(d1, p, one, z1, l1) /\ JoinOf(d2, q, two, z2, l2)
  BY <1>2, <1>3, <1>4, JoinIs
<1> HIDE DEF d1, d2
<1>7. /\ Long(d1, LaneBytes) /\ (\A i \in 1..one : d1[i] = p[i]) /\ (\A i \in 1..l1 : d1[one + i] = z1[i])
      /\ Long(d2, LaneBytes) /\ (\A i \in 1..two : d2[i] = q[i]) /\ (\A i \in 1..l2 : d2[two + i] = z2[i])
  BY <1>2, <1>6 DEF JoinOf
<1>8. d1[1] = 128 /\ d2[1] = 0 /\ d2[2] = 128
  BY <1>3, <1>7 DEF one, two
<1>9. ASSUME NEW b \in 2..LaneBytes PROVE d1[b] = 0
  <2> DEFINE j == b - 1
  <2>1. j \in 1..l1 /\ one + j = b
    BY <1>1 DEF l1, one
  <2> HIDE DEF j
  <2> QED BY <1>4, <1>7, <2>1
<1>10. ASSUME NEW b \in 3..LaneBytes PROVE d2[b] = 0
  <2> DEFINE j == b - 2
  <2>1. j \in 1..l2 /\ two + j = b
    BY <1>1 DEF l2, two
  <2> HIDE DEF j
  <2> QED BY <1>4, <1>7, <2>1
<1>11. ASSUME NEW t, Long(t, LaneBytes), t[1] = 128, \A b \in 2..LaneBytes : t[b] = 0 PROVE t = d1
  <2>1. ASSUME NEW b \in 1..LaneBytes PROVE t[b] = d1[b]
    <3>1. b = 1 \/ b \in 2..LaneBytes
      BY <1>1
    <3> QED BY <1>8, <1>9, <1>11, <3>1
  <2> QED BY <1>7, <1>11, <2>1, SameLong
<1>12. ASSUME NEW t, Long(t, LaneBytes), t[1] = 0, t[2] = 128, \A b \in 3..LaneBytes : t[b] = 0 PROVE t = d2
  <2>1. ASSUME NEW b \in 1..LaneBytes PROVE t[b] = d2[b]
    <3>1. b = 1 \/ b = 2 \/ b \in 3..LaneBytes
      BY <1>1
    <3> QED BY <1>8, <1>10, <1>12, <3>1
  <2> QED BY <1>7, <1>12, <2>1, SameLong
<1>13. Octets(d1, LaneBytes) /\ Octets(d2, LaneBytes)
  <2>1. ASSUME NEW b \in 1..LaneBytes PROVE d1[b] \in 0..255
    <3>1. b = 1 \/ b \in 2..LaneBytes
      BY <1>1
    <3> QED BY <1>8, <1>9, <3>1
  <2>2. ASSUME NEW b \in 1..LaneBytes PROVE d2[b] \in 0..255
    <3>1. b = 1 \/ b = 2 \/ b \in 3..LaneBytes
      BY <1>1
    <3> QED BY <1>8, <1>10, <3>1
  <2> QED BY <1>7, <2>1, <2>2 DEF Octets
<1>14. Number(d1, 256) \in Nat /\ Number(d2, 256) \in Nat
  BY <1>1, <1>13, DigitsBack DEF Octets
<1> QED BY <1>5, <1>11, <1>12, <1>14

\* Eight words and the rest of a block.
Completed(v, mark, bytes) == v \o <<mark, 0, 0, 0, 0, 0, 0, 8 * bytes>>

LEMMA CompletedIs ==
    ASSUME NEW v, Long(v, 8), NEW mark, NEW bytes
    PROVE  /\ SubSeq(v, 1, 8) = v
           /\ Completed(v, mark, bytes)
                = [j \in 1..16 |-> IF j \in 1..8 THEN v[j] ELSE IF j = 9 THEN mark ELSE IF j = 16 THEN 8 * bytes ELSE 0]
           /\ SubSeq(Completed(v, mark, bytes), 1, 8) = v
<1> DEFINE eight == 8
           sixteen == 16
           t == <<mark, 0, 0, 0, 0, 0, 0, 8 * bytes>>
           d == v \o t
           c == [j \in 1..16 |-> IF j \in 1..8 THEN v[j] ELSE IF j = 9 THEN mark ELSE IF j = 16 THEN 8 * bytes ELSE 0]
<1>1. eight \in Nat /\ eight + eight = sixteen /\ eight \in 0..eight /\ eight \in 0..sixteen
  OBVIOUS
<1>2. Long(v, eight) /\ Long(t, eight)
  BY DEF Long
<1>3. t[1] = mark /\ t[8] = 8 * bytes /\ \A i \in 2..7 : t[i] = 0
  OBVIOUS
<1>4. Long(c, sixteen)
  BY DEF Long
<1>5. Completed(v, mark, bytes) = d
  BY DEF Completed
<1> HIDE DEF t
<1>6. c[9] = t[1] /\ c[16] = t[8] /\ \A j \in 2..7 : c[8 + j] = t[j]
  BY <1>3
<1>7. \A j \in 1..8 : c[j] = v[j]
  OBVIOUS
<1> HIDE DEF c
<1>8. \A j \in 1..8 : c[8 + j] = t[j]
  <2> TAKE j \in 1..8
  <2>1. j = 1 \/ j = 8 \/ j \in 2..7
    OBVIOUS
  <2> QED BY <1>6, <2>1
<1> HIDE DEF eight, sixteen
<1>9. JoinOf(d, v, eight, t, eight)
  BY <1>1, <1>2, JoinIs
<1> HIDE DEF d
<1>10. Long(d, sixteen) /\ (\A i \in 1..eight : d[i] = v[i]) /\ \A i \in 1..eight : d[eight + i] = t[i]
  BY <1>1, <1>9 DEF JoinOf
<1>11. ASSUME NEW j \in 1..sixteen PROVE d[j] = c[j]
  <2>1. CASE j \in 1..8
    BY <1>7, <1>10, <2>1 DEF eight
  <2>2. CASE j \in 9..16
    <3> DEFINE i == j - 8
    <3>1. i \in 1..8 /\ 8 + i = j
      BY <2>2
    <3> HIDE DEF i
    <3> QED BY <1>8, <1>10, <3>1 DEF eight
  <2> QED BY <2>1, <2>2 DEF sixteen
<1>12. d = c
  BY <1>4, <1>10, <1>11, SameLong
<1>13. Long(SubSeq(v, 1, eight), eight) /\ \A i \in 1..eight : SubSeq(v, 1, eight)[i] = v[i]
  BY <1>1, <1>2, SubSeqFromStart
<1>14. Long(SubSeq(d, 1, eight), eight) /\ \A i \in 1..eight : SubSeq(d, 1, eight)[i] = d[i]
  BY <1>1, <1>10, SubSeqFromStart
<1>15. SubSeq(v, 1, eight) = v
  BY <1>2, <1>13, SameLong
<1>16. SubSeq(d, 1, eight) = v
  <2>1. \A i \in 1..eight : SubSeq(d, 1, eight)[i] = v[i]
    BY <1>10, <1>14
  <2> QED BY <1>2, <1>14, <2>1, SameLong
<1> QED BY <1>5, <1>12, <1>15, <1>16 DEF c, eight

LEMMA SmallBlock ==
    ASSUME NEW n \in {DigestLength, DigestLength + 1}
    PROVE  /\ BlocksBefore(n) = 0 /\ n \in Nat /\ CountOf(8 * n + 8 * BlockLength) = [low |-> 8 * (BlockLength + n), high |-> 0]
           /\ DigestLength + LaneBytes + LaneBytes <= ShortBlockLength /\ DigestLength = 8 * LaneBytes /\ ShortBlockLength = 14 * LaneBytes
<1>1. /\ LaneBytes \in Nat /\ LaneBytes > 1 /\ BlockLength = 16 * LaneBytes /\ DigestLength = 8 * LaneBytes /\ ShortBlockLength = 14 * LaneBytes
  BY LaneAssumption, MacAssumption, BlockSizes DEF DigestLength, ShortBlockLength
<1>2. n \in Nat /\ n < BlockLength /\ n + 1 <= ShortBlockLength /\ BlockLength \in Nat \ {0}
  BY <1>1
<1>3. BlocksBefore(n) = 0
  <2> DEFINE none == 0
  <2> HIDE DEF none
  <2>1. n \div BlockLength = 0 /\ n % BlockLength = n
    <3> DEFINE zero == 0
    <3>1. zero \in Nat /\ (zero * BlockLength) + n = n
      BY <1>2
    <3> HIDE DEF zero
    <3>2. n \div BlockLength = zero /\ n % BlockLength = n
      BY <1>2, <3>1, QuotientIs
    <3> QED BY <3>2 DEF zero
  <2> QED BY <1>2, <2>1 DEF BlocksBefore
<1>4. 8 * n + 8 * BlockLength = 8 * (BlockLength + n) /\ 8 * (BlockLength + n) \in 0..Lane - 1
  <2>1. 8 * (BlockLength + DigestLength + 1) \in 0..Lane - 1 /\ Lane \in Nat
    BY MacSizes, BlockSizes
  <2> HIDE DEF Lane, BlockLength, DigestLength
  <2> QED BY <1>1, <1>2, <2>1
<1> DEFINE c == 8 * (BlockLength + n)
<1>5. c \in 0..Lane - 1 /\ 8 * n + 8 * BlockLength = c
  BY <1>4
<1> HIDE DEF c
<1>6. CountOf(c) = [low |-> c, high |-> 0]
  BY <1>5, SmallCount
<1>7. CountOf(8 * n + 8 * BlockLength) = [low |-> c, high |-> 0]
  BY <1>5, <1>6
<1> QED BY <1>1, <1>2, <1>3, <1>7 DEF c

\* The word behind a digest.
NextWord(m, n) == Number([b \in 1..LaneBytes |-> Body(m, n)[DigestLength + b]], 256)

LEMMA OneBlock ==
    ASSUME NEW F, NEW s, NEW n \in {DigestLength, DigestLength + 1}, NEW m, Long(m, n), NEW v \in Eight,
           \A i \in 1..DigestLength : m[i] = BigEndian(v, 8)[i]
    PROVE  ShaOf(F, s, m, 8 * BlockLength, 8) = BigEndian(Squeeze(F, s, Completed(v, NextWord(m, n), BlockLength + n)), 8)
<1> DEFINE d == Body(m, n)
           mark == NextWord(m, n)
           count == CountOf(8 * n + 8 * BlockLength)
           eight == 8
           before == 8 * BlockLength
<1>1. /\ BlocksBefore(n) = 0 /\ n \in Nat /\ count = [low |-> 8 * (BlockLength + n), high |-> 0]
      /\ DigestLength + LaneBytes + LaneBytes <= ShortBlockLength /\ DigestLength = 8 * LaneBytes /\ ShortBlockLength = 14 * LaneBytes
      /\ LaneBytes \in Nat /\ LaneBytes > 1 /\ BlockLength \in Nat /\ before \in Nat
  BY SmallBlock, LaneAssumption, MacAssumption, BlockSizes
<1> DEFINE l == (BlocksBefore(n) * BlockLength) + ShortBlockLength
<1>2. l = ShortBlockLength
  BY <1>1
<1>3. /\ \A i \in 1..n : d[i] = m[i]
      /\ \A i \in n + 2..l : d[i] = 0
  BY <1>1, BodyIs
<1> HIDE DEF l, d
<1>4. ShaOf(F, s, m, before, eight) = BigEndian(Squeeze(F, Chained("lanes", F, s, BlocksOf(d), 0), LastBlock(d, BlockLength * 0, count)), eight)
  <2> HIDE DEF eight
  <2>1. ShaOf(F, s, m, before, eight)
          = BigEndian(Squeeze(F, Chained("lanes", F, s, BlocksOf(d), BlocksBefore(n)),
                              LastBlock(d, BlockLength * BlocksBefore(n), CountOf(8 * n + before))), eight)
    <3> HIDE DEF before
    <3> QED BY <1>1, ShaOfIs DEF d
  <2> QED BY <1>1, <2>1
<1>5. Chained("lanes", F, s, BlocksOf(d), 0) = s /\ BlockLength * 0 = 0
  BY <1>1, ChainedNone
<1>6. v \in [1..8 -> LaneWords] /\ Long(v, 8)
  BY DEF Eight, Long
<1>7. ASSUME NEW j \in 1..8 PROVE WordsOf(d, 0)[j] = v[j]
  <2> DEFINE e == BigEndian(v, eight)
  <2>1. Octets(e, DigestLength) /\ LanesOf(e) = v
    BY DigestOctets
  <2>2. eight \in Nat /\ DigestLength = LaneBytes * eight /\ j \in 1..eight
    BY <1>1
  <2> HIDE DEF e, eight
  <2>3. LanesOf(e) = [k \in 1..eight |-> WordAt(e, k)]
    BY <2>1, <2>2, LanesAre DEF Octets
  <2>4. v[j] = Number([b \in 1..LaneBytes |-> e[LaneBytes * (j - 1) + b]], 256)
    BY <2>1, <2>2, <2>3 DEF WordAt
  <2>5. ASSUME NEW b \in 1..LaneBytes PROVE d[0 + (LaneBytes * (j - 1) + b)] = e[LaneBytes * (j - 1) + b]
    <3> DEFINE k == LaneBytes * (j - 1) + b
    <3>1. k \in 1..DigestLength
      BY <2>2, ByteInside
    <3> HIDE DEF k
    <3>2. 0 + k = k /\ k \in 1..n
      BY <1>1, <3>1
    <3>3. m[k] = e[k]
      BY <3>1 DEF e, eight
    <3> QED BY <1>3, <3>2, <3>3 DEF k
  <2>6. WordsOf(d, 0)[j] = Number([b \in 1..LaneBytes |-> d[0 + (LaneBytes * (j - 1) + b)]], 256)
    BY DEF WordsOf
  <2>7. [b \in 1..LaneBytes |-> d[0 + (LaneBytes * (j - 1) + b)]] = [b \in 1..LaneBytes |-> e[LaneBytes * (j - 1) + b]]
    BY <2>5
  <2> QED BY <2>4, <2>6, <2>7
<1>8. WordsOf(d, 0)[9] = mark
  <2>1. WordsOf(d, 0)[9] = Number([b \in 1..LaneBytes |-> d[0 + (LaneBytes * (9 - 1) + b)]], 256)
    BY DEF WordsOf
  <2>2. ASSUME NEW b \in 1..LaneBytes PROVE 0 + (LaneBytes * (9 - 1) + b) = DigestLength + b
    BY <1>1
  <2>3. [b \in 1..LaneBytes |-> d[0 + (LaneBytes * (9 - 1) + b)]] = [b \in 1..LaneBytes |-> d[DigestLength + b]]
    BY <2>2
  <2> QED BY <2>1, <2>3 DEF d, NextWord
<1> HIDE DEF mark
<1>9. ASSUME NEW j \in 10..14 PROVE WordsOf(d, 0)[j] = 0
  <2> DEFINE u == [b \in 1..LaneBytes |-> d[0 + (LaneBytes * (j - 1) + b)]]
  <2>1. WordsOf(d, 0)[j] = Number(u, 256)
    BY DEF WordsOf
  <2>2. ASSUME NEW b \in 1..LaneBytes PROVE d[0 + (LaneBytes * (j - 1) + b)] = 0
    <3> DEFINE q == j - 10
               x == LaneBytes * q
               k == LaneBytes * (j - 1) + b
               y == LaneBytes * (14 - j)
    <3>1. x \in Nat /\ y \in Nat
      <4>1. q \in Nat /\ 14 - j \in Nat
        OBVIOUS
      <4> QED BY <1>1, <4>1
    <3>2. k = DigestLength + LaneBytes + x + b /\ k + y = ShortBlockLength - LaneBytes + b
      BY <1>1
    <3>3. k \in Nat /\ k >= DigestLength + LaneBytes + 1 /\ k <= ShortBlockLength
      <4> HIDE DEF k, x, y
      <4> QED BY <1>1, <3>1, <3>2
    <3> HIDE DEF k
    <3>5. n <= DigestLength + 1
      BY <1>1
    <3>4. k \in n + 2..l /\ 0 + k = k
      BY <1>1, <1>2, <3>3, <3>5
    <3> QED BY <1>3, <3>4 DEF k
  <2>3. Long(u, LaneBytes) /\ \A b \in 1..LaneBytes : u[b] = 0
    BY <1>1, <2>2 DEF Long
  <2> HIDE DEF u
  <2> QED BY <1>1, <2>1, <2>3, ZeroWord
<1> DEFINE c == Completed(v, mark, BlockLength + n)
           w == WordsOf(d, 0)
<1>10. c = [j \in 1..16 |-> IF j \in 1..8 THEN v[j] ELSE IF j = 9 THEN mark ELSE IF j = 16 THEN 8 * (BlockLength + n) ELSE 0]
  <2> DEFINE bytes == BlockLength + n
  <2> HIDE DEF bytes
  <2>1. Completed(v, mark, bytes)
          = [j \in 1..16 |-> IF j \in 1..8 THEN v[j] ELSE IF j = 9 THEN mark ELSE IF j = 16 THEN 8 * bytes ELSE 0]
    BY <1>6, CompletedIs
  <2> QED BY <2>1 DEF bytes
<1> HIDE DEF c
<1>11. LastBlock(d, 0, count) = [j \in 1..16 |-> IF j = 15 THEN 0 ELSE IF j = 16 THEN 8 * (BlockLength + n) ELSE w[j]]
  BY <1>1 DEF LastBlock
<1> HIDE DEF w
<1>12. ASSUME NEW j \in 1..16
       PROVE  (IF j = 15 THEN 0 ELSE IF j = 16 THEN 8 * (BlockLength + n) ELSE w[j])
                = IF j \in 1..8 THEN v[j] ELSE IF j = 9 THEN mark ELSE IF j = 16 THEN 8 * (BlockLength + n) ELSE 0
  <2>1. CASE j \in 1..8
    BY <1>7, <2>1 DEF w
  <2>2. CASE j = 9
    BY <1>8, <2>2 DEF w
  <2>3. CASE j \in 10..14
    BY <1>9, <2>3 DEF w
  <2>4. CASE j \in 15..16
    BY <2>4
  <2> QED BY <2>1, <2>2, <2>3, <2>4
<1>13. LastBlock(d, 0, count) = c
  BY <1>10, <1>11, <1>12
<1> QED BY <1>4, <1>5, <1>13 DEF eight, before, c, mark

\* A digest hashed behind a block.
LEMMA DigestBlock ==
    ASSUME NEW F, NEW s, NEW v \in Eight
    PROVE  /\ ShaOf(F, s, BigEndian(v, 8), 8 * BlockLength, 8) = BigEndian(Squeeze(F, s, v \o TailOf(BlockLength + DigestLength)), 8)
           /\ v \o TailOf(BlockLength + DigestLength) \in [1..16 -> Nat]
           /\ SubSeq(v \o TailOf(BlockLength + DigestLength), 1, 8) = v /\ SubSeq(v, 1, 8) = v
<1> DEFINE m == BigEndian(v, 8)
           n == DigestLength
           d == Body(m, n)
           u == [b \in 1..LaneBytes |-> d[DigestLength + b]]
           l == (BlocksBefore(n) * BlockLength) + ShortBlockLength
<1>1. Octets(m, n) /\ n \in {DigestLength, DigestLength + 1} /\ Long(v, 8)
  BY DigestOctets DEF Eight, Long
<1>2. BlocksBefore(n) = 0 /\ n \in Nat /\ DigestLength + LaneBytes + LaneBytes <= ShortBlockLength /\ ShortBlockLength = 14 * LaneBytes
  BY <1>1, SmallBlock
<1>3. LaneBytes \in Nat /\ LaneBytes > 1 /\ BlockLength \in Nat
  BY LaneAssumption, MacAssumption, BlockSizes
<1>4. d[n + 1] = 128 /\ \A i \in n + 2..l : d[i] = 0
  BY <1>1, <1>2, BodyIs DEF Octets
<1>5. l = ShortBlockLength
  BY <1>2, <1>3
<1> HIDE DEF d, l, m
<1>6. Long(u, LaneBytes) /\ u[1] = 128 /\ \A b \in 2..LaneBytes : u[b] = 0
  <2>1. ASSUME NEW b \in 2..LaneBytes PROVE d[n + b] = 0
    <3>1. n + b \in n + 2..l
      BY <1>2, <1>3, <1>5
    <3> QED BY <1>4, <3>1
  <2> QED BY <1>3, <1>4, <2>1 DEF Long
<1>7. Mark = Number(u, 256)
  BY <1>6, MarkIs
<1>8. ShaOf(F, s, m, 8 * BlockLength, 8) = BigEndian(Squeeze(F, s, Completed(v, Mark, BlockLength + n)), 8)
  <2>1. Mark = NextWord(m, n)
    BY <1>7 DEF d, NextWord
  <2>2. Long(m, n) /\ \A i \in 1..DigestLength : m[i] = BigEndian(v, 8)[i]
    BY <1>1 DEF Octets, m
  <2> HIDE DEF n
  <2> QED BY <1>1, <2>1, <2>2, OneBlock
<1>9. v \o TailOf(BlockLength + n) = Completed(v, Mark, BlockLength + n)
  BY DEF Completed, TailOf
<1> DEFINE c == Completed(v, Mark, BlockLength + n)
<1>10. c = [j \in 1..16 |-> IF j \in 1..8 THEN v[j] ELSE IF j = 9 THEN Mark ELSE IF j = 16 THEN 8 * (BlockLength + n) ELSE 0]
       /\ SubSeq(c, 1, 8) = v /\ SubSeq(v, 1, 8) = v
  BY <1>1, CompletedIs
<1>11. Mark \in Nat /\ \A j \in 1..8 : v[j] \in Nat
  BY EightNat, MarkIs
<1>12. c \in [1..16 -> Nat]
  <2> HIDE DEF c
  <2>1. 8 * (BlockLength + n) \in Nat
    BY <1>2, <1>3
  <2> QED BY <1>10, <1>11, <2>1
<1> QED BY <1>8, <1>9, <1>10, <1>12 DEF m

\* A digest and a zero byte.
LEMMA DomainBlock ==
    ASSUME NEW F, NEW s, NEW v \in Eight
    PROVE  LET x == v \o <<MarkAfterDomain, 0, 0, 0, 0, 0, 0, 8 * (BlockLength + DigestLength + 1)>>
           IN /\ ShaOf(F, s, BigEndian(v, 8) \o <<0>>, 8 * BlockLength, 8) = BigEndian(Squeeze(F, s, x), 8)
              /\ x \in [1..16 -> Nat]
<1> DEFINE e == BigEndian(v, 8)
           p == <<0>>
           m == e \o p
           one == 1
           n == DigestLength + one
           d == Body(m, n)
           u == [b \in 1..LaneBytes |-> d[DigestLength + b]]
           l == (BlocksBefore(n) * BlockLength) + ShortBlockLength
<1>1. Octets(e, DigestLength) /\ n \in {DigestLength, DigestLength + 1} /\ Long(v, 8) /\ Long(p, one) /\ p[1] = 0 /\ one \in Nat /\ DigestLength \in Nat
  BY DigestOctets, MacSizes DEF Eight, Long
<1> HIDE DEF p, one
<1>2. JoinOf(m, e, DigestLength, p, one)
  BY <1>1, JoinIs DEF Octets
<1>3. Long(m, n) /\ (\A i \in 1..DigestLength : m[i] = e[i]) /\ m[DigestLength + 1] = 0
  <2>1. Long(m, n) /\ (\A i \in 1..DigestLength : m[i] = e[i]) /\ \A i \in 1..one : m[DigestLength + i] = p[i]
    BY <1>2 DEF JoinOf
  <2> HIDE DEF m
  <2>2. m[DigestLength + 1] = p[1]
    BY <2>1 DEF one
  <2> QED BY <1>1, <2>1, <2>2
<1>4. BlocksBefore(n) = 0 /\ n \in Nat /\ DigestLength + LaneBytes + LaneBytes <= ShortBlockLength /\ ShortBlockLength = 14 * LaneBytes
  BY <1>1, SmallBlock
<1>5. LaneBytes \in Nat /\ LaneBytes > 1 /\ BlockLength \in Nat /\ n = DigestLength + 1
  BY LaneAssumption, MacAssumption, BlockSizes DEF one
<1> HIDE DEF m, n
<1>6. (\A i \in 1..n : d[i] = m[i]) /\ d[n + 1] = 128 /\ \A i \in n + 2..l : d[i] = 0
  BY <1>3, <1>4, BodyIs
<1>7. l = ShortBlockLength
  BY <1>4, <1>5
<1> HIDE DEF d, l
<1>8. Long(u, LaneBytes) /\ u[1] = 0 /\ u[2] = 128 /\ \A b \in 3..LaneBytes : u[b] = 0
  <2>1. ASSUME NEW b \in 3..LaneBytes PROVE d[DigestLength + b] = 0
    <3>1. DigestLength + b \in n + 2..l
      BY <1>1, <1>4, <1>5, <1>7
    <3> QED BY <1>6, <3>1
  <2>2. d[DigestLength + 1] = 0
    <3>1. DigestLength + 1 \in 1..n
      BY <1>1, <1>5
    <3> QED BY <1>3, <1>6, <3>1
  <2>3. d[DigestLength + 2] = 128
    <3>1. DigestLength + 2 = n + 1
      BY <1>1, <1>5
    <3> QED BY <1>6, <3>1
  <2> QED BY <1>5, <2>1, <2>2, <2>3 DEF Long
<1>9. MarkAfterDomain = Number(u, 256)
  BY <1>8, MarkIs
<1>10. ShaOf(F, s, m, 8 * BlockLength, 8) = BigEndian(Squeeze(F, s, Completed(v, MarkAfterDomain, BlockLength + n)), 8)
  <2>1. MarkAfterDomain = NextWord(m, n)
    BY <1>9 DEF d, NextWord
  <2> QED BY <1>1, <1>3, <2>1, OneBlock
<1> DEFINE c == Completed(v, MarkAfterDomain, BlockLength + n)
           x == v \o <<MarkAfterDomain, 0, 0, 0, 0, 0, 0, 8 * (BlockLength + DigestLength + 1)>>
<1>11. x = c
  <2>1. BlockLength + DigestLength + 1 = BlockLength + n
    BY <1>1, <1>5
  <2> QED BY <2>1 DEF Completed
<1>12. c = [j \in 1..16 |-> IF j \in 1..8 THEN v[j] ELSE IF j = 9 THEN MarkAfterDomain ELSE IF j = 16 THEN 8 * (BlockLength + n) ELSE 0]
  BY <1>1, CompletedIs
<1>13. MarkAfterDomain \in Nat /\ \A j \in 1..8 : v[j] \in Nat
  BY EightNat, MarkIs
<1>14. c \in [1..16 -> Nat]
  <2> HIDE DEF c
  <2>1. 8 * (BlockLength + n) \in Nat
    BY <1>4, <1>5
  <2> QED BY <1>12, <1>13, <2>1
<1> QED BY <1>10, <1>11, <1>14 DEF m, p

-----------------------------------------------------------------------------
(* HMAC of a digest from the keyed states, and HMAC of more than that.      *)

LEMMA JoinOctets ==
    ASSUME NEW s, NEW n, Octets(s, n), NEW t, NEW k, Octets(t, k)
    PROVE  Octets(s \o t, n + k)
<1> DEFINE d == s \o t
<1>1. n \in Nat /\ k \in Nat
  BY DEF Octets, Long
<1>2. JoinOf(d, s, n, t, k)
  BY <1>1, JoinIs DEF Octets
<1> HIDE DEF d
<1>3. Long(d, n + k) /\ (\A i \in 1..n : d[i] = s[i]) /\ \A i \in 1..k : d[n + i] = t[i]
  BY <1>2 DEF JoinOf
<1>4. ASSUME NEW i \in 1..n + k PROVE d[i] \in 0..255
  <2>1. CASE i \in 1..n
    BY <1>3, <2>1 DEF Octets
  <2>2. CASE i \notin 1..n
    <3> DEFINE j == i - n
    <3>1. j \in 1..k /\ n + j = i
      BY <1>1, <2>2
    <3> HIDE DEF j
    <3> QED BY <1>3, <3>1 DEF Octets
  <2> QED BY <2>1, <2>2
<1>5. Octets(d, n + k)
  BY <1>3, <1>4 DEF Octets
<1> QED BY <1>5 DEF d

LEMMA HmacOctets ==
    ASSUME NEW F, Compresses(F), NEW key, NEW k, Octets(key, k), NEW m, NEW n, Octets(m, n)
    PROVE  Octets(HmacBy(F, key, m), DigestLength)
<1> DEFINE inner == PadOf(F, key, InnerPad)
           outer == PadOf(F, key, OuterPad)
           d1 == inner \o m
           h1 == HashBy(F, d1)
           d2 == outer \o h1
<1>1. Octets(inner, BlockLength) /\ Octets(outer, BlockLength) /\ Long(key, k) /\ n \in Nat
  <2>1. OuterPad \in 0..255 /\ InnerPad \in 0..255
    BY DEF OuterPad, InnerPad
  <2>2. Octets(inner, BlockLength) /\ Octets(outer, BlockLength)
    BY <2>1, PadOctets
  <2> HIDE DEF inner, outer
  <2> QED BY <2>2 DEF Octets, Long
<1>2. HmacBy(F, key, m) = HashBy(F, d2)
  BY <1>1, HmacIs
<1> HIDE DEF inner, outer
<1>3. Octets(d1, BlockLength + n) /\ BlockLength + n \in Nat
  <2>1. Octets(d1, BlockLength + n)
    BY <1>1, JoinOctets, Zenon
  <2> QED BY <1>1, <2>1, BlockSizes
<1> HIDE DEF d1
<1>4. Octets(h1, DigestLength)
  BY <1>3, HashOctets
<1> HIDE DEF h1
<1>5. Octets(d2, BlockLength + DigestLength) /\ BlockLength + DigestLength \in Nat
  <2>1. Octets(d2, BlockLength + DigestLength)
    BY <1>1, <1>4, JoinOctets, Zenon
  <2> QED BY <2>1, BlockSizes, MacSizes
<1> HIDE DEF d2
<1> QED BY <1>2, <1>5, HashOctets

LEMMA ChainedTwice ==
    ASSUME NEW F, Compresses(F), NEW key, NEW k, Octets(key, k), NEW v \in Eight
    PROVE  LET tail == TailOf(BlockLength + DigestLength)
               x == Squeeze(F, KeyedState(F, key, OuterPad), Squeeze(F, KeyedState(F, key, InnerPad), v \o tail) \o tail)
           IN x \in Eight /\ BigEndian(x, 8) = HmacBy(F, key, BigEndian(v, 8))
<1> DEFINE tail == TailOf(BlockLength + DigestLength)
           i == KeyedState(F, key, InnerPad)
           o == KeyedState(F, key, OuterPad)
           y == Squeeze(F, i, v \o tail)
           x == Squeeze(F, o, y \o tail)
           before == 8 * BlockLength
           eight == 8
           m == BigEndian(v, eight)
<1>1. i \in Eight /\ o \in Eight /\ Long(key, k) /\ Octets(m, DigestLength)
  <2>1. OuterPad \in 0..255 /\ InnerPad \in 0..255
    BY DEF OuterPad, InnerPad
  <2> QED BY <2>1, KeyedStateIs, DigestOctets DEF Octets
<1>2. ShaOf(F, o, ShaOf(F, i, m, before, eight), before, eight) = HmacBy(F, key, m)
  <2> HIDE DEF m
  <2> QED BY <1>1, HmacResumed DEF Octets
<1> HIDE DEF i, o
<1>3. ShaOf(F, i, m, before, eight) = BigEndian(y, eight) /\ v \o tail \in [1..16 -> Nat]
  BY DigestBlock
<1>4. y \in Eight
  BY <1>1, <1>3, EightNat DEF Compresses
<1> HIDE DEF y
<1>5. ShaOf(F, o, BigEndian(y, eight), before, eight) = BigEndian(x, eight) /\ y \o tail \in [1..16 -> Nat]
  BY <1>4, DigestBlock
<1>6. x \in Eight
  BY <1>1, <1>5, EightNat DEF Compresses
<1> HIDE DEF x, m, before
<1>7. BigEndian(x, eight) = HmacBy(F, key, m)
  BY <1>2, <1>3, <1>5
<1> QED BY <1>6, <1>7 DEF x, y, i, o, m

LEMMA StartedFed ==
    ASSUME NEW F, NEW s, NEW p, Long(p, DigestLength + 1)
    PROVE  WasFed(F, s, 8 * BlockLength, p, DigestLength + 1,
                  [Resumed(s, BlockLength + DigestLength + 1) EXCEPT !.buffer = FilledUp(p)])
<1> DEFINE n == DigestLength + 1
           buffer == FilledUp(p)
           ctx == [Resumed(s, BlockLength + DigestLength + 1) EXCEPT !.buffer = buffer]
           before == 8 * BlockLength
<1>1. n \in {DigestLength, DigestLength + 1} /\ n \in 0..BlockLength /\ n < BlockLength /\ BlockLength \in Nat \ {0} /\ n \in Nat
  BY LaneAssumption, MacAssumption, BlockSizes DEF DigestLength
<1>2. CountOf(8 * n + before) = [low |-> 8 * (BlockLength + n), high |-> 0]
  BY <1>1, SmallBlock
<1>3. BlockLength + DigestLength + 1 = BlockLength + n
  BY BlockSizes, MacSizes
<1>4. n \div BlockLength = 0 /\ n % BlockLength = n /\ BlockLength * 0 = 0
  <2> DEFINE zero == 0
  <2>1. zero \in Nat /\ (zero * BlockLength) + n = n /\ BlockLength * zero = zero
    BY <1>1
  <2> HIDE DEF zero, n
  <2>2. n \div BlockLength = zero /\ n % BlockLength = n
    BY <1>1, <2>1, QuotientIs
  <2> QED BY <2>1, <2>2 DEF zero
<1>5. Long(buffer, BlockLength) /\ \A i \in 1..n : buffer[i] = p[i]
  BY <1>1, FilledUpLong
<1> HIDE DEF buffer
<1>6. ctx = [state |-> s, buffer |-> buffer, count |-> [low |-> 8 * (BlockLength + n), high |-> 0]]
  BY <1>3 DEF Resumed, Sha256InitEx
<1>7. ctx = [state |-> s, buffer |-> ctx.buffer, count |-> CountOf(8 * n + before)] /\ ctx.buffer = buffer
  BY <1>2, <1>6
<1> HIDE DEF ctx, n, before
<1>8. Chained("lanes", F, s, BlocksOf(p), 0) = s
  BY ChainedNone
<1>9. HasTaken(F, s, before, BlocksOf(p), n \div BlockLength, n, ctx)
  BY <1>4, <1>5, <1>7, <1>8 DEF HasTaken
<1>10. ASSUME NEW j \in 1..n % BlockLength PROVE ctx.buffer[j] = p[BlockLength * (n \div BlockLength) + j]
  <2>1. j \in 1..n /\ BlockLength * (n \div BlockLength) + j = j
    BY <1>1, <1>4
  <2> QED BY <1>5, <1>7, <2>1
<1>11. WasFed(F, s, before, p, n, ctx)
  BY <1>9, <1>10 DEF WasFed
<1> QED BY <1>11 DEF ctx, before, n, buffer

-----------------------------------------------------------------------------
(* The generator: K as its keyed states, V as words with a tail.            *)

Drbg(F, key, v) ==
    [idig |-> KeyedState(F, key, InnerPad), odig |-> KeyedState(F, key, OuterPad),
     v |-> v \o TailOf(BlockLength + DigestLength)]

Revalued(c, w) == [c EXCEPT !.v = w \o TailOf(BlockLength + DigestLength)]
Rekeyed(c, x, y) == [c EXCEPT !.idig = x, !.odig = y]

Generator(a, b, v) == [idig |-> a, odig |-> b, v |-> v]

LEMMA RekeyedIs ==
    ASSUME NEW p, NEW q, NEW r, NEW x, NEW y
    PROVE  Rekeyed(Generator(p, q, r), x, y) = Generator(x, y, r)
<1> DEFINE d == [[idig |-> p, odig |-> q, v |-> r] EXCEPT !.idig = x, !.odig = y]
<1>1. DOMAIN d = {"idig", "odig", "v"} /\ d = [f \in DOMAIN d |-> d[f]]
  OBVIOUS
<1>2. d.idig = x /\ d.odig = y /\ d.v = r
  OBVIOUS
<1> HIDE DEF d
<1>3. d = [idig |-> x, odig |-> y, v |-> r]
  BY <1>1, <1>2
<1> QED BY <1>3 DEF d, Rekeyed, Generator

LEMMA DrbgIs ==
    ASSUME NEW F, NEW key, NEW v \in Eight
    PROVE  /\ Drbg(F, key, v).idig = KeyedState(F, key, InnerPad)
           /\ Drbg(F, key, v).odig = KeyedState(F, key, OuterPad)
           /\ Drbg(F, key, v).v = v \o TailOf(BlockLength + DigestLength)
           /\ SubSeq(Drbg(F, key, v).v, 1, 8) = v
           /\ \A w : Revalued(Drbg(F, key, v), w) = Drbg(F, key, w)
           /\ \A new : Rekeyed(Drbg(F, key, v), KeyedState(F, new, InnerPad), KeyedState(F, new, OuterPad)) = Drbg(F, new, v)
<1> DEFINE tail == TailOf(BlockLength + DigestLength)
<1>1. SubSeq(v \o tail, 1, 8) = v
  BY DigestBlock
<1> HIDE DEF tail
<1>2. Drbg(F, key, v) = [idig |-> KeyedState(F, key, InnerPad), odig |-> KeyedState(F, key, OuterPad), v |-> v \o tail]
  BY DEF Drbg, tail
<1>3. ASSUME NEW w PROVE Revalued(Drbg(F, key, v), w) = Drbg(F, key, w)
  <2> DEFINE t == w \o tail
  <2>1. Drbg(F, key, w) = [idig |-> KeyedState(F, key, InnerPad), odig |-> KeyedState(F, key, OuterPad), v |-> t]
    BY DEF Drbg, tail
  <2>2. Revalued(Drbg(F, key, v), w) = [Drbg(F, key, v) EXCEPT !.v = t]
    BY DEF Revalued, tail
  <2> HIDE DEF t
  <2> QED BY <1>2, <2>1, <2>2
<1>4. ASSUME NEW new
      PROVE  Rekeyed(Drbg(F, key, v), KeyedState(F, new, InnerPad), KeyedState(F, new, OuterPad)) = Drbg(F, new, v)
  <2> DEFINE t == v \o tail
             a == KeyedState(F, new, InnerPad)
             b == KeyedState(F, new, OuterPad)
  <2>1. Drbg(F, new, v) = [idig |-> a, odig |-> b, v |-> t]
    BY DEF Drbg, tail
  <2>2. Rekeyed(Drbg(F, key, v), a, b) = Generator(a, b, t)
    <3>1. Drbg(F, key, v) = Generator(KeyedState(F, key, InnerPad), KeyedState(F, key, OuterPad), t)
      BY <1>2 DEF Generator
    <3> QED BY <3>1, RekeyedIs
  <2> QED BY <2>1, <2>2 DEF Generator
<1>5. /\ Drbg(F, key, v).idig = KeyedState(F, key, InnerPad)
      /\ Drbg(F, key, v).odig = KeyedState(F, key, OuterPad)
      /\ Drbg(F, key, v).v = v \o tail
  BY <1>2
<1> QED BY <1>1, <1>3, <1>4, <1>5 DEF tail

LEMMA UpdateVIs ==
    ASSUME NEW F, Compresses(F), NEW key, NEW k, Octets(key, k), NEW v \in Eight
    PROVE  \E w \in Eight : UpdateV(F, Drbg(F, key, v)) = Drbg(F, key, w) /\ BigEndian(w, 8) = HmacBy(F, key, BigEndian(v, 8))
<1> DEFINE c == Drbg(F, key, v)
           tail == TailOf(BlockLength + DigestLength)
           w == Squeeze(F, c.odig, Squeeze(F, c.idig, SubSeq(c.v, 1, 8) \o tail) \o tail)
           x == Squeeze(F, KeyedState(F, key, OuterPad), Squeeze(F, KeyedState(F, key, InnerPad), v \o tail) \o tail)
<1>1. UpdateV(F, c) = Revalued(c, w)
  <2> HIDE DEF c
  <2> QED BY DEF UpdateV, Squeeze, Revalued
<1>2. w = x
  <2>1. c.odig = KeyedState(F, key, OuterPad) /\ c.idig = KeyedState(F, key, InnerPad) /\ SubSeq(c.v, 1, 8) = v
    BY DrbgIs
  <2> HIDE DEF tail, c
  <2> QED BY <2>1
<1>3. x \in Eight /\ BigEndian(x, 8) = HmacBy(F, key, BigEndian(v, 8))
  BY ChainedTwice
<1> HIDE DEF w, x
<1>4. Revalued(c, w) = Drbg(F, key, w)
  BY DrbgIs
<1> QED BY <1>1, <1>2, <1>3, <1>4

\* The inner hash of K's update, short and long.
InnerShort(F, s, v) == Squeeze(F, s, v \o <<MarkAfterDomain, 0, 0, 0, 0, 0, 0, 8 * (BlockLength + DigestLength + 1)>>)
Begun(s, v, domain) ==
    [Resumed(s, BlockLength + DigestLength + 1) EXCEPT !.buffer = FilledUp(BytesOf(v) \o <<domain>>)]
InnerLong(F, s, v, domain, data1, data2) ==
    SubSeq(LanesOf(ShaFinal(F, ShaUpdate(F, ShaUpdate(F, Begun(s, v, domain), data1), data2), 8)), 1, 8)
InnerHash(F, s, v, domain, data1, data2) ==
    IF data1 \o data2 = <<>> THEN InnerShort(F, s, v) ELSE InnerLong(F, s, v, domain, data1, data2)

LEMMA InnerHashIs ==
    ASSUME NEW F, Compresses(F), NEW s \in Eight, NEW v \in Eight, NEW domain \in 0..255,
           NEW data1, NEW n1, Octets(data1, n1), NEW data2, NEW n2, Octets(data2, n2),
           data1 \o data2 = <<>> => domain = 0
    PROVE  LET x == InnerHash(F, s, v, domain, data1, data2)
               m == (BigEndian(v, 8) \o <<domain>>) \o (data1 \o data2)
           IN x \in Eight /\ BigEndian(x, 8) = ShaOf(F, s, m, 8 * BlockLength, 8) /\ \E n : Octets(m, n)
<1> DEFINE e == BigEndian(v, 8)
           p == e \o <<domain>>
           one == 1
           n == DigestLength + one
           data == data1 \o data2
           l == n1 + n2
           m == p \o data
           before == 8 * BlockLength
           eight == 8
<1>1. Octets(e, DigestLength) /\ Octets(<<domain>>, one) /\ DigestLength \in Nat /\ one \in Nat /\ n1 \in Nat /\ n2 \in Nat
  <2>1. Octets(<<domain>>, one)
    BY DEF Octets, Long
  <2>2. Octets(e, DigestLength)
    BY DigestOctets
  <2> HIDE DEF e
  <2> QED BY <2>1, <2>2, MacSizes DEF Octets, Long
<1> HIDE DEF e, one
<1>2. Octets(p, n) /\ Octets(data, l)
  BY <1>1, JoinOctets, Zenon
<1>3. n = DigestLength + 1 /\ n \in Nat /\ l \in Nat
  BY <1>1 DEF one
<1> HIDE DEF p, data, l
<1>4. Octets(m, n + l) /\ n + l \in Nat
  <2>1. Octets(m, n + l)
    BY <1>2, JoinOctets, Zenon
  <2> QED BY <1>3, <2>1
<1>5. CASE data = <<>>
  <2> DEFINE x == InnerShort(F, s, v)
             b == v \o <<MarkAfterDomain, 0, 0, 0, 0, 0, 0, 8 * (BlockLength + DigestLength + 1)>>
  <2>1. m = p
    <3>1. Long(<<>>, 0) /\ 0 \in Nat
      BY <1>2, EmptyLong DEF Octets
    <3> DEFINE nil == <<>>
               none == 0
    <3>2. Long(nil, none) /\ none \in Nat
      BY <3>1
    <3> HIDE DEF nil, none
    <3> DEFINE d == p \o nil
    <3>3. JoinOf(d, p, n, nil, none)
      BY <1>2, <1>3, <3>2, JoinIs DEF Octets
    <3> HIDE DEF d
    <3>4. n + none = n
      BY <1>3 DEF none
    <3> HIDE DEF n
    <3>5. Long(d, n) /\ \A i \in 1..n : d[i] = p[i]
      BY <3>3, <3>4 DEF JoinOf
    <3>6. d = p
      BY <1>2, <3>5, SameLong DEF Octets
    <3> QED BY <1>5, <3>6 DEF d, nil
  <2>2. domain = 0
    BY <1>5 DEF data
  <2>3. ShaOf(F, s, e \o <<0>>, before, eight) = BigEndian(Squeeze(F, s, b), eight) /\ b \in [1..16 -> Nat]
    BY DomainBlock DEF e
  <2>4. x = Squeeze(F, s, b)
    BY DEF InnerShort
  <2>5. x \in Eight
    <3> HIDE DEF b, x
    <3> QED BY <2>3, <2>4, EightNat DEF Compresses
  <2>6. InnerHash(F, s, v, domain, data1, data2) = x
    BY <1>5 DEF InnerHash, data
  <2> HIDE DEF x, b, m
  <2>7. BigEndian(x, eight) = ShaOf(F, s, m, before, eight)
    BY <2>1, <2>2, <2>3, <2>4 DEF p
  <2> QED BY <1>4, <2>5, <2>6, <2>7 DEF m, p, e, data
<1>6. CASE data # <<>>
  <2> DEFINE digest == ShaFinal(F, ShaUpdate(F, ShaUpdate(F, Begun(s, v, domain), data1), data2), eight)
             x == DigestWords(F, s, m, n + l, before)
  <2>1. Begun(s, v, domain) = [Resumed(s, BlockLength + DigestLength + 1) EXCEPT !.buffer = FilledUp(p)]
    <3>1. Len(v) = 8
      BY DEF Eight
    <3>2. BytesOf(v) = e
      BY <3>1, BytesAre DEF e
    <3> QED BY <3>2 DEF Begun, p
  <2>2. WasFed(F, s, before, p, n, Begun(s, v, domain))
    BY <1>2, <1>3, <2>1, StartedFed DEF Octets
  <2>3. before \in Nat /\ before % (8 * BlockLength) = 0 /\ eight \in Nat
    BY BlockSizes, MacSizes
  <2> HIDE DEF before, n, eight
  <2>4. digest = ShaOf(F, s, p \o (data1 \o data2), before, eight)
    BY <1>2, <2>2, <2>3, FedTwiceToEnd DEF Octets
  <2>5. digest = ShaOf(F, s, m, before, eight)
    BY <2>4 DEF data
  <2> HIDE DEF m
  <2>6. x \in Eight /\ ShaOf(F, s, m, before, eight) = BigEndian(x, eight)
    <3>1. s \in [1..8 -> Nat]
      BY EightNat
    <3> DEFINE nl == n + l
    <3>2. nl \in Nat /\ Octets(m, nl)
      BY <1>4
    <3> HIDE DEF nl
    <3>3. DigestWords(F, s, m, nl, before) \in Eight /\ ShaOf(F, s, m, before, 8) = BigEndian(DigestWords(F, s, m, nl, before), 8)
      BY <2>3, <3>1, <3>2, DigestIs
    <3> QED BY <3>3 DEF nl, eight
  <2> HIDE DEF x, digest
  <2>7. LanesOf(digest) = x /\ SubSeq(x, 1, 8) = x
    BY <2>5, <2>6, DigestOctets, DigestBlock DEF eight
  <2>8. InnerHash(F, s, v, domain, data1, data2) = x
    <3>1. InnerLong(F, s, v, domain, data1, data2) = SubSeq(LanesOf(digest), 1, 8)
      BY DEF InnerLong, digest, eight
    <3> QED BY <1>6, <2>7, <3>1 DEF InnerHash, data
  <2> QED BY <1>4, <2>6, <2>8 DEF m, p, e, data, before, eight
<1> QED BY <1>5, <1>6

LEMMA UpdateKIs ==
    ASSUME NEW F, Compresses(F), NEW key, NEW k, Octets(key, k), NEW v \in Eight, NEW domain \in 0..255,
           NEW data1, NEW n1, Octets(data1, n1), NEW data2, NEW n2, Octets(data2, n2),
           data1 \o data2 = <<>> => domain = 0
    PROVE  LET new == HmacBy(F, key, (BigEndian(v, 8) \o <<domain>>) \o (data1 \o data2))
           IN /\ UpdateK(F, Drbg(F, key, v), domain, data1, data2) = Drbg(F, new, v)
              /\ Octets(new, DigestLength)
<1> DEFINE c == Drbg(F, key, v)
           i == KeyedState(F, key, InnerPad)
           o == KeyedState(F, key, OuterPad)
           tail == TailOf(BlockLength + DigestLength)
           m == (BigEndian(v, 8) \o <<domain>>) \o (data1 \o data2)
           new == HmacBy(F, key, m)
           inner == InnerHash(F, i, v, domain, data1, data2)
           y == Squeeze(F, o, inner \o tail)
           Keyed(byte) == Squeeze(F, Sha256Init.state, LanesOf(XorBytes(FilledUp(BytesOf(y)), byte)))
<1>1. UpdateK(F, c, domain, data1, data2) = Rekeyed(c, Keyed(InnerPad), Keyed(OuterPad))
  <2>1. c.idig = i /\ c.odig = o /\ SubSeq(c.v, 1, 8) = v
    BY DrbgIs
  <2> HIDE DEF c, i, o
  <2> QED BY <2>1 DEF UpdateK, Rekeyed, Squeeze, InnerHash, InnerShort, InnerLong, Begun
<1>2. i \in Eight /\ o \in Eight
  <2>1. OuterPad \in 0..255 /\ InnerPad \in 0..255
    BY DEF OuterPad, InnerPad
  <2> QED BY <2>1, KeyedStateIs
<1>3. inner \in Eight /\ BigEndian(inner, 8) = ShaOf(F, i, m, 8 * BlockLength, 8) /\ \E n : Octets(m, n)
  <2> HIDE DEF i
  <2> QED BY <1>2, InnerHashIs
<1> PICK n : Octets(m, n)
  BY <1>3
<1> HIDE DEF inner, m
<1>4. Octets(new, DigestLength)
  BY HmacOctets
<1>5. ShaOf(F, o, ShaOf(F, i, m, 8 * BlockLength, 8), 8 * BlockLength, 8) = new
  BY HmacResumed DEF Octets
<1> HIDE DEF i, o, new
<1>6. ShaOf(F, o, BigEndian(inner, 8), 8 * BlockLength, 8) = BigEndian(y, 8) /\ inner \o tail \in [1..16 -> Nat]
  BY <1>3, DigestBlock
<1> HIDE DEF tail
<1>7. y \in Eight
  BY <1>2, <1>6, EightNat DEF Compresses
<1> HIDE DEF y
<1>8. BytesOf(y) = new
  <2>1. Len(y) = 8
    BY <1>7 DEF Eight
  <2>2. BytesOf(y) = BigEndian(y, 8)
    BY <2>1, BytesAre
  <2>3. BigEndian(y, 8) = new
    BY <1>3, <1>5, <1>6
  <2> QED BY <2>2, <2>3
<1>9. FilledUp(new) = KeyBlock(F, Sha256Init, new)
  <2>1. Len(new) = DigestLength /\ Long(new, DigestLength)
    BY <1>4, LongIsSeq DEF Octets
  <2>2. Shortened(F, new) = new
    BY <2>1, MacSizes, BlockSizes DEF Shortened
  <2> QED BY <2>1, <2>2, ShortenedLong
<1>10. ASSUME NEW byte PROVE Keyed(byte) = KeyedState(F, new, byte)
  BY <1>8, <1>9, InitialNat DEF KeyedState, PadOf
<1> HIDE DEF Keyed
<1>11. Rekeyed(c, Keyed(InnerPad), Keyed(OuterPad)) = Drbg(F, new, v)
  BY <1>10, DrbgIs
<1> HIDE DEF c
<1> QED BY <1>1, <1>4, <1>11 DEF new, m, c

\* Every place of a sequence of words is a byte of one of them.
LEMMA BytePlace ==
    ASSUME NEW n \in Nat, NEW k \in 1..LaneBytes * n
    PROVE  \E j \in 1..n, b \in 1..LaneBytes : k = LaneBytes * (j - 1) + b
<1> DEFINE p == (k - 1) \div LaneBytes
           r == (k - 1) % LaneBytes
           a == k - 1
           size == LaneBytes * n
<1>1. LaneBytes \in Nat \ {0} /\ size \in Nat
  BY BlockSizes
<1>2. a \in Nat
  BY <1>1
<1> HIDE DEF a
<1>3. a \div LaneBytes \in Nat /\ a % LaneBytes \in 0..LaneBytes - 1 /\ a = ((a \div LaneBytes) * LaneBytes) + (a % LaneBytes)
  BY <1>1, <1>2, Division
<1>4. p \in Nat /\ r \in 0..LaneBytes - 1 /\ k - 1 = p * LaneBytes + r
  BY <1>3 DEF a
<1> HIDE DEF p, r
<1> DEFINE m == n - p
           x == p * LaneBytes
           j == p + 1
           b == r + 1
<1>5. m \in Int /\ x \in Nat /\ size = x + m * LaneBytes /\ x < size
  BY <1>1, <1>4
<1>6. m >= 1
  <2> HIDE DEF m, x, size
  <2>1. m * LaneBytes > 0
    BY <1>1, <1>5
  <2> QED BY <1>1, <1>5, <2>1
<1>7. j \in 1..n /\ b \in 1..LaneBytes /\ j - 1 = p
  BY <1>1, <1>4, <1>6
<1>8. k = LaneBytes * p + b
  BY <1>1, <1>4
<1> HIDE DEF j, b
<1> QED BY <1>7, <1>8

LEMMA OctetsBack ==
    ASSUME NEW s, Octets(s, DigestLength)
    PROVE  LanesOf(s) \in Eight /\ BigEndian(LanesOf(s), 8) = s
<1> DEFINE n == 8
           v == LanesOf(s)
           t == BigEndian(v, n)
<1>1. n \in Nat /\ DigestLength = LaneBytes * n
  BY BlockSizes DEF DigestLength
<1>2. v = [j \in 1..n |-> WordAt(s, j)]
  <2> HIDE DEF n
  <2> QED BY <1>1, LanesAre DEF Octets
<1>3. ASSUME NEW j \in 1..n PROVE WordAt(s, j) \in LaneWords
  <2> HIDE DEF n
  <2> QED BY <1>1, OctetsMakeWord
<1>4. v \in Eight
  BY <1>2, <1>3 DEF Eight
<1> HIDE DEF v, n
<1>5. Long(t, LaneBytes * n) /\ \A j \in 1..n, b \in 1..LaneBytes : t[LaneBytes * (j - 1) + b] = OctetsOf(v[j])[b]
  BY <1>1, BigEndianLong
<1> HIDE DEF t
<1>6. ASSUME NEW j \in 1..n, NEW b \in 1..LaneBytes PROVE t[LaneBytes * (j - 1) + b] = s[LaneBytes * (j - 1) + b]
  <2> DEFINE u == [c \in 1..LaneBytes |-> s[LaneBytes * (j - 1) + c]]
  <2>1. LaneBytes \in Nat
    BY BlockSizes
  <2>2. Octets(u, LaneBytes)
    <3>1. ASSUME NEW c \in 1..LaneBytes PROVE s[LaneBytes * (j - 1) + c] \in 0..255
      BY <1>1, ByteInside DEF Octets
    <3> QED BY <2>1, <3>1 DEF Octets, Long
  <2>3. v[j] = Number(u, 256) /\ u[b] = s[LaneBytes * (j - 1) + b]
    BY <1>2 DEF WordAt
  <2> HIDE DEF u
  <2>4. OctetsOf(v[j]) = u
    BY <2>1, <2>2, <2>3, DigitsBack DEF Octets, OctetsOf
  <2> QED BY <1>5, <2>3, <2>4
<1>7. ASSUME NEW k \in 1..LaneBytes * n PROVE t[k] = s[k]
  <2> PICK j \in 1..n, b \in 1..LaneBytes : k = LaneBytes * (j - 1) + b
    BY <1>1, BytePlace
  <2> QED BY <1>6
<1>8. t = s
  BY <1>1, <1>5, <1>7, SameLong DEF Octets
<1> QED BY <1>4, <1>8 DEF v, t, n

-----------------------------------------------------------------------------
(* The generator against its definition.                                    *)

OnceBy(F, s, domain, data) ==
    LET new == HmacBy(F, s.k, s.v \o <<domain>> \o data) IN [k |-> new, v |-> HmacBy(F, new, s.v)]
DrbgUpdateBy(F, kv, data) ==
    IF data = <<>> THEN OnceBy(F, kv, 0, data) ELSE OnceBy(F, OnceBy(F, kv, 0, data), 1, data)

LEMMA UpdateIs ==
    ASSUME NEW F, NEW kv, NEW data
    PROVE  DrbgUpdateOf(LAMBDA k, m : HmacBy(F, k, m), kv, data) = DrbgUpdateBy(F, kv, data)
<1> DEFINE PRF(k, m) == HmacBy(F, k, m)
           Once(s, domain) == With(PRF(s.k, s.v \o <<domain>> \o data), LAMBDA k : [k |-> k, v |-> PRF(k, s.v)])
<1>1. DrbgUpdateOf(LAMBDA k, m : HmacBy(F, k, m), kv, data)
        = IF data = <<>> THEN Once(kv, 0) ELSE Once(Once(kv, 0), 1)
  BY DEF DrbgUpdateOf
<1>2. ASSUME NEW s, NEW domain PROVE Once(s, domain) = OnceBy(F, s, domain, data)
  <2> DEFINE x == HmacBy(F, s.k, s.v \o <<domain>> \o data)
             G(k) == [k |-> k, v |-> HmacBy(F, k, s.v)]
  <2>1. Once(s, domain) = CHOOSE r \in {G(k) : k \in {x}} : TRUE
    BY DEF With
  <2>2. OnceBy(F, s, domain, data) = G(x)
    BY DEF OnceBy
  <2> HIDE DEF G, x
  <2>3. (CHOOSE r \in {G(k) : k \in {x}} : TRUE) = G(x)
    OBVIOUS
  <2> QED BY <2>1, <2>2, <2>3
<1> HIDE DEF Once
<1> QED BY <1>1, <1>2 DEF DrbgUpdateBy

\* K and V as the definition has them.
KV(key, v) == [k |-> key, v |-> BigEndian(v, 8)]

OnceRight(F, key, v, domain, data1, data2) ==
    \E new : \E w \in Eight :
        /\ Octets(new, DigestLength)
        /\ UpdateV(F, UpdateK(F, Drbg(F, key, v), domain, data1, data2)) = Drbg(F, new, w)
        /\ OnceBy(F, KV(key, v), domain, data1 \o data2) = KV(new, w)

LEMMA OnceIs ==
    ASSUME NEW F, Compresses(F), NEW key, NEW k, Octets(key, k), NEW v \in Eight, NEW domain \in 0..255,
           NEW data1, NEW n1, Octets(data1, n1), NEW data2, NEW n2, Octets(data2, n2),
           data1 \o data2 = <<>> => domain = 0
    PROVE  OnceRight(F, key, v, domain, data1, data2)
<1> DEFINE data == data1 \o data2
           e == BigEndian(v, 8)
           new == HmacBy(F, key, (e \o <<domain>>) \o data)
<1>1. UpdateK(F, Drbg(F, key, v), domain, data1, data2) = Drbg(F, new, v) /\ Octets(new, DigestLength)
  BY UpdateKIs
<1>2. OnceBy(F, KV(key, v), domain, data) = [k |-> new, v |-> HmacBy(F, new, e)]
  <2> HIDE DEF data, e
  <2> QED BY DEF OnceBy, KV, e
<1> HIDE DEF new, data
<1>3. PICK w \in Eight : UpdateV(F, Drbg(F, new, v)) = Drbg(F, new, w) /\ BigEndian(w, 8) = HmacBy(F, new, e)
  BY <1>1, UpdateVIs
<1>4. OnceBy(F, KV(key, v), domain, data) = KV(new, w)
  BY <1>2, <1>3 DEF KV
<1> QED BY <1>1, <1>3, <1>4 DEF data, OnceRight

LEMMA ReseedIs ==
    ASSUME NEW F, Compresses(F), NEW key, NEW k, Octets(key, k), NEW v \in Eight,
           NEW entropy, NEW n1 \in Nat \ {0}, Octets(entropy, n1), NEW addin, NEW n2, Octets(addin, n2)
    PROVE  \E new : \E w \in Eight :
              /\ Octets(new, DigestLength)
              /\ HmacDrbgReseed(F, Drbg(F, key, v), entropy, addin) = Drbg(F, new, w)
              /\ DrbgUpdateBy(F, KV(key, v), entropy \o addin) = KV(new, w)
<1> DEFINE data == entropy \o addin
           c == Drbg(F, key, v)
           once == UpdateV(F, UpdateK(F, c, 0, entropy, addin))
           twice == UpdateV(F, UpdateK(F, once, 1, entropy, addin))
           zero == 0
           one == 1
<1>1. entropy # <<>> /\ data # <<>>
  <2> DEFINE l == n1 + n2
  <2>1. n2 \in Nat /\ l # 0
    BY DEF Octets, Long
  <2>2. Octets(data, l)
    BY JoinOctets, Zenon
  <2>3. Len(entropy) = n1
    BY LongIsSeq DEF Octets
  <2> HIDE DEF data, l
  <2>4. Len(data) = l
    BY <2>2, LongIsSeq DEF Octets
  <2>5. Len(<<>>) = 0
    OBVIOUS
  <2> QED BY <2>1, <2>3, <2>4, <2>5
<1>2. zero \in 0..255 /\ one \in 0..255 /\ (entropy \o addin = <<>> => zero = 0) /\ (entropy \o addin = <<>> => one = 0)
  BY <1>1
<1>3. \E new : \E w \in Eight : Octets(new, DigestLength) /\ once = Drbg(F, new, w) /\ OnceBy(F, KV(key, v), 0, data) = KV(new, w)
  <2>1. OnceRight(F, key, v, zero, entropy, addin)
    <3> HIDE DEF zero
    <3> QED BY <1>2, OnceIs
  <2> QED BY <2>1 DEF OnceRight
<1> PICK k1 : \E w \in Eight : Octets(k1, DigestLength) /\ once = Drbg(F, k1, w) /\ OnceBy(F, KV(key, v), 0, data) = KV(k1, w)
  BY <1>3
<1> PICK w1 \in Eight : Octets(k1, DigestLength) /\ once = Drbg(F, k1, w1) /\ OnceBy(F, KV(key, v), 0, data) = KV(k1, w1)
  BY <1>3
<1> HIDE DEF once
<1>4. \E new : \E w \in Eight : Octets(new, DigestLength) /\ twice = Drbg(F, new, w) /\ OnceBy(F, KV(k1, w1), 1, data) = KV(new, w)
  <2>1. OnceRight(F, k1, w1, one, entropy, addin)
    <3> HIDE DEF one
    <3> QED BY <1>2, OnceIs
  <2> QED BY <2>1 DEF OnceRight
<1>5. HmacDrbgReseed(F, c, entropy, addin) = twice
  BY <1>1 DEF HmacDrbgReseed, once
<1>6. DrbgUpdateBy(F, KV(key, v), data) = OnceBy(F, KV(k1, w1), 1, data)
  BY <1>1 DEF DrbgUpdateBy
<1> QED BY <1>4, <1>5, <1>6

\* The generator's definition after a seed.
Seeded(F, seed) == DrbgOf(LAMBDA k, m : HmacBy(F, k, m), seed)

LEMMA DrbgInitIs ==
    ASSUME NEW F, Compresses(F), NEW entropy, NEW n1 \in Nat \ {0}, Octets(entropy, n1), NEW addin, NEW n2, Octets(addin, n2)
    PROVE  \E new : \E w \in Eight :
              /\ Octets(new, DigestLength)
              /\ HmacDrbgInit(F, entropy, addin) = Drbg(F, new, w)
              /\ Seeded(F, entropy \o addin) = KV(new, w)
<1> DEFINE key == Zeros(DigestLength)
           ones == [i \in 1..DigestLength |-> 1]
           v == LanesOf(ones)
           Of(byte) == Squeeze(F, Sha256Init.state, LanesOf([i \in 1..BlockLength |-> byte]))
           tail == TailOf(BlockLength + DigestLength)
<1>1. DigestLength \in Nat /\ BlockLength \in Nat /\ DigestLength <= BlockLength
  BY BlockSizes, MacSizes
<1>2. Octets(key, DigestLength) /\ (\A i \in 1..DigestLength : key[i] = 0) /\ Len(key) = DigestLength
  <2>1. Long(key, DigestLength) /\ \A i \in 1..DigestLength : key[i] = 0
    BY <1>1, ZerosLong
  <2> HIDE DEF key
  <2>2. Len(key) = DigestLength
    BY <2>1, LongIsSeq
  <2>3. \A i \in 1..DigestLength : key[i] \in 0..255
    BY <2>1
  <2> QED BY <2>1, <2>2, <2>3 DEF Octets
<1>3. Octets(ones, DigestLength)
  BY <1>1 DEF Octets, Long
<1>4. v \in Eight /\ BigEndian(v, 8) = ones
  BY <1>3, OctetsBack
<1>5. ASSUME NEW byte \in 0..255 PROVE Of(byte) = KeyedState(F, key, byte)
  <2> DEFINE d == FilledUp(key)
             x == [i \in 1..BlockLength |-> byte]
  <2>1. Long(d, BlockLength) /\ \A i \in 1..BlockLength : d[i] = 0
    <3>1. DigestLength \in 0..BlockLength
      BY <1>1
    <3> HIDE DEF key
    <3>2. /\ Long(d, BlockLength) /\ (\A i \in 1..DigestLength : d[i] = key[i])
          /\ \A i \in DigestLength + 1..BlockLength : d[i] = 0
      BY <1>2, <3>1, FilledUpLong DEF Octets
    <3> HIDE DEF d
    <3>3. ASSUME NEW i \in 1..BlockLength PROVE d[i] = 0
      <4>1. i \in 1..DigestLength \/ i \in DigestLength + 1..BlockLength
        BY <1>1
      <4> QED BY <1>2, <3>2, <4>1
    <3> QED BY <3>2, <3>3
  <2>2. KeyBlock(F, Sha256Init, key) = d
    <3> HIDE DEF key
    <3>1. Shortened(F, key) = key
      BY <1>1, <1>2 DEF Shortened
    <3> QED BY <1>2, <3>1, ShortenedLong DEF Octets
  <2> HIDE DEF d, key
  <2>3. Long(XorBytes(d, byte), BlockLength) /\ \A i \in 1..BlockLength : XorBytes(d, byte)[i] = d[i] ^^ byte
    BY <2>1, XorLong
  <2>4. 0 ^^ byte = byte
    BY DEF ^^
  <2>5. XorBytes(d, byte) = x
    <3>1. Long(x, BlockLength) /\ \A i \in 1..BlockLength : x[i] = byte
      BY <1>1 DEF Long
    <3> HIDE DEF x
    <3>2. \A i \in 1..BlockLength : XorBytes(d, byte)[i] = x[i]
      BY <2>1, <2>3, <2>4, <3>1
    <3> QED BY <2>3, <3>1, <3>2, SameLong
  <2> QED BY <2>2, <2>5, InitialNat DEF KeyedState, PadOf
<1>6. HmacDrbgInit(F, entropy, addin) = HmacDrbgReseed(F, [idig |-> Of(InnerPad), odig |-> Of(OuterPad), v |-> v \o tail], entropy, addin)
  BY DEF HmacDrbgInit, Squeeze
<1>7. InnerPad \in 0..255 /\ OuterPad \in 0..255
  BY DEF InnerPad, OuterPad
<1> HIDE DEF Of, v, key
<1>8. HmacDrbgInit(F, entropy, addin) = HmacDrbgReseed(F, Drbg(F, key, v), entropy, addin)
  BY <1>5, <1>6, <1>7 DEF Drbg
<1>9. DrbgOf(LAMBDA k, m : HmacBy(F, k, m), entropy \o addin) = DrbgUpdateBy(F, KV(key, v), entropy \o addin)
  <2> DEFINE kv == [k |-> Zeros(DigestLength), v |-> [i \in 1..DigestLength |-> 1]]
  <2>1. DrbgOf(LAMBDA k, m : HmacBy(F, k, m), entropy \o addin)
          = DrbgUpdateOf(LAMBDA k, m : HmacBy(F, k, m), kv, entropy \o addin)
    BY DEF DrbgOf
  <2>2. kv = KV(key, v)
    BY <1>4 DEF KV, key
  <2> HIDE DEF kv
  <2> QED BY <2>1, <2>2, UpdateIs
<1>10. \E new : \E w \in Eight :
          /\ Octets(new, DigestLength)
          /\ HmacDrbgReseed(F, Drbg(F, key, v), entropy, addin) = Drbg(F, new, w)
          /\ DrbgUpdateBy(F, KV(key, v), entropy \o addin) = KV(new, w)
  BY <1>2, <1>4, ReseedIs
<1>11. Seeded(F, entropy \o addin) = DrbgUpdateBy(F, KV(key, v), entropy \o addin)
  BY <1>9 DEF Seeded
<1> QED BY <1>8, <1>10, <1>11

-----------------------------------------------------------------------------
(* The loops of the generator and of its definition.                        *)

GeneratedBy(F, end, len) ==
    [ctx |-> UpdateV(F, UpdateK(F, end.ctx, 0, <<>>, <<>>)), out |-> SubSeq(end.out, 1, len)]
DefinedBy(F, kv, end, len) ==
    [kv |-> DrbgUpdateOf(LAMBDA k, d : HmacBy(F, k, d), [kv EXCEPT !.v = end.v], <<>>), out |-> SubSeq(end.out, 1, len)]

LEMMA VMadeIs ==
    ASSUME NEW F, NEW s
    PROVE  With(UpdateV(F, s.ctx), LAMBDA c : [ctx |-> c, out |-> s.out \o BytesOf(SubSeq(c.v, 1, 8))]) = VMade(F, s)
<1> DEFINE x == UpdateV(F, s.ctx)
           G(c) == [ctx |-> c, out |-> s.out \o BytesOf(SubSeq(c.v, 1, 8))]
<1>1. VMade(F, s) = G(x)
  BY DEF VMade
<1>2. With(x, G) = CHOOSE r \in {G(c) : c \in {x}} : TRUE
  BY DEF With
<1> HIDE DEF G, x
<1>3. (CHOOSE r \in {G(c) : c \in {x}} : TRUE) = G(x)
  OBVIOUS
<1>4. With(x, G) = VMade(F, s)
  BY <1>1, <1>2, <1>3
<1> QED BY <1>4 DEF G, x

LEMMA VDefinedIs ==
    ASSUME NEW F, NEW s, NEW key
    PROVE  With(HmacBy(F, key, s.v), LAMBDA v : [v |-> v, out |-> s.out \o v]) = VDefined(F, s, key)
<1> DEFINE x == HmacBy(F, key, s.v)
           G(v) == [v |-> v, out |-> s.out \o v]
<1>1. VDefined(F, s, key) = G(x)
  BY DEF VDefined
<1>2. With(x, G) = CHOOSE r \in {G(c) : c \in {x}} : TRUE
  BY DEF With
<1> HIDE DEF G, x
<1>3. (CHOOSE r \in {G(c) : c \in {x}} : TRUE) = G(x)
  OBVIOUS
<1>4. With(x, G) = VDefined(F, s, key)
  BY <1>1, <1>2, <1>3
<1> QED BY <1>4 DEF G, x

LEMMA GenerateChained ==
    ASSUME NEW F, NEW ctx, NEW len, NEW n \in Nat, n = (len + DigestLength - 1) \div DigestLength, NEW B
    PROVE  HmacDrbgGenerate(F, ctx, len) = GeneratedBy(F, Chained("generate", F, [ctx |-> ctx, out |-> <<>>], B, n), len)
<1> DEFINE Step(s, i) == With(UpdateV(F, s.ctx), LAMBDA c : [ctx |-> c, out |-> s.out \o BytesOf(SubSeq(c.v, 1, 8))])
           l == (len + DigestLength - 1) \div DigestLength
           size == IF l <= 36 THEN 6 ELSE IF l <= 144 THEN 12 ELSE 48
           m == (l + size - 1) \div size
           V(s, from, k, f) == f = [i \in 0..k |-> IF i = 0 THEN s ELSE CHOOSE r \in {Step(u, from + i) : u \in {f[i - 1]}} : TRUE]
           Inner(s, from, k) == (CHOOSE f : V(s, from, k, f))[k]
           Turn(s, t) == Inner(s, size * (t - 1), IF size * t <= l THEN size ELSE l - size * (t - 1))
           W(f) == f = [t \in 0..m |-> IF t = 0 THEN [ctx |-> ctx, out |-> <<>>] ELSE CHOOSE r \in {Turn(s, 0 + t) : s \in {f[t - 1]}} : TRUE]
<1>1. HmacDrbgGenerate(F, ctx, len) = GeneratedBy(F, (CHOOSE f : W(f))[m], len)
  BY DEF HmacDrbgGenerate, GeneratedBy, Iterate, Loop
<1>2. l = n /\ l \in Nat
  OBVIOUS
<1>3. size \in {6, 12, 48}
  OBVIOUS
<1>4. ASSUME NEW s, NEW i PROVE Step(s, i) = Turned("generate", F, s, B[i])
  <2>1. Step(s, i) = VMade(F, s)
    BY VMadeIs
  <2> HIDE DEF Step
  <2> QED BY <2>1, TurnedIs
<1> HIDE DEF Step, l, size
<1>5. ASSUME NEW s, NEW from \in Nat, NEW k \in Nat
      PROVE  Inner(s, from, k) = Chained("generate", F, s, After(B, from), k)
  <2> DEFINE C == After(B, from)
  <2>1. ASSUME NEW i \in 1..k PROVE C[i] = B[from + i]
    BY DEF After
  <2> HIDE DEF C
  <2>2. ASSUME NEW f PROVE V(s, from, k, f) <=> Chain(f, "generate", F, s, C, k)
    <3>1. ASSUME NEW i \in 1..k
          PROVE  (CHOOSE r \in {Step(u, from + i) : u \in {f[i - 1]}} : TRUE) = Turned("generate", F, f[i - 1], C[i])
      <4>1. (CHOOSE r \in {Step(u, from + i) : u \in {f[i - 1]}} : TRUE) = Step(f[i - 1], from + i)
        OBVIOUS
      <4> QED BY <1>4, <2>1, <4>1
    <3> QED BY <3>1 DEF Chain
  <2> HIDE DEF V
  <2>3. (CHOOSE f : V(s, from, k, f)) = CHOOSE f : Chain(f, "generate", F, s, C, k)
    BY <2>2
  <2> QED BY <2>3 DEF Chained, C
<1> HIDE DEF Inner
<1>6. m \in Nat
  BY <1>2, <1>3
<1>7. ASSUME NEW s, NEW t \in 1..m PROVE Turn(s, t) = Turns("generate", F, B, size, l, s, t)
  <2> DEFINE k == Stint(size, l, t)
             from == size * (t - 1)
  <2>1. k \in Nat /\ from \in Nat /\ Turn(s, t) = Inner(s, from, k)
    <3> USE <1>3
    <3> QED BY <1>2, <1>6 DEF Stint
  <2> HIDE DEF k, from
  <2> QED BY <1>5, <2>1 DEF Turns, from, k
<1> HIDE DEF Turn
<1>8. ASSUME NEW f PROVE W(f) <=> Outer(f, "generate", F, [ctx |-> ctx, out |-> <<>>], B, size, l, m)
  <2> HIDE DEF m
  <2>1. ASSUME NEW t \in 1..m
        PROVE  (CHOOSE r \in {Turn(s, 0 + t) : s \in {f[t - 1]}} : TRUE) = Turns("generate", F, B, size, l, f[t - 1], t)
    <3>1. (CHOOSE r \in {Turn(s, 0 + t) : s \in {f[t - 1]}} : TRUE) = Turn(f[t - 1], t)
      BY <1>6
    <3> QED BY <1>7, <3>1
  <2> QED BY <1>6, <2>1 DEF Outer
<1>9. m = (l + size - 1) \div size
  OBVIOUS
<1> HIDE DEF W, m
<1>10. (CHOOSE f : W(f)) = CHOOSE f : Outer(f, "generate", F, [ctx |-> ctx, out |-> <<>>], B, size, l, m)
  BY <1>8
<1>11. OuterEnd("generate", F, [ctx |-> ctx, out |-> <<>>], B, size, l, m) = Chained("generate", F, [ctx |-> ctx, out |-> <<>>], B, l)
  BY <1>2, <1>3, <1>6, <1>9, OuterIs
<1> QED BY <1>1, <1>2, <1>10, <1>11 DEF OuterEnd

LEMMA DefineChained ==
    ASSUME NEW F, NEW kv, NEW len, NEW n \in Nat, n = (len + DigestLength - 1) \div DigestLength, NEW Keys, Keys = [i \in Nat |-> kv.k]
    PROVE  DrbgOutputOf(LAMBDA k, d : HmacBy(F, k, d), kv, len) = DefinedBy(F, kv, Chained("define", F, [v |-> kv.v, out |-> <<>>], Keys, n), len)
<1> DEFINE Step(s, i) == With(HmacBy(F, kv.k, s.v), LAMBDA v : [v |-> v, out |-> s.out \o v])
           l == (len + DigestLength - 1) \div DigestLength
           size == IF l <= 36 THEN 6 ELSE IF l <= 144 THEN 12 ELSE 48
           m == (l + size - 1) \div size
           V(s, from, k, f) == f = [i \in 0..k |-> IF i = 0 THEN s ELSE CHOOSE r \in {Step(u, from + i) : u \in {f[i - 1]}} : TRUE]
           Inner(s, from, k) == (CHOOSE f : V(s, from, k, f))[k]
           Turn(s, t) == Inner(s, size * (t - 1), IF size * t <= l THEN size ELSE l - size * (t - 1))
           W(f) == f = [t \in 0..m |-> IF t = 0 THEN [v |-> kv.v, out |-> <<>>] ELSE CHOOSE r \in {Turn(s, 0 + t) : s \in {f[t - 1]}} : TRUE]
<1>1. DrbgOutputOf(LAMBDA k, d : HmacBy(F, k, d), kv, len) = DefinedBy(F, kv, (CHOOSE f : W(f))[m], len)
  BY DEF DrbgOutputOf, DefinedBy, Iterate, Loop
<1>2. l = n /\ l \in Nat
  OBVIOUS
<1>3. size \in {6, 12, 48}
  OBVIOUS
<1>4. ASSUME NEW s, NEW i \in Nat PROVE Step(s, i) = Turned("define", F, s, Keys[i])
  <2>1. Step(s, i) = VDefined(F, s, kv.k)
    BY VDefinedIs
  <2>2. Keys[i] = kv.k
    OBVIOUS
  <2> HIDE DEF Step
  <2> QED BY <2>1, <2>2, TurnedIs
<1> HIDE DEF Step, l, size
<1>5. ASSUME NEW s, NEW from \in Nat, NEW k \in Nat
      PROVE  Inner(s, from, k) = Chained("define", F, s, After(Keys, from), k)
  <2> DEFINE C == After(Keys, from)
  <2>1. ASSUME NEW i \in 1..k PROVE C[i] = Keys[from + i]
    BY DEF After
  <2> HIDE DEF C
  <2>2. ASSUME NEW f PROVE V(s, from, k, f) <=> Chain(f, "define", F, s, C, k)
    <3>1. ASSUME NEW i \in 1..k
          PROVE  (CHOOSE r \in {Step(u, from + i) : u \in {f[i - 1]}} : TRUE) = Turned("define", F, f[i - 1], C[i])
      <4>1. (CHOOSE r \in {Step(u, from + i) : u \in {f[i - 1]}} : TRUE) = Step(f[i - 1], from + i)
        OBVIOUS
      <4> QED BY <1>4, <2>1, <4>1
    <3> QED BY <3>1 DEF Chain
  <2> HIDE DEF V
  <2>3. (CHOOSE f : V(s, from, k, f)) = CHOOSE f : Chain(f, "define", F, s, C, k)
    BY <2>2
  <2> QED BY <2>3 DEF Chained, C
<1> HIDE DEF Inner
<1>6. m \in Nat
  BY <1>2, <1>3
<1>7. ASSUME NEW s, NEW t \in 1..m PROVE Turn(s, t) = Turns("define", F, Keys, size, l, s, t)
  <2> DEFINE k == Stint(size, l, t)
             from == size * (t - 1)
  <2>1. k \in Nat /\ from \in Nat /\ Turn(s, t) = Inner(s, from, k)
    <3> USE <1>3
    <3> QED BY <1>2, <1>6 DEF Stint
  <2> HIDE DEF k, from
  <2> QED BY <1>5, <2>1 DEF Turns, from, k
<1> HIDE DEF Turn
<1>8. ASSUME NEW f PROVE W(f) <=> Outer(f, "define", F, [v |-> kv.v, out |-> <<>>], Keys, size, l, m)
  <2> HIDE DEF m
  <2>1. ASSUME NEW t \in 1..m
        PROVE  (CHOOSE r \in {Turn(s, 0 + t) : s \in {f[t - 1]}} : TRUE) = Turns("define", F, Keys, size, l, f[t - 1], t)
    <3>1. (CHOOSE r \in {Turn(s, 0 + t) : s \in {f[t - 1]}} : TRUE) = Turn(f[t - 1], t)
      BY <1>6
    <3> QED BY <1>7, <3>1
  <2> QED BY <1>6, <2>1 DEF Outer
<1>9. m = (l + size - 1) \div size
  OBVIOUS
<1> HIDE DEF W, m
<1>10. (CHOOSE f : W(f)) = CHOOSE f : Outer(f, "define", F, [v |-> kv.v, out |-> <<>>], Keys, size, l, m)
  BY <1>8
<1>11. OuterEnd("define", F, [v |-> kv.v, out |-> <<>>], Keys, size, l, m) = Chained("define", F, [v |-> kv.v, out |-> <<>>], Keys, l)
  BY <1>2, <1>3, <1>6, <1>9, OuterIs
<1> QED BY <1>1, <1>2, <1>10, <1>11 DEF OuterEnd

\* The generator and its definition, before or after as many turns.
InStep(F, key, made, defined) ==
    \E out : \E w \in Eight :
        /\ made = [ctx |-> Drbg(F, key, w), out |-> out]
        /\ defined = [v |-> BigEndian(w, 8), out |-> out]

LEMMA TurnsInStep ==
    ASSUME NEW F, Compresses(F), NEW key, NEW k, Octets(key, k), NEW made, NEW defined, InStep(F, key, made, defined)
    PROVE  InStep(F, key, VMade(F, made), VDefined(F, defined, key))
<1> PICK out : \E w \in Eight : made = [ctx |-> Drbg(F, key, w), out |-> out] /\ defined = [v |-> BigEndian(w, 8), out |-> out]
  BY DEF InStep
<1> PICK w \in Eight : made = [ctx |-> Drbg(F, key, w), out |-> out] /\ defined = [v |-> BigEndian(w, 8), out |-> out]
  OBVIOUS
<1>1. PICK x \in Eight : UpdateV(F, Drbg(F, key, w)) = Drbg(F, key, x) /\ BigEndian(x, 8) = HmacBy(F, key, BigEndian(w, 8))
  BY UpdateVIs
<1>2. BytesOf(SubSeq(Drbg(F, key, x).v, 1, 8)) = BigEndian(x, 8)
  <2>1. SubSeq(Drbg(F, key, x).v, 1, 8) = x /\ Len(x) = 8
    BY DrbgIs DEF Eight
  <2> QED BY <2>1, BytesAre
<1> DEFINE more == out \o BigEndian(x, 8)
<1>3. VMade(F, made) = [ctx |-> Drbg(F, key, x), out |-> more]
  <2>1. made.ctx = Drbg(F, key, w) /\ made.out = out
    OBVIOUS
  <2>2. UpdateV(F, made.ctx) = Drbg(F, key, x)
    BY <1>1, <2>1
  <2> QED BY <1>2, <2>1, <2>2 DEF VMade
<1>4. VDefined(F, defined, key) = [v |-> BigEndian(x, 8), out |-> more]
  <2>1. defined.v = BigEndian(w, 8) /\ defined.out = out
    OBVIOUS
  <2> QED BY <1>1, <2>1 DEF VDefined
<1> QED BY <1>3, <1>4 DEF InStep

GenerateRight(F, key, v, len) ==
    LET made == HmacDrbgGenerate(F, Drbg(F, key, v), len)
        defined == DrbgOutputOf(LAMBDA k, d : HmacBy(F, k, d), KV(key, v), len)
    IN /\ made.out = defined.out
       /\ \E new : \E w \in Eight : Octets(new, DigestLength) /\ made.ctx = Drbg(F, new, w) /\ defined.kv = KV(new, w)

LEMMA GenerateIs ==
    ASSUME NEW F, Compresses(F), NEW key, Octets(key, DigestLength), NEW v \in Eight, NEW len \in Nat
    PROVE  GenerateRight(F, key, v, len)
<1> DEFINE n == (len + DigestLength - 1) \div DigestLength
           kv == KV(key, v)
           Keys == [i \in Nat |-> kv.k]
           c == Drbg(F, key, v)
           G(i) == Chained("generate", F, [ctx |-> c, out |-> <<>>], Keys, i)
           D(i) == Chained("define", F, [v |-> kv.v, out |-> <<>>], Keys, i)
<1>1. n \in Nat
  <2> DEFINE a == len + DigestLength - 1
  <2>1. a \in Nat /\ DigestLength \in Nat \ {0}
    BY MacSizes
  <2> HIDE DEF a
  <2>2. a \div DigestLength \in Nat
    BY <2>1, Division
  <2> QED BY <2>2 DEF a
<1>2. kv.k = key /\ kv.v = BigEndian(v, 8)
  BY DEF KV
<1>3. HmacDrbgGenerate(F, c, len) = GeneratedBy(F, G(n), len)
  <2> HIDE DEF Keys, c
  <2> QED BY <1>1, GenerateChained
<1>4. DrbgOutputOf(LAMBDA k, d : HmacBy(F, k, d), kv, len) = DefinedBy(F, kv, D(n), len)
  <2> HIDE DEF kv
  <2> QED BY <1>1, DefineChained
<1> HIDE DEF n
<1>5. \A i \in Nat : Keys[i] = key
  BY <1>2
<1> HIDE DEF Keys
<1>6. InStep(F, key, G(0), D(0))
  <2>1. G(0) = [ctx |-> c, out |-> <<>>] /\ D(0) = [v |-> kv.v, out |-> <<>>]
    BY ChainedNone
  <2> HIDE DEF G, D
  <2> QED BY <1>2, <2>1 DEF InStep
<1>7. ASSUME NEW i \in Nat, InStep(F, key, G(i), D(i)) PROVE InStep(F, key, G(i + 1), D(i + 1))
  <2> DEFINE g == G(i)
             d == D(i)
  <2>1. G(i + 1) = Turned("generate", F, g, Keys[i + 1]) /\ D(i + 1) = Turned("define", F, d, Keys[i + 1])
    BY ChainedOnce
  <2>2. Keys[i + 1] = key
    BY <1>5
  <2>3. InStep(F, key, g, d)
    BY <1>7
  <2> HIDE DEF g, d, G, D
  <2>4. G(i + 1) = VMade(F, g) /\ D(i + 1) = VDefined(F, d, key)
    BY <2>1, <2>2, TurnedIs
  <2> QED BY <2>3, <2>4, TurnsInStep
<1> DEFINE T == {i \in Nat : InStep(F, key, G(i), D(i))}
<1>8. n \in T
  <2> HIDE DEF G, D
  <2>1. 0 \in T /\ \A i \in Nat : i \in T => i + 1 \in T
    BY <1>6, <1>7
  <2> HIDE DEF T
  <2> QED BY <1>1, <2>1, Induction
<1> HIDE DEF G, D, c, kv
<1> PICK out : \E w \in Eight : G(n) = [ctx |-> Drbg(F, key, w), out |-> out] /\ D(n) = [v |-> BigEndian(w, 8), out |-> out]
  BY <1>8 DEF InStep
<1> PICK w \in Eight : G(n) = [ctx |-> Drbg(F, key, w), out |-> out] /\ D(n) = [v |-> BigEndian(w, 8), out |-> out]
  OBVIOUS
<1> DEFINE nil == <<>>
           zero == 0
           none == 0
<1>9. Octets(nil, none) /\ zero \in 0..255 /\ nil \o nil = nil /\ (nil \o nil = <<>> => zero = 0)
  <2>1. Long(nil, none)
    BY DEF Long
  <2> QED BY <2>1 DEF Octets
<1>10. OnceRight(F, key, w, zero, nil, nil)
  <2> HIDE DEF nil, zero, none
  <2> QED BY <1>9, OnceIs
<1>11. PICK new : \E x \in Eight :
          /\ Octets(new, DigestLength)
          /\ UpdateV(F, UpdateK(F, Drbg(F, key, w), 0, <<>>, <<>>)) = Drbg(F, new, x)
          /\ OnceBy(F, KV(key, w), 0, <<>>) = KV(new, x)
  BY <1>9, <1>10 DEF OnceRight
<1> DEFINE made == HmacDrbgGenerate(F, c, len)
           defined == DrbgOutputOf(LAMBDA k, d : HmacBy(F, k, d), kv, len)
<1>12. made.ctx = UpdateV(F, UpdateK(F, Drbg(F, key, w), 0, <<>>, <<>>)) /\ made.out = SubSeq(out, 1, len)
  BY <1>3 DEF GeneratedBy
<1>13. defined.kv = OnceBy(F, KV(key, w), 0, <<>>) /\ defined.out = SubSeq(out, 1, len)
  <2>1. [kv EXCEPT !.v = BigEndian(w, 8)] = KV(key, w)
    BY DEF KV, kv
  <2>2. DrbgUpdateOf(LAMBDA k, m : HmacBy(F, k, m), KV(key, w), <<>>) = DrbgUpdateBy(F, KV(key, w), <<>>)
    BY UpdateIs
  <2>3. DrbgUpdateBy(F, KV(key, w), <<>>) = OnceBy(F, KV(key, w), 0, <<>>)
    BY DEF DrbgUpdateBy
  <2>4. D(n).v = BigEndian(w, 8) /\ D(n).out = out
    OBVIOUS
  <2>5. defined = [kv |-> DrbgUpdateOf(LAMBDA k, m : HmacBy(F, k, m), KV(key, w), <<>>), out |-> SubSeq(out, 1, len)]
    BY <1>4, <2>1, <2>4 DEF DefinedBy
  <2> HIDE DEF defined
  <2> QED BY <2>2, <2>3, <2>5
<1> HIDE DEF made, defined
<1>14. made.out = defined.out /\ \E z : \E x \in Eight : Octets(z, DigestLength) /\ made.ctx = Drbg(F, z, x) /\ defined.kv = KV(z, x)
  BY <1>11, <1>12, <1>13
<1> QED BY <1>14 DEF GenerateRight, made, defined, c, kv

-----------------------------------------------------------------------------
(* PBKDF2.                                                                  *)

LEMMA XorDigests ==
    ASSUME NEW a \in Eight, NEW b \in Eight
    PROVE  /\ XorLanes(a, b) \in Eight
           /\ BigEndian(XorLanes(a, b), 8) = XorLanes(BigEndian(a, 8), BigEndian(b, 8))
<1> DEFINE n == 8
           s == BigEndian(a, n)
           t == BigEndian(b, n)
           u == XorLanes(s, t)
<1>1. n \in Nat /\ LaneBytes * n = DigestLength /\ DigestLength \in Nat
  BY BlockSizes, MacSizes DEF DigestLength
<1>2. Octets(s, DigestLength) /\ LanesOf(s) = a /\ Octets(t, DigestLength) /\ LanesOf(t) = b
  BY DigestOctets
<1>3. Len(a) = n /\ a \in [1..n -> LaneWords] /\ b \in [1..n -> LaneWords]
  BY DEF Eight
<1> HIDE DEF n, s, t
<1>4. Len(s) = DigestLength
  BY <1>2, LongIsSeq DEF Octets
<1>5. Long(u, DigestLength) /\ \A i \in 1..DigestLength : u[i] = s[i] ^^ t[i]
  BY <1>1, <1>4 DEF XorLanes, Long
<1> HIDE DEF u
<1>6. Octets(u, DigestLength)
  BY <1>2, <1>5, XorOctets DEF Octets
<1>7. \A j \in 1..n : WordAt(s, j) ^^ WordAt(t, j) = WordAt(u, j)
  BY <1>1, <1>2, <1>5, XorLanesAre
<1>8. /\ LanesOf(s) = [j \in 1..n |-> WordAt(s, j)] /\ LanesOf(t) = [j \in 1..n |-> WordAt(t, j)]
      /\ LanesOf(u) = [j \in 1..n |-> WordAt(u, j)]
  BY <1>1, <1>2, <1>6, LanesAre DEF Octets
<1>9. \A j \in 1..n : a[j] = WordAt(s, j) /\ b[j] = WordAt(t, j)
  BY <1>2, <1>8
<1>10. XorLanes(a, b) = [j \in 1..n |-> a[j] ^^ b[j]]
  BY <1>3 DEF XorLanes
<1>11. ASSUME NEW j \in 1..n PROVE a[j] ^^ b[j] = WordAt(u, j)
  BY <1>7, <1>9
<1>12. XorLanes(a, b) = LanesOf(u)
  BY <1>8, <1>10, <1>11
<1>13. LanesOf(u) \in Eight /\ BigEndian(LanesOf(u), 8) = u
  BY <1>6, OctetsBack
<1> QED BY <1>12, <1>13 DEF u, s, t, n

\* What DigitsOf gives are digits.
LEMMA DigitsOctets ==
    ASSUME NEW v \in Nat, NEW n \in Nat
    PROVE  Octets(DigitsOf(v, 256, n), n)
<1> DEFINE base == 256
           nil == <<>>
           s0 == [rest |-> v, ds |-> nil]
           B == <<>>
           D(k) == Chained("digits", base, s0, B, k)
           T == {k \in Nat : D(k).rest \in Nat /\ Octets(D(k).ds, k)}
<1>1. 0 \in T
  <2>1. D(0) = s0
    BY ChainedNone
  <2>2. Octets(nil, 0)
    <3>1. Long(nil, 0)
      BY DEF Long
    <3> QED BY <3>1 DEF Octets
  <2> HIDE DEF nil
  <2>3. s0.rest = v /\ s0.ds = nil
    OBVIOUS
  <2> HIDE DEF D, s0
  <2> QED BY <2>1, <2>2, <2>3
<1>2. ASSUME NEW k \in Nat, k \in T PROVE k + 1 \in T
  <2> DEFINE s == D(k)
             one == 1
             x == B[k + 1]
             d == s.rest % base
             e == <<d>>
  <2>1. D(k + 1) = Turned("digits", base, s, x)
    BY ChainedOnce
  <2>2. s.rest \in Nat /\ Octets(s.ds, k)
    BY <1>2
  <2> HIDE DEF D, B, x
  <2>3. Turned("digits", base, s, x) = [rest |-> s.rest \div base, ds |-> e \o s.ds]
    <3> HIDE DEF base, s
    <3>1. Turned("digits", base, s, x) = DigitGiven(base, s)
      BY TurnedIs
    <3> QED BY <3>1 DEF DigitGiven
  <2> HIDE DEF s
  <2>4. s.rest \div base \in Nat /\ d \in 0..255
    <3> DEFINE r == s.rest
    <3>1. base \in Nat \ {0} /\ r \in Nat
      BY <2>2
    <3>2. base - 1 = 255
      OBVIOUS
    <3> HIDE DEF base, r
    <3>3. r \div base \in Nat /\ r % base \in 0..base - 1
      BY <3>1, Division
    <3> QED BY <3>2, <3>3 DEF r
  <2> HIDE DEF d
  <2>5. Octets(e, one)
    BY <2>4 DEF Octets, Long
  <2> HIDE DEF e, one
  <2>6. Octets(e \o s.ds, one + k)
    BY <2>2, <2>5, JoinOctets
  <2>7. one + k = k + 1
    BY DEF one
  <2>8. Octets(e \o s.ds, k + 1)
    BY <2>6, <2>7
  <2> DEFINE all == e \o s.ds
             rest == s.rest \div base
  <2>9. rest \in Nat /\ Octets(all, k + 1)
    BY <2>4, <2>8
  <2>10. D(k + 1) = [rest |-> rest, ds |-> all]
    BY <2>1, <2>3
  <2> HIDE DEF all, rest
  <2>11. D(k + 1).rest = rest /\ D(k + 1).ds = all
    BY <2>10
  <2> QED BY <2>9, <2>11
<1>3. DigitsOf(v, base, n) = D(n).ds
  <2> HIDE DEF base, B
  <2> QED BY DigitsChained
<1> HIDE DEF T
<1>4. n \in T
  BY <1>1, <1>2, Induction
<1> QED BY <1>3, <1>4 DEF T

\* The context of PBKDF2 under a key: the digest made last, and the sum.
Kdf(F, key, g, f, first) ==
    [odig |-> KeyedState(F, key, OuterPad), idig |-> KeyedState(F, key, InnerPad), g |-> g, f |-> f, first |-> first]
FirstMade(F, key, salt, nr) == HmacBy(F, key, salt \o DigitsOf(nr, 256, 4))
Refirst(s, first) == [s EXCEPT !.first = first]
Regenerated(s, g, f) == [s EXCEPT !.g = g, !.f = f]

LEMMA KdfIs ==
    ASSUME NEW F, NEW key, NEW g, NEW f, NEW first
    PROVE  LET s == Kdf(F, key, g, f, first)
           IN /\ s.odig = KeyedState(F, key, OuterPad) /\ s.idig = KeyedState(F, key, InnerPad)
              /\ s.g = g /\ s.f = f /\ s.first = first
              /\ \A x : Refirst(s, x) = Kdf(F, key, g, f, x)
              /\ \A x, y : Regenerated(s, x, y) = Kdf(F, key, x, y, first)
<1> DEFINE o == KeyedState(F, key, OuterPad)
           i == KeyedState(F, key, InnerPad)
           s == [odig |-> o, idig |-> i, g |-> g, f |-> f, first |-> first]
<1>1. Kdf(F, key, g, f, first) = s
  BY DEF Kdf
<1>2. s.odig = o /\ s.idig = i /\ s.g = g /\ s.f = f /\ s.first = first
  OBVIOUS
<1>3. ASSUME NEW x PROVE Refirst(s, x) = Kdf(F, key, g, f, x)
  <2>1. Kdf(F, key, g, f, x) = [odig |-> o, idig |-> i, g |-> g, f |-> f, first |-> x]
    BY DEF Kdf
  <2> HIDE DEF o, i
  <2> QED BY <2>1 DEF Refirst
<1>4. ASSUME NEW x, NEW y PROVE Regenerated(s, x, y) = Kdf(F, key, x, y, first)
  <2> DEFINE d == [s EXCEPT !.g = x, !.f = y]
  <2>1. DOMAIN d = {"odig", "idig", "g", "f", "first"} /\ d = [c \in DOMAIN d |-> d[c]]
    OBVIOUS
  <2>2. d.odig = o /\ d.idig = i /\ d.g = x /\ d.f = y /\ d.first = first
    <3> HIDE DEF o, i
    <3> QED OBVIOUS
  <2>3. Regenerated(s, x, y) = d
    BY DEF Regenerated
  <2>4. Kdf(F, key, x, y, first) = [odig |-> o, idig |-> i, g |-> x, f |-> y, first |-> first]
    BY DEF Kdf
  <2> HIDE DEF d, o, i, s
  <2>5. d = [odig |-> o, idig |-> i, g |-> x, f |-> y, first |-> first]
    BY <2>1, <2>2
  <2> QED BY <2>3, <2>4, <2>5
<1> HIDE DEF s
<1>5. /\ s.odig = o /\ s.idig = i /\ s.g = g /\ s.f = f /\ s.first = first
      /\ \A x : Refirst(s, x) = Kdf(F, key, g, f, x)
      /\ \A x, y : Regenerated(s, x, y) = Kdf(F, key, x, y, first)
  BY <1>2, <1>3, <1>4 DEF s
<1> QED BY <1>1, <1>5

\* The first digest of a block is HMAC of the salt and the number of the block.
LEMMA InitIs ==
    ASSUME NEW F, Compresses(F), NEW key, NEW k, Octets(key, k), NEW salt, NEW n, Octets(salt, n), NEW nr \in Nat
    PROVE  \E g \in Eight :
              /\ Pbkdf2Init(F, HmacPrepare(F, Sha256Init, key), salt, nr) = Kdf(F, key, g, g, 1)
              /\ BigEndian(g, 8) = FirstMade(F, key, salt, nr)
<1> DEFINE o == KeyedState(F, key, OuterPad)
           i == KeyedState(F, key, InnerPad)
           four == 4
           digits == DigitsOf(nr, 256, four)
           d == salt \o digits
           l == n + four
           before == 8 * BlockLength
           eight == 8
           nil == <<>>
           none == 0
           tail == TailOf(BlockLength + DigestLength)
           inner == ShaFinal(F, ShaUpdate(F, ShaUpdate(F, Resumed(i, BlockLength), salt), digits), eight)
           y == DigestWords(F, i, d, l, before)
           g == Squeeze(F, o, y \o tail)
<1>1. i \in Eight /\ o \in Eight /\ Long(key, k) /\ Long(salt, n) /\ n \in Nat
  <2>1. OuterPad \in 0..255 /\ InnerPad \in 0..255
    BY DEF OuterPad, InnerPad
  <2> QED BY <2>1, KeyedStateIs DEF Octets, Long
<1>2. HmacPrepare(F, Sha256Init, key) = [odig |-> o, idig |-> i]
  BY PreparedIs
<1>3. Octets(digits, four) /\ four \in Nat /\ eight \in Nat
  <2>1. four \in Nat /\ eight \in Nat
    OBVIOUS
  <2> HIDE DEF four
  <2> QED BY <2>1, DigitsOctets
<1> HIDE DEF four, digits
<1>4. Octets(d, l) /\ Long(d, l) /\ l \in Nat
  <2>1. Octets(d, l)
    BY <1>3, JoinOctets
  <2> QED BY <2>1 DEF Octets, Long
<1> HIDE DEF l
<1>5. WasFed(F, i, before, nil, none, Resumed(i, BlockLength)) /\ before \in Nat /\ before % (8 * BlockLength) = 0
  <2>1. before \in Nat /\ before % (8 * BlockLength) = 0
    <3>1. before \in Nat \ {0} /\ before = 8 * BlockLength
      BY BlockSizes
    <3>2. ((1 * before) + 0) % before = 0 /\ (1 * before) + 0 = before
      <4> HIDE DEF before
      <4> QED BY <3>1, QuotientIs
    <3> HIDE DEF before
    <3> QED BY <3>1, <3>2
  <2> QED BY <2>1, FedFresh
<1> DEFINE r == Resumed(i, BlockLength)
<1>6. Long(nil, none) /\ nil \o d = d
  BY <1>4, EmptyLong
<1>7. inner = ShaOf(F, i, nil \o d, before, eight)
  <2> HIDE DEF i, before, eight, nil, none, r
  <2>1. WasFed(F, i, before, nil, none, r)
    BY <1>5 DEF r
  <2>2. Long(nil, none) /\ Long(salt, n) /\ Long(digits, four) /\ eight \in Nat
    BY <1>1, <1>3, <1>6 DEF Octets
  <2>3. before \in Nat /\ before % (8 * BlockLength) = 0
    BY <1>5
  <2>4. ShaFinal(F, ShaUpdate(F, ShaUpdate(F, r, salt), digits), eight) = ShaOf(F, i, nil \o (salt \o digits), before, eight)
    BY <2>1, <2>2, <2>3, FedTwiceToEnd
  <2> QED BY <2>4 DEF r
<1> HIDE DEF nil, none, d
<1>8. y \in Eight /\ ShaOf(F, i, d, before, eight) = BigEndian(y, eight)
  <2> HIDE DEF i, before
  <2> QED BY <1>1, <1>4, <1>5, DigestIs, EightNat
<1>9. inner = BigEndian(y, eight)
  BY <1>6, <1>7, <1>8
<1> HIDE DEF y, inner
<1>10. LanesOf(inner) = y /\ SubSeq(y, 1, 8) = y
  <2>1. LanesOf(BigEndian(y, 8)) = y /\ SubSeq(y, 1, 8) = y
    BY <1>8, DigestOctets, DigestBlock
  <2> QED BY <1>9, <2>1
<1>11. ShaOf(F, o, inner, before, eight) = BigEndian(g, eight) /\ y \o tail \in [1..16 -> Nat]
  <2>1. ShaOf(F, o, BigEndian(y, 8), 8 * BlockLength, 8) = BigEndian(Squeeze(F, o, y \o tail), 8) /\ y \o tail \in [1..16 -> Nat]
    BY <1>8, DigestBlock
  <2> QED BY <1>9, <2>1
<1>12. g \in Eight
  BY <1>1, <1>11, EightNat DEF Compresses
<1>13. ShaOf(F, o, ShaOf(F, i, d, before, eight), before, eight) = HmacBy(F, key, d)
  BY <1>1, <1>4, HmacResumed
<1>14. BigEndian(g, 8) = FirstMade(F, key, salt, nr)
  <2>1. BigEndian(g, eight) = HmacBy(F, key, d)
    <3> HIDE DEF i, o, g, eight, before
    <3> QED BY <1>8, <1>9, <1>11, <1>13
  <2> HIDE DEF g
  <2> QED BY <2>1 DEF FirstMade, d, digits, four, eight
<1>15. Pbkdf2Init(F, HmacPrepare(F, Sha256Init, key), salt, nr) = Kdf(F, key, g, g, 1)
  <2> DEFINE p == [odig |-> o, idig |-> i]
  <2>1. p.odig = o /\ p.idig = i
    OBVIOUS
  <2> HIDE DEF p, o, i
  <2>2. Pbkdf2Init(F, p, salt, nr) = [odig |-> o, idig |-> i, g |-> g, f |-> g, first |-> 1]
    BY <1>10, <2>1 DEF Pbkdf2Init, Squeeze, inner, eight, digits, four, tail
  <2>3. Kdf(F, key, g, g, 1) = [odig |-> o, idig |-> i, g |-> g, f |-> g, first |-> 1]
    BY DEF Kdf, o, i
  <2> QED BY <1>2, <2>2, <2>3 DEF p
<1> HIDE DEF g
<1> QED BY <1>12, <1>14, <1>15

\* The context and the definition, after as many turns.
Kneading(F, key, made, defined, first) ==
    \E g \in Eight : \E f \in Eight :
        /\ made = Kdf(F, key, g, f, first)
        /\ defined = [u |-> BigEndian(g, 8), t |-> BigEndian(f, 8)]

LEMMA KneadedIs ==
    ASSUME NEW F, Compresses(F), NEW key, NEW k, Octets(key, k), NEW made, NEW defined, NEW first, Kneading(F, key, made, defined, first)
    PROVE  Kneading(F, key, Kneaded(F, made), DigestAdded(F, defined, key), first)
<1> PICK g \in Eight : \E f \in Eight : made = Kdf(F, key, g, f, first) /\ defined = [u |-> BigEndian(g, 8), t |-> BigEndian(f, 8)]
  BY DEF Kneading
<1> PICK f \in Eight : made = Kdf(F, key, g, f, first) /\ defined = [u |-> BigEndian(g, 8), t |-> BigEndian(f, 8)]
  OBVIOUS
<1> DEFINE tail == TailOf(BlockLength + DigestLength)
           x == Squeeze(F, KeyedState(F, key, OuterPad), Squeeze(F, KeyedState(F, key, InnerPad), g \o tail) \o tail)
           y == XorLanes(f, x)
           u == HmacBy(F, key, BigEndian(g, 8))
<1>1. x \in Eight /\ BigEndian(x, 8) = u
  BY ChainedTwice
<1>2. made.odig = KeyedState(F, key, OuterPad) /\ made.idig = KeyedState(F, key, InnerPad) /\ made.g = g /\ made.f = f
      /\ \A a, b : Regenerated(made, a, b) = Kdf(F, key, a, b, first)
  BY KdfIs
<1>3. Kneaded(F, made) = Regenerated(made, x, XorLanes(made.f, x))
  BY <1>2 DEF Kneaded, Regenerated
<1> HIDE DEF x
<1>4. y \in Eight /\ BigEndian(y, 8) = XorLanes(BigEndian(f, 8), BigEndian(x, 8))
  BY <1>1, XorDigests
<1>5. Kneaded(F, made) = Kdf(F, key, x, y, first)
  BY <1>2, <1>3
<1>6. defined.u = BigEndian(g, 8) /\ defined.t = BigEndian(f, 8)
  OBVIOUS
<1>7. DigestAdded(F, defined, key) = [u |-> u, t |-> XorLanes(BigEndian(f, 8), u)]
  BY <1>6 DEF DigestAdded
<1> HIDE DEF y, u
<1>8. DigestAdded(F, defined, key) = [u |-> BigEndian(x, 8), t |-> BigEndian(y, 8)]
  BY <1>1, <1>4, <1>7
<1> QED BY <1>1, <1>4, <1>5, <1>8 DEF Kneading

LEMMA KneadedWith ==
    ASSUME NEW F, NEW s
    PROVE  LET C(dig, g) == F[dig, g \o TailOf(BlockLength + DigestLength)]
           IN With(C(s.odig, C(s.idig, s.g)), LAMBDA g : [s EXCEPT !.g = g, !.f = XorLanes(@, g)]) = Kneaded(F, s)
<1> DEFINE C(dig, g) == F[dig, g \o TailOf(BlockLength + DigestLength)]
           x == C(s.odig, C(s.idig, s.g))
           G(g) == [s EXCEPT !.g = g, !.f = XorLanes(@, g)]
<1>1. Kneaded(F, s) = G(x)
  BY DEF Kneaded, Squeeze
<1>2. With(x, G) = CHOOSE r \in {G(c) : c \in {x}} : TRUE
  BY DEF With
<1> HIDE DEF G, x
<1>3. (CHOOSE r \in {G(c) : c \in {x}} : TRUE) = G(x)
  OBVIOUS
<1>4. With(x, G) = Kneaded(F, s)
  BY <1>1, <1>2, <1>3
<1> QED BY <1>4 DEF G, x

LEMMA DigestAddedWith ==
    ASSUME NEW F, NEW s, NEW key
    PROVE  With(HmacBy(F, key, s.u), LAMBDA u : [u |-> u, t |-> XorLanes(s.t, u)]) = DigestAdded(F, s, key)
<1> DEFINE x == HmacBy(F, key, s.u)
           G(u) == [u |-> u, t |-> XorLanes(s.t, u)]
<1>1. DigestAdded(F, s, key) = G(x)
  BY DEF DigestAdded
<1>2. With(x, G) = CHOOSE r \in {G(c) : c \in {x}} : TRUE
  BY DEF With
<1> HIDE DEF G, x
<1>3. (CHOOSE r \in {G(c) : c \in {x}} : TRUE) = G(x)
  OBVIOUS
<1>4. With(x, G) = DigestAdded(F, s, key)
  BY <1>1, <1>2, <1>3
<1> QED BY <1>4 DEF G, x

\* What the definition makes of one block, and of all of them.
SumBy(F, pass, start, n) ==
    LET Step(s, i) == With(HmacBy(F, pass, s.u), LAMBDA u : [u |-> u, t |-> XorLanes(s.t, u)])
    IN Iterate(Step, start, n)

LEMMA UpdateChained ==
    ASSUME NEW F, NEW pctx, NEW iterations, NEW n \in Nat, n = IF iterations - pctx.first > 0 THEN iterations - pctx.first ELSE 0, NEW B
    PROVE  Pbkdf2Update(F, pctx, iterations) = Refirst(Chained("knead", F, pctx, B, n), NextFirst(pctx.first))
<1> DEFINE Step(s, i) == With(F[s.odig, F[s.idig, s.g \o TailOf(BlockLength + DigestLength)] \o TailOf(BlockLength + DigestLength)], LAMBDA g : [s EXCEPT !.g = g, !.f = XorLanes(@, g)])
           l == IF iterations - pctx.first > 0 THEN iterations - pctx.first ELSE 0
           size == IF l <= 36 THEN 6 ELSE IF l <= 144 THEN 12 ELSE 48
           m == (l + size - 1) \div size
           V(s, from, k, f) == f = [i \in 0..k |-> IF i = 0 THEN s ELSE CHOOSE r \in {Step(u, from + i) : u \in {f[i - 1]}} : TRUE]
           Inner(s, from, k) == (CHOOSE f : V(s, from, k, f))[k]
           Turn(s, t) == Inner(s, size * (t - 1), IF size * t <= l THEN size ELSE l - size * (t - 1))
           W(f) == f = [t \in 0..m |-> IF t = 0 THEN pctx ELSE CHOOSE r \in {Turn(s, 0 + t) : s \in {f[t - 1]}} : TRUE]
<1>1. Pbkdf2Update(F, pctx, iterations) = Refirst((CHOOSE f : W(f))[m], NextFirst(pctx.first))
  BY DEF Pbkdf2Update, Refirst, Iterate, Loop
<1>2. l = n /\ l \in Nat
  OBVIOUS
<1>3. size \in {6, 12, 48}
  OBVIOUS
<1>4. ASSUME NEW s, NEW i PROVE Step(s, i) = Turned("knead", F, s, B[i])
  <2>1. Step(s, i) = Kneaded(F, s)
    BY KneadedWith
  <2> HIDE DEF Step
  <2> QED BY <2>1, TurnedIs
<1> HIDE DEF Step, l, size
<1>5. ASSUME NEW s, NEW from \in Nat, NEW k \in Nat
      PROVE  Inner(s, from, k) = Chained("knead", F, s, After(B, from), k)
  <2> DEFINE C == After(B, from)
  <2>1. ASSUME NEW i \in 1..k PROVE C[i] = B[from + i]
    BY DEF After
  <2> HIDE DEF C
  <2>2. ASSUME NEW f PROVE V(s, from, k, f) <=> Chain(f, "knead", F, s, C, k)
    <3>1. ASSUME NEW i \in 1..k
          PROVE  (CHOOSE r \in {Step(u, from + i) : u \in {f[i - 1]}} : TRUE) = Turned("knead", F, f[i - 1], C[i])
      <4>1. (CHOOSE r \in {Step(u, from + i) : u \in {f[i - 1]}} : TRUE) = Step(f[i - 1], from + i)
        OBVIOUS
      <4> QED BY <1>4, <2>1, <4>1
    <3> QED BY <3>1 DEF Chain
  <2> HIDE DEF V
  <2>3. (CHOOSE f : V(s, from, k, f)) = CHOOSE f : Chain(f, "knead", F, s, C, k)
    BY <2>2
  <2> QED BY <2>3 DEF Chained, C
<1> HIDE DEF Inner
<1>6. m \in Nat
  BY <1>2, <1>3
<1>7. ASSUME NEW s, NEW t \in 1..m PROVE Turn(s, t) = Turns("knead", F, B, size, l, s, t)
  <2> DEFINE k == Stint(size, l, t)
             from == size * (t - 1)
  <2>1. k \in Nat /\ from \in Nat /\ Turn(s, t) = Inner(s, from, k)
    <3> USE <1>3
    <3> QED BY <1>2, <1>6 DEF Stint
  <2> HIDE DEF k, from
  <2> QED BY <1>5, <2>1 DEF Turns, from, k
<1> HIDE DEF Turn
<1>8. ASSUME NEW f PROVE W(f) <=> Outer(f, "knead", F, pctx, B, size, l, m)
  <2> HIDE DEF m
  <2>1. ASSUME NEW t \in 1..m
        PROVE  (CHOOSE r \in {Turn(s, 0 + t) : s \in {f[t - 1]}} : TRUE) = Turns("knead", F, B, size, l, f[t - 1], t)
    <3>1. (CHOOSE r \in {Turn(s, 0 + t) : s \in {f[t - 1]}} : TRUE) = Turn(f[t - 1], t)
      BY <1>6
    <3> QED BY <1>7, <3>1
  <2> QED BY <1>6, <2>1 DEF Outer
<1>9. m = (l + size - 1) \div size
  OBVIOUS
<1> HIDE DEF W, m
<1>10. (CHOOSE f : W(f)) = CHOOSE f : Outer(f, "knead", F, pctx, B, size, l, m)
  BY <1>8
<1>11. OuterEnd("knead", F, pctx, B, size, l, m) = Chained("knead", F, pctx, B, l)
  BY <1>2, <1>3, <1>6, <1>9, OuterIs
<1> QED BY <1>1, <1>2, <1>10, <1>11 DEF OuterEnd

LEMMA SumChained ==
    ASSUME NEW F, NEW pass, NEW start, NEW n \in Nat, NEW B, B = [i \in Nat |-> pass]
    PROVE  SumBy(F, pass, start, n) = Chained("sum", F, start, B, n)
<1> DEFINE Step(s, i) == With(HmacBy(F, pass, s.u), LAMBDA u : [u |-> u, t |-> XorLanes(s.t, u)])
           l == n
           size == IF l <= 36 THEN 6 ELSE IF l <= 144 THEN 12 ELSE 48
           m == (l + size - 1) \div size
           V(s, from, k, f) == f = [i \in 0..k |-> IF i = 0 THEN s ELSE CHOOSE r \in {Step(u, from + i) : u \in {f[i - 1]}} : TRUE]
           Inner(s, from, k) == (CHOOSE f : V(s, from, k, f))[k]
           Turn(s, t) == Inner(s, size * (t - 1), IF size * t <= l THEN size ELSE l - size * (t - 1))
           W(f) == f = [t \in 0..m |-> IF t = 0 THEN start ELSE CHOOSE r \in {Turn(s, 0 + t) : s \in {f[t - 1]}} : TRUE]
<1>1. SumBy(F, pass, start, n) = (CHOOSE f : W(f))[m]
  BY DEF SumBy, Iterate, Loop
<1>2. l = n /\ l \in Nat
  OBVIOUS
<1>3. size \in {6, 12, 48}
  OBVIOUS
<1>4. ASSUME NEW s, NEW i \in Nat PROVE Step(s, i) = Turned("sum", F, s, B[i])
  <2>1. Step(s, i) = DigestAdded(F, s, pass)
    BY DigestAddedWith
  <2>2. B[i] = pass
    OBVIOUS
  <2> HIDE DEF Step
  <2> QED BY <2>1, <2>2, TurnedIs
<1> HIDE DEF Step, l, size
<1>5. ASSUME NEW s, NEW from \in Nat, NEW k \in Nat
      PROVE  Inner(s, from, k) = Chained("sum", F, s, After(B, from), k)
  <2> DEFINE C == After(B, from)
  <2>1. ASSUME NEW i \in 1..k PROVE C[i] = B[from + i]
    BY DEF After
  <2> HIDE DEF C
  <2>2. ASSUME NEW f PROVE V(s, from, k, f) <=> Chain(f, "sum", F, s, C, k)
    <3>1. ASSUME NEW i \in 1..k
          PROVE  (CHOOSE r \in {Step(u, from + i) : u \in {f[i - 1]}} : TRUE) = Turned("sum", F, f[i - 1], C[i])
      <4>1. (CHOOSE r \in {Step(u, from + i) : u \in {f[i - 1]}} : TRUE) = Step(f[i - 1], from + i)
        OBVIOUS
      <4> QED BY <1>4, <2>1, <4>1
    <3> QED BY <3>1 DEF Chain
  <2> HIDE DEF V
  <2>3. (CHOOSE f : V(s, from, k, f)) = CHOOSE f : Chain(f, "sum", F, s, C, k)
    BY <2>2
  <2> QED BY <2>3 DEF Chained, C
<1> HIDE DEF Inner
<1>6. m \in Nat
  BY <1>2, <1>3
<1>7. ASSUME NEW s, NEW t \in 1..m PROVE Turn(s, t) = Turns("sum", F, B, size, l, s, t)
  <2> DEFINE k == Stint(size, l, t)
             from == size * (t - 1)
  <2>1. k \in Nat /\ from \in Nat /\ Turn(s, t) = Inner(s, from, k)
    <3> USE <1>3
    <3> QED BY <1>2, <1>6 DEF Stint
  <2> HIDE DEF k, from
  <2> QED BY <1>5, <2>1 DEF Turns, from, k
<1> HIDE DEF Turn
<1>8. ASSUME NEW f PROVE W(f) <=> Outer(f, "sum", F, start, B, size, l, m)
  <2> HIDE DEF m
  <2>1. ASSUME NEW t \in 1..m
        PROVE  (CHOOSE r \in {Turn(s, 0 + t) : s \in {f[t - 1]}} : TRUE) = Turns("sum", F, B, size, l, f[t - 1], t)
    <3>1. (CHOOSE r \in {Turn(s, 0 + t) : s \in {f[t - 1]}} : TRUE) = Turn(f[t - 1], t)
      BY <1>6
    <3> QED BY <1>7, <3>1
  <2> QED BY <1>6, <2>1 DEF Outer
<1>9. m = (l + size - 1) \div size
  OBVIOUS
<1> HIDE DEF W, m
<1>10. (CHOOSE f : W(f)) = CHOOSE f : Outer(f, "sum", F, start, B, size, l, m)
  BY <1>8
<1>11. OuterEnd("sum", F, start, B, size, l, m) = Chained("sum", F, start, B, l)
  BY <1>2, <1>3, <1>6, <1>9, OuterIs
<1> QED BY <1>1, <1>2, <1>10, <1>11 DEF OuterEnd

\* As many turns of the context and of the definition.
LEMMA TurnsKneading ==
    ASSUME NEW F, Compresses(F), NEW key, NEW k, Octets(key, k), NEW made, NEW defined, NEW first,
           Kneading(F, key, made, defined, first), NEW B, \A i \in Nat : B[i] = key, NEW n \in Nat
    PROVE  Kneading(F, key, Chained("knead", F, made, B, n), Chained("sum", F, defined, B, n), first)
<1> DEFINE G(i) == Chained("knead", F, made, B, i)
           D(i) == Chained("sum", F, defined, B, i)
           T == {i \in Nat : Kneading(F, key, G(i), D(i), first)}
<1>1. Kneading(F, key, G(0), D(0), first)
  <2>1. G(0) = made /\ D(0) = defined
    BY ChainedNone
  <2> HIDE DEF G, D
  <2> QED BY <2>1
<1>2. ASSUME NEW i \in Nat, Kneading(F, key, G(i), D(i), first) PROVE Kneading(F, key, G(i + 1), D(i + 1), first)
  <2> DEFINE g == G(i)
             d == D(i)
             x == B[i + 1]
  <2>1. G(i + 1) = Turned("knead", F, g, x) /\ D(i + 1) = Turned("sum", F, d, x)
    BY ChainedOnce
  <2>2. x = key
    OBVIOUS
  <2>3. Kneading(F, key, g, d, first)
    BY <1>2
  <2> HIDE DEF g, d, G, D, x
  <2>4. G(i + 1) = Kneaded(F, g) /\ D(i + 1) = DigestAdded(F, d, key)
    BY <2>1, <2>2, TurnedIs
  <2> QED BY <2>3, <2>4, KneadedIs
<1> HIDE DEF G, D
<1>3. 0 \in T /\ \A i \in Nat : i \in T => i + 1 \in T
  BY <1>1, <1>2
<1> HIDE DEF T
<1>4. n \in T
  BY <1>3, Induction
<1> QED BY <1>4 DEF T, G, D

\* One call of Update: the first counts the turn that Init has made.
LEMMA UpdateKneads ==
    ASSUME NEW F, Compresses(F), NEW key, NEW k, Octets(key, k), NEW made, NEW defined, NEW first,
           Kneading(F, key, made, defined, first), NEW iterations, NEW n \in Nat, iterations - first = n
    PROVE  Kneading(F, key, Pbkdf2Update(F, made, iterations), SumBy(F, key, defined, n), 0)
<1> DEFINE B == [i \in Nat |-> key]
           g == Chained("knead", F, made, B, n)
           d == Chained("sum", F, defined, B, n)
<1>1. made.first = first
  <2> PICK x \in Eight : \E y \in Eight : made = Kdf(F, key, x, y, first)
    BY DEF Kneading
  <2> QED BY KdfIs
<1>2. n = IF iterations - made.first > 0 THEN iterations - made.first ELSE 0
  BY <1>1
<1>3. Pbkdf2Update(F, made, iterations) = Refirst(g, NextFirst(made.first))
  <2> HIDE DEF B
  <2> QED BY <1>2, UpdateChained
<1>4. SumBy(F, key, defined, n) = d
  BY SumChained
<1>5. \A i \in Nat : B[i] = key
  OBVIOUS
<1> HIDE DEF B
<1>6. Kneading(F, key, g, d, first)
  BY <1>5, TurnsKneading
<1> HIDE DEF g, d
<1> PICK x \in Eight : \E y \in Eight : g = Kdf(F, key, x, y, first) /\ d = [u |-> BigEndian(x, 8), t |-> BigEndian(y, 8)]
  BY <1>6 DEF Kneading
<1> PICK y \in Eight : g = Kdf(F, key, x, y, first) /\ d = [u |-> BigEndian(x, 8), t |-> BigEndian(y, 8)]
  OBVIOUS
<1>7. Refirst(g, 0) = Kdf(F, key, x, y, 0)
  BY KdfIs
<1>8. NextFirst(made.first) = 0
  BY DEF NextFirst
<1> QED BY <1>3, <1>4, <1>7, <1>8 DEF Kneading

LEMMA SumSplits ==
    ASSUME NEW F, NEW key, NEW start, NEW a \in Nat, NEW b \in Nat
    PROVE  SumBy(F, key, SumBy(F, key, start, a), b) = SumBy(F, key, start, a + b)
<1> DEFINE B == [i \in Nat |-> key]
           C == After(B, a)
           s == Chained("sum", F, start, B, a)
<1>1. SumBy(F, key, start, a) = s
  BY SumChained
<1>2. a + b \in Nat
  OBVIOUS
<1>3. SumBy(F, key, start, a + b) = Chained("sum", F, start, B, a + b)
  BY <1>2, SumChained
<1>4. SumBy(F, key, s, b) = Chained("sum", F, s, B, b)
  <2> HIDE DEF s
  <2> QED BY SumChained
<1>5. \A i \in 1..b : B[i] = C[i]
  BY DEF After
<1>6. Chained("sum", F, s, C, b) = Chained("sum", F, start, B, a + b)
  BY ChainSplit
<1> HIDE DEF s, B, C
<1>7. Chained("sum", F, s, B, b) = Chained("sum", F, s, C, b)
  BY <1>5, ChainedAgree
<1> QED BY <1>1, <1>3, <1>4, <1>6, <1>7

\* The digest and the sum with which the definition starts a block.
SumStart(F, key, salt, nr) == [u |-> FirstMade(F, key, salt, nr), t |-> FirstMade(F, key, salt, nr)]

LEMMA StartKneading ==
    ASSUME NEW F, Compresses(F), NEW key, NEW k, Octets(key, k), NEW salt, NEW n, Octets(salt, n), NEW nr \in Nat
    PROVE  Kneading(F, key, Pbkdf2Init(F, HmacPrepare(F, Sha256Init, key), salt, nr), SumStart(F, key, salt, nr), 1)
<1> PICK g \in Eight :
        /\ Pbkdf2Init(F, HmacPrepare(F, Sha256Init, key), salt, nr) = Kdf(F, key, g, g, 1)
        /\ BigEndian(g, 8) = FirstMade(F, key, salt, nr)
  BY InitIs
<1>1. SumStart(F, key, salt, nr) = [u |-> BigEndian(g, 8), t |-> BigEndian(g, 8)]
  BY DEF SumStart
<1> QED BY <1>1 DEF Kneading

\* What comes out is the sum, a digest long.
LEMMA FinalKneaded ==
    ASSUME NEW F, NEW key, NEW made, NEW defined, NEW first, Kneading(F, key, made, defined, first)
    PROVE  Pbkdf2Final(made) = defined.t /\ Long(defined.t, DigestLength)
<1> PICK g \in Eight : \E f \in Eight : made = Kdf(F, key, g, f, first) /\ defined = [u |-> BigEndian(g, 8), t |-> BigEndian(f, 8)]
  BY DEF Kneading
<1> PICK f \in Eight : made = Kdf(F, key, g, f, first) /\ defined = [u |-> BigEndian(g, 8), t |-> BigEndian(f, 8)]
  OBVIOUS
<1>1. made.f = f /\ defined.t = BigEndian(f, 8)
  BY KdfIs
<1>2. Len(f) = 8
  BY DEF Eight
<1>3. BytesOf(f) = BigEndian(f, 8) /\ Long(BigEndian(f, 8), DigestLength)
  BY <1>2, BytesAre, DigestOctets DEF Octets
<1> QED BY <1>1, <1>3 DEF Pbkdf2Final

\* A block, of which Init and Update make all iterations.
LEMMA BlockIs ==
    ASSUME NEW F, Compresses(F), NEW key, NEW k, Octets(key, k), NEW salt, NEW n, Octets(salt, n), NEW nr \in Nat,
           NEW iterations \in Nat \ {0}
    PROVE  LET sum == SumBy(F, key, SumStart(F, key, salt, nr), iterations - 1).t
           IN /\ Pbkdf2Final(Pbkdf2Update(F, Pbkdf2Init(F, HmacPrepare(F, Sha256Init, key), salt, nr), iterations)) = sum
              /\ Long(sum, DigestLength)
<1> DEFINE c == Pbkdf2Init(F, HmacPrepare(F, Sha256Init, key), salt, nr)
           start == SumStart(F, key, salt, nr)
           one == 1
           l == iterations - one
           sum == SumBy(F, key, start, l)
           end == Pbkdf2Update(F, c, iterations)
<1>1. Kneading(F, key, c, start, one)
  BY StartKneading
<1>2. l \in Nat /\ iterations - one = l
  OBVIOUS
<1> HIDE DEF c, start, l, one
<1>3. Kneading(F, key, end, sum, 0)
  BY <1>1, <1>2, UpdateKneads
<1> HIDE DEF end, sum
<1>4. Pbkdf2Final(end) = sum.t /\ Long(sum.t, DigestLength)
  BY <1>3, FinalKneaded
<1> QED BY <1>4 DEF end, sum, c, start, l, one

\* Pieces, one behind the other.
LEMMA JoinedChained ==
    ASSUME NEW p, NEW n \in Nat, Len(p) = n, NEW F
    PROVE  Joined(p) = Chained("join", F, <<>>, p, n)
<1> DEFINE Step(s, i) == s \o p[i]
           l == Len(p)
           size == IF l <= 36 THEN 6 ELSE IF l <= 144 THEN 12 ELSE 48
           m == (l + size - 1) \div size
           V(s, from, k, f) == f = [i \in 0..k |-> IF i = 0 THEN s ELSE CHOOSE r \in {Step(u, from + i) : u \in {f[i - 1]}} : TRUE]
           Inner(s, from, k) == (CHOOSE f : V(s, from, k, f))[k]
           Turn(s, t) == Inner(s, size * (t - 1), IF size * t <= l THEN size ELSE l - size * (t - 1))
           W(f) == f = [t \in 0..m |-> IF t = 0 THEN <<>> ELSE CHOOSE r \in {Turn(s, 0 + t) : s \in {f[t - 1]}} : TRUE]
<1>1. Joined(p) = (CHOOSE f : W(f))[m]
  BY DEF Joined, Iterate, Loop
<1>2. l = n /\ l \in Nat
  OBVIOUS
<1>3. size \in {6, 12, 48}
  OBVIOUS
<1>4. ASSUME NEW s, NEW i PROVE Step(s, i) = Turned("join", F, s, p[i])
  BY TurnedIs
<1> HIDE DEF Step, l, size
<1>5. ASSUME NEW s, NEW from \in Nat, NEW k \in Nat
      PROVE  Inner(s, from, k) = Chained("join", F, s, After(p, from), k)
  <2> DEFINE C == After(p, from)
  <2>1. ASSUME NEW i \in 1..k PROVE C[i] = p[from + i]
    BY DEF After
  <2> HIDE DEF C
  <2>2. ASSUME NEW f PROVE V(s, from, k, f) <=> Chain(f, "join", F, s, C, k)
    <3>1. ASSUME NEW i \in 1..k
          PROVE  (CHOOSE r \in {Step(u, from + i) : u \in {f[i - 1]}} : TRUE) = Turned("join", F, f[i - 1], C[i])
      <4>1. (CHOOSE r \in {Step(u, from + i) : u \in {f[i - 1]}} : TRUE) = Step(f[i - 1], from + i)
        OBVIOUS
      <4> QED BY <1>4, <2>1, <4>1
    <3> QED BY <3>1 DEF Chain
  <2> HIDE DEF V
  <2>3. (CHOOSE f : V(s, from, k, f)) = CHOOSE f : Chain(f, "join", F, s, C, k)
    BY <2>2
  <2> QED BY <2>3 DEF Chained, C
<1> HIDE DEF Inner
<1>6. m \in Nat
  BY <1>2, <1>3
<1>7. ASSUME NEW s, NEW t \in 1..m PROVE Turn(s, t) = Turns("join", F, p, size, l, s, t)
  <2> DEFINE k == Stint(size, l, t)
             from == size * (t - 1)
  <2>1. k \in Nat /\ from \in Nat /\ Turn(s, t) = Inner(s, from, k)
    <3> USE <1>3
    <3> QED BY <1>2, <1>6 DEF Stint
  <2> HIDE DEF k, from
  <2> QED BY <1>5, <2>1 DEF Turns, from, k
<1> HIDE DEF Turn
<1>8. ASSUME NEW f PROVE W(f) <=> Outer(f, "join", F, <<>>, p, size, l, m)
  <2> HIDE DEF m
  <2>1. ASSUME NEW t \in 1..m
        PROVE  (CHOOSE r \in {Turn(s, 0 + t) : s \in {f[t - 1]}} : TRUE) = Turns("join", F, p, size, l, f[t - 1], t)
    <3>1. (CHOOSE r \in {Turn(s, 0 + t) : s \in {f[t - 1]}} : TRUE) = Turn(f[t - 1], t)
      BY <1>6
    <3> QED BY <1>7, <3>1
  <2> QED BY <1>6, <2>1 DEF Outer
<1>9. m = (l + size - 1) \div size
  OBVIOUS
<1> HIDE DEF W, m
<1>10. (CHOOSE f : W(f)) = CHOOSE f : Outer(f, "join", F, <<>>, p, size, l, m)
  BY <1>8
<1>11. OuterEnd("join", F, <<>>, p, size, l, m) = Chained("join", F, <<>>, p, l)
  BY <1>2, <1>3, <1>6, <1>9, OuterIs
<1> QED BY <1>1, <1>2, <1>10, <1>11 DEF OuterEnd

\* Pieces of d bytes each, joined.
LEMMA JoinedLong ==
    ASSUME NEW B, NEW d \in Nat, NEW n \in Nat, \A i \in 1..n : Long(B[i], d), NEW F
    PROVE  Long(Chained("join", F, <<>>, B, n), d * n)
<1> DEFINE D(i) == Chained("join", F, <<>>, B, i)
           T == {i \in Nat : i <= n => Long(D(i), d * i)}
<1>1. Long(D(0), d * 0)
  <2>1. D(0) = <<>>
    BY ChainedNone
  <2>2. d * 0 = 0 /\ Long(<<>>, 0)
    BY DEF Long
  <2> HIDE DEF D
  <2> QED BY <2>1, <2>2
<1>2. ASSUME NEW i \in Nat, i + 1 <= n, Long(D(i), d * i) PROVE Long(D(i + 1), d * (i + 1))
  <2> DEFINE g == D(i)
             x == B[i + 1]
             l == d * i
  <2>1. D(i + 1) = Turned("join", F, g, x)
    BY ChainedOnce
  <2>2. Long(g, l) /\ Long(x, d)
    BY <1>2
  <2>3. l + d = d * (i + 1)
    OBVIOUS
  <2> HIDE DEF g, x, l, D
  <2>4. D(i + 1) = g \o x
    BY <2>1, TurnedIs
  <2>5. Long(g \o x, l + d)
    BY <2>2, JoinLong
  <2> QED BY <2>3, <2>4, <2>5
<1> HIDE DEF D
<1>3. 0 \in T
  BY <1>1
<1>4. ASSUME NEW i \in Nat, i \in T PROVE i + 1 \in T
  <2>1. CASE i + 1 <= n
    <3>1. i <= n
      BY <2>1
    <3>2. Long(D(i), d * i)
      BY <1>4, <3>1
    <3> QED BY <1>2, <2>1, <3>2
  <2>2. CASE ~(i + 1 <= n)
    BY <2>2
  <2> QED BY <2>1, <2>2
<1> HIDE DEF T
<1>5. n \in T
  BY <1>3, <1>4, Induction
<1> QED BY <1>5 DEF T, D

\* Where a cut leaves n items and last more, of d.
CutAt(l, n, last, d) == last \in 0..d /\ l = n + last
CutsBehind(s, x, last, l) == s \o SubSeq(x, 1, last) = SubSeq(s \o x, 1, l)
CutItem(A, B, n, last) == A[n] = SubSeq(B[n], 1, last)
JoinedUpTo(A, B, len) == Joined(A) = SubSeq(Joined(B), 1, len)

\* The beginning of x behind s is the beginning of both together.
LEMMA CutBehind ==
    ASSUME NEW s, NEW n, Long(s, n), NEW x, NEW d, Long(x, d), NEW last, NEW l, CutAt(l, n, last, d)
    PROVE  CutsBehind(s, x, last, l)
<1> DEFINE y == SubSeq(x, 1, last)
           all == s \o x
           cut == SubSeq(all, 1, l)
           e == n + d
           short == s \o y
<1>1. n \in Nat /\ d \in Nat /\ last \in 0..d /\ last \in Nat /\ l = n + last /\ l \in 0..e
  BY DEF Long, CutAt
<1>2. Long(y, last) /\ \A i \in 1..last : y[i] = x[i]
  BY <1>1, SubSeqFromStart
<1> HIDE DEF y
<1>3. JoinOf(short, s, n, y, last) /\ JoinOf(all, s, n, x, d)
  BY <1>1, <1>2, JoinIs
<1> HIDE DEF short, all
<1>4. Long(short, l) /\ Long(all, e)
  <2>1. Long(short, n + last) /\ Long(all, n + d)
    BY <1>3 DEF JoinOf
  <2> QED BY <1>1, <2>1
<1> HIDE DEF e
<1>5. Long(cut, l) /\ \A i \in 1..l : cut[i] = all[i]
  BY <1>1, <1>4, SubSeqFromStart
<1> HIDE DEF cut
<1>6. ASSUME NEW i \in 1..l PROVE short[i] = cut[i]
  <2>1. CASE i \in 1..n
    BY <1>3, <1>5, <2>1 DEF JoinOf
  <2>2. CASE i \notin 1..n
    <3> DEFINE j == i - n
    <3>1. j \in 1..last /\ j \in 1..d /\ i = n + j
      BY <1>1, <2>2
    <3> HIDE DEF j
    <3>2. short[n + j] = y[j] /\ all[n + j] = x[j] /\ y[j] = x[j]
      BY <1>2, <1>3, <3>1 DEF JoinOf
    <3> QED BY <1>5, <3>1, <3>2
  <2> QED BY <2>1, <2>2
<1>7. short = cut
  BY <1>4, <1>5, <1>6, SameLong
<1> QED BY <1>7 DEF short, cut, all, y, CutsBehind

\* Whole digests, the last one cut, are as many digests, cut at the end.
LEMMA JoinedCut ==
    ASSUME NEW d \in Nat, NEW n \in Nat \ {0}, NEW A, Long(A, n), NEW B, Long(B, n), \A i \in 1..n : Long(B[i], d),
           NEW m \in Nat, n = m + 1, NEW last, CutItem(A, B, n, last), \A i \in 1..m : A[i] = B[i],
           NEW len, CutAt(len, d * m, last, d)
    PROVE  JoinedUpTo(A, B, len)
<1> DEFINE F == 0
           X == Chained("join", F, <<>>, B, m)
           Y == Chained("join", F, <<>>, A, m)
<1>1. m \in Nat /\ n = m + 1 /\ n \in Nat /\ last \in 0..d
  BY DEF CutAt
<1>2. Len(A) = n /\ Len(B) = n
  BY LongIsSeq
<1>3. \A i \in 1..m : A[i] = B[i] /\ Long(B[i], d)
  OBVIOUS
<1>4. A[m + 1] = SubSeq(B[m + 1], 1, last) /\ Long(B[m + 1], d)
  <2>1. A[n] = SubSeq(B[n], 1, last)
    BY DEF CutItem
  <2>2. n \in 1..n
    BY <1>1
  <2>3. Long(B[n], d)
    BY <2>2
  <2> QED BY <2>1, <2>3
<1> HIDE DEF F
<1>5. Joined(A) = Chained("join", F, <<>>, A, n) /\ Joined(B) = Chained("join", F, <<>>, B, n)
  BY <1>1, <1>2, JoinedChained
<1>6. /\ Chained("join", F, <<>>, A, m + 1) = Turned("join", F, Y, A[m + 1])
      /\ Chained("join", F, <<>>, B, m + 1) = Turned("join", F, X, B[m + 1])
  <2>1. m \in Nat
    OBVIOUS
  <2> QED BY ONLY <2>1, ChainedOnce DEF X, Y
<1>7. Y = X
  BY <1>1, <1>3, ChainedAgree
<1>8. Long(X, d * m)
  BY <1>1, <1>3, JoinedLong
<1> DEFINE l == d * m
           x == B[m + 1]
           a == A[m + 1]
<1> HIDE DEF X, Y, l, x, a
<1>9. Joined(A) = Y \o a /\ Joined(B) = X \o x
  <2>1. Turned("join", F, Y, a) = Y \o a /\ Turned("join", F, X, x) = X \o x
    BY TurnedIs
  <2> QED BY <1>1, <1>5, <1>6, <2>1 DEF a, x
<1>10. a = SubSeq(x, 1, last)
  BY <1>4 DEF a, x
<1> DEFINE z == X
<1>11. CutsBehind(z, x, last, len)
  <2>1. Long(x, d) /\ Long(z, l) /\ CutAt(len, l, last, d)
    BY <1>1, <1>4, <1>8 DEF x, l, CutAt
  <2> HIDE DEF z
  <2> QED BY <2>1, CutBehind
<1> QED BY <1>7, <1>9, <1>10, <1>11 DEF CutsBehind, JoinedUpTo

LEMMA BlocksCounted ==
    ASSUME NEW len \in Nat, NEW d \in Nat \ {0}
    PROVE  LET r == len % d
               blocks == len \div d + (IF r # 0 THEN 1 ELSE 0)
               last == IF r # 0 THEN r ELSE d
           IN /\ blocks \in Nat /\ blocks = (len + d - 1) \div d /\ last \in 0..d
              /\ blocks # 0 => len = d * (blocks - 1) + last
              /\ blocks = 0 => len = 0
<1> DEFINE q == len \div d
           r == len % d
<1>1. q \in Nat /\ r \in 0..d - 1 /\ len = (q * d) + r
  BY Division
<1> HIDE DEF q, r
<1>2. CASE r = 0
  <2> DEFINE e == d - 1
  <2>1. e \in Nat /\ e < d
    OBVIOUS
  <2>2. len + d - 1 = (q * d) + e
    BY <1>1, <1>2
  <2> HIDE DEF e
  <2>3. ((q * d) + e) \div d = q
    BY <1>1, <2>1, QuotientIs
  <2>4. (len + d - 1) \div d = q
    BY <2>2, <2>3
  <2>5. q # 0 => len = d * (q - 1) + d
    BY <1>1, <1>2
  <2>6. q = 0 => len = 0
    BY <1>1, <1>2
  <2>7. q + 0 = q /\ d \in 0..d
    BY <1>1
  <2> QED BY <1>1, <1>2, <2>4, <2>5, <2>6, <2>7 DEF q, r
<1>3. CASE r # 0
  <2> DEFINE e == r - 1
             p == q + 1
  <2>1. e \in Nat /\ e < d /\ p \in Nat /\ p # 0
    BY <1>1, <1>3
  <2>2. len + d - 1 = (p * d) + e
    BY <1>1
  <2>3. p - 1 = q /\ len = d * q + r
    BY <1>1
  <2> HIDE DEF e, p
  <2>4. ((p * d) + e) \div d = p
    BY <2>1, QuotientIs
  <2>5. (len + d - 1) \div d = p
    BY <2>2, <2>4
  <2>6. len = d * (p - 1) + r /\ r \in 0..d
    BY <1>1, <2>3
  <2> QED BY <1>1, <1>3, <2>1, <2>5, <2>6 DEF q, r, p
<1> QED BY <1>2, <1>3

PbkdfBy(F, pass, salt, iterations, len) == Pbkdf2Of(LAMBDA x, m : HmacBy(F, x, m), pass, salt, iterations, len)

\* PBKDF2 in one call is the definition.
LEMMA Pbkdf2Is ==
    ASSUME NEW F, Compresses(F), NEW key, NEW k, Octets(key, k), NEW salt, NEW n, Octets(salt, n),
           NEW iterations \in Nat \ {0}, NEW keylen \in Nat
    PROVE  Pbkdf2(F, HmacPrepare(F, Sha256Init, key), salt, iterations, keylen)
             = PbkdfBy(F, key, salt, iterations, keylen)
<1> DEFINE d == DigestLength
           r == keylen % d
           blocks == keylen \div d + (IF r # 0 THEN 1 ELSE 0)
           last == IF r # 0 THEN r ELSE d
           prepared == HmacPrepare(F, Sha256Init, key)
           Made(nr) == Pbkdf2Final(Pbkdf2Update(F, Pbkdf2Init(F, prepared, salt, nr), iterations))
           Sum(nr) == SumBy(F, key, SumStart(F, key, salt, nr), iterations - 1).t
           count == (keylen + d - 1) \div d
           A == [nr \in 1..blocks |-> IF nr < blocks THEN Made(nr) ELSE SubSeq(Made(nr), 1, last)]
           B == [nr \in 1..count |-> Sum(nr)]
<1>1. Pbkdf2(F, prepared, salt, iterations, keylen) = Joined(A)
  BY DEF Pbkdf2
<1>2. PbkdfBy(F, key, salt, iterations, keylen) = SubSeq(Joined(B), 1, keylen)
  BY DEF PbkdfBy, Pbkdf2Of, SumBy, SumStart, FirstMade
<1>3. d \in Nat \ {0} /\ d \in Nat
  BY MacSizes
<1>4. ASSUME NEW nr \in Nat PROVE Made(nr) = Sum(nr) /\ Long(Sum(nr), d)
  BY BlockIs
<1> HIDE DEF d, Made, Sum, prepared
<1>5. /\ blocks \in Nat /\ blocks = count /\ last \in 0..d
      /\ blocks # 0 => keylen = d * (blocks - 1) + last
      /\ blocks = 0 => keylen = 0
  BY <1>3, BlocksCounted
<1> HIDE DEF blocks, last, count
<1>6. A = [nr \in 1..blocks |-> IF nr < blocks THEN Sum(nr) ELSE SubSeq(Sum(nr), 1, last)]
  BY <1>4, <1>5
<1>7. B = [nr \in 1..blocks |-> Sum(nr)]
  BY <1>5
<1>8. Long(A, blocks) /\ Long(B, blocks)
  BY <1>5, <1>6, <1>7 DEF Long
<1>9. CASE blocks = 0
  <2>1. Len(A) = 0 /\ Len(B) = 0
    BY <1>9, <1>8, LongIsSeq
  <2> HIDE DEF A, B
  <2>2. Joined(A) = Chained("join", F, <<>>, A, 0) /\ Joined(B) = Chained("join", F, <<>>, B, 0)
    BY <2>1, JoinedChained
  <2>3. Joined(A) = <<>> /\ Joined(B) = <<>>
    BY <2>2, ChainedNone
  <2>4. SubSeq(<<>>, 1, 0) = <<>>
    OBVIOUS
  <2> QED BY <1>1, <1>2, <1>5, <1>9, <2>3, <2>4 DEF prepared
<1>10. CASE blocks # 0
  <2>1. \A i \in 1..blocks : Long(Sum(i), d)
    BY <1>4
  <2>2. blocks \in Nat \ {0} /\ keylen = d * (blocks - 1) + last
    BY <1>5, <1>10
  <2> DEFINE m == blocks - 1
  <2>3. \A i \in 1..blocks : B[i] = Sum(i) /\ A[i] = IF i < blocks THEN Sum(i) ELSE SubSeq(Sum(i), 1, last)
    BY <1>6, <1>7
  <2>4. blocks \in 1..blocks /\ ~(blocks < blocks) /\ \A i \in 1..m : i \in 1..blocks /\ i < blocks
    BY <2>2
  <2>5. CutAt(keylen, d * m, last, d) /\ m \in Nat /\ blocks = m + 1
    BY <1>5, <2>2 DEF CutAt
  <2> HIDE DEF A, B, m
  <2>6. \A i \in 1..blocks : Long(B[i], d)
    BY <2>1, <2>3
  <2>7. \A i \in 1..m : A[i] = B[i]
    BY <2>3, <2>4
  <2>8. CutItem(A, B, blocks, last)
    BY <2>3, <2>4 DEF CutItem
  <2>9. JoinedUpTo(A, B, keylen)
    BY <1>3, <1>5, <1>8, <2>2, <2>5, <2>6, <2>7, <2>8, JoinedCut
  <2> QED BY <1>1, <1>2, <2>9 DEF prepared, JoinedUpTo
<1> QED BY <1>9, <1>10

\* Iterations spread over three calls: each after the first makes as many turns
\* as it is told.
LEMMA SpreadIs ==
    ASSUME NEW F, Compresses(F), NEW key, NEW k, Octets(key, k), NEW made, NEW start, Kneading(F, key, made, start, 1),
           NEW n \in Nat \ {0}, NEW B, B = [i \in Nat |-> n], NEW total, total = 3 * n - 1
    PROVE  Pbkdf2Final(Chained("spread", F, made, B, 3)) = SumBy(F, key, start, total).t
<1> DEFINE D(i) == Chained("spread", F, made, B, i)
           one == 1
           l == n - one
           a == Pbkdf2Update(F, made, n)
           b == Pbkdf2Update(F, a, n)
           c == Pbkdf2Update(F, b, n)
           x == SumBy(F, key, start, l)
           y == SumBy(F, key, x, n)
           z == SumBy(F, key, y, n)
<1>1. D(3) = c
  <2> DEFINE d1 == D(1)
             d2 == D(2)
  <2>1. D(0) = made
    BY ChainedNone
  <2>2. D(0 + 1) = Turned("spread", F, D(0), B[0 + 1]) /\ D(1 + 1) = Turned("spread", F, d1, B[1 + 1]) /\ D(2 + 1) = Turned("spread", F, d2, B[2 + 1])
    <3>1. 0 \in Nat /\ 1 \in Nat /\ 2 \in Nat
      OBVIOUS
    <3> QED BY ONLY <3>1, ChainedOnce
  <2>3. B[1] = n /\ B[2] = n /\ B[3] = n
    OBVIOUS
  <2> HIDE DEF D, d1, d2
  <2>4. d1 = Turned("spread", F, made, n) /\ D(2) = Turned("spread", F, d1, n) /\ D(3) = Turned("spread", F, d2, n)
    BY <2>1, <2>2, <2>3 DEF d1
  <2>5. Turned("spread", F, made, n) = a /\ Turned("spread", F, d1, n) = Pbkdf2Update(F, d1, n)
        /\ Turned("spread", F, d2, n) = Pbkdf2Update(F, d2, n)
    <3> HIDE DEF a
    <3> QED BY TurnedIs DEF a
  <2>6. d1 = a
    BY <2>4, <2>5
  <2>7. d2 = b
    BY <2>4, <2>5, <2>6 DEF d2
  <2> QED BY <2>4, <2>5, <2>7
<1>2. l \in Nat /\ n - one = l /\ n \in Nat /\ n - 0 = n
  OBVIOUS
<1> HIDE DEF l, D
<1>3. Kneading(F, key, a, x, 0)
  <2>1. Kneading(F, key, made, start, one)
    OBVIOUS
  <2> HIDE DEF one
  <2> QED BY <1>2, <2>1, UpdateKneads
<1> HIDE DEF a, x
<1>4. Kneading(F, key, b, y, 0)
  BY <1>2, <1>3, UpdateKneads
<1> HIDE DEF b, y
<1>5. Kneading(F, key, c, z, 0)
  BY <1>2, <1>4, UpdateKneads
<1> HIDE DEF c, z
<1>6. Pbkdf2Final(c) = z.t
  BY <1>5, FinalKneaded
<1>7. z = SumBy(F, key, start, total)
  <2> DEFINE e == l + n
             g == e + n
  <2>1. e \in Nat /\ g = total
    BY <1>2 DEF l
  <2>2. y = SumBy(F, key, start, e)
    BY <1>2, SumSplits DEF y, x
  <2> HIDE DEF e
  <2>3. z = SumBy(F, key, start, g)
    BY <1>2, <2>1, <2>2, SumSplits DEF z
  <2> QED BY <2>1, <2>3
<1>8. D(3) = Chained("spread", F, made, B, 3)
  BY DEF D
<1> QED BY <1>1, <1>6, <1>7, <1>8

\* A key of one digest is one block.
LEMMA OneDigest ==
    ASSUME NEW F, NEW key, NEW salt, NEW iterations, NEW l, l = iterations - 1,
           Long(SumBy(F, key, SumStart(F, key, salt, 1), l).t, DigestLength)
    PROVE  PbkdfBy(F, key, salt, iterations, DigestLength) = SumBy(F, key, SumStart(F, key, salt, 1), l).t
<1> DEFINE d == DigestLength
           Sum(nr) == SumBy(F, key, SumStart(F, key, salt, nr), iterations - 1).t
           count == (d + d - 1) \div d
           B == [nr \in 1..count |-> Sum(nr)]
           one == 1
           x == B[one]
           nil == <<>>
           none == 0
<1>1. PbkdfBy(F, key, salt, iterations, DigestLength) = SubSeq(Joined(B), 1, d)
  BY DEF PbkdfBy, Pbkdf2Of, SumBy, SumStart, FirstMade
<1>2. Sum(1) = SumBy(F, key, SumStart(F, key, salt, 1), l).t
  OBVIOUS
<1>3. d \in Nat \ {0} /\ d \in Nat
  BY MacSizes
<1>4. Long(Sum(1), d)
  BY <1>2
<1> HIDE DEF d, Sum
<1>5. count = 1
  <2> DEFINE e == d - 1
  <2>1. e \in Nat /\ e < d
    BY <1>3
  <2>2. d + d - 1 = (1 * d) + e
    BY <1>3
  <2> HIDE DEF e
  <2>3. ((1 * d) + e) \div d = 1
    BY <1>3, <2>1, QuotientIs
  <2> QED BY <2>2, <2>3
<1> HIDE DEF count
<1>6. B = [nr \in 1..1 |-> Sum(nr)]
  BY <1>5
<1>7. Long(B, one) /\ x = Sum(1) /\ Len(B) = one
  <2>1. Long(B, one) /\ x = Sum(1)
    BY <1>6 DEF Long
  <2> QED BY <2>1, LongIsSeq
<1> HIDE DEF B, x
<1>8. Joined(B) = Chained("join", 0, <<>>, B, one)
  BY <1>7, JoinedChained
<1>9. Chained("join", 0, <<>>, B, 0 + 1) = Turned("join", 0, Chained("join", 0, <<>>, B, 0), B[0 + 1])
  <2>1. none \in Nat
    OBVIOUS
  <2>2. Chained("join", 0, <<>>, B, none + 1) = Turned("join", 0, Chained("join", 0, <<>>, B, none), B[none + 1])
    BY ONLY <2>1, ChainedOnce
  <2> QED BY <2>2
<1>10. Chained("join", 0, <<>>, B, 0) = nil
  BY ChainedNone
<1>11. Joined(B) = Turned("join", 0, nil, x)
  BY <1>8, <1>9, <1>10 DEF x
<1> HIDE DEF nil
<1>12. Turned("join", 0, nil, x) = nil \o x
  BY TurnedIs
<1>13. nil \o x = x
  BY <1>4, <1>7, EmptyLong DEF nil
<1>14. SubSeq(x, 1, d) = x
  <2>1. Long(x, d) /\ d \in 0..d
    BY <1>3, <1>4, <1>7
  <2> DEFINE y == SubSeq(x, 1, d)
  <2>2. Long(y, d) /\ \A i \in 1..d : y[i] = x[i]
    BY <2>1, SubSeqFromStart
  <2> HIDE DEF y
  <2>3. y = x
    BY <2>1, <2>2, SameLong
  <2> QED BY <2>3 DEF y
<1> QED BY <1>1, <1>2, <1>7, <1>11, <1>12, <1>13, <1>14
=============================================================================

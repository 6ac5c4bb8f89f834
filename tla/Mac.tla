-------------------------------- MODULE Mac --------------------------------
(***************************************************************************)
(* hmac.c, pbkdf2.c, hmac_drbg.c, rfc6979.c and hasher.c of                *)
(* src/lib/trezor-crypto.  All of them work on a compression function F of *)
(* a state of eight lanes, see Sha2; most of them run it on states they    *)
(* computed before instead of hashing from the start.                      *)
(***************************************************************************)
EXTENDS Sha2, Sha3

DigestLength == 8 * LaneBytes

\* What is hashed in one go without a context is counted in the low word; a
\* byte and the mark behind it share a word.
ASSUME MacAssumption == 8 * (BlockLength + DigestLength + 1) < Lane /\ LaneBytes > 1

OuterPad == 92      \* 0x5c
InnerPad == 54      \* 0x36

XorBytes(s, byte) == [i \in 1..Len(s) |-> s[i] ^^ byte]
XorLanes(s, t) == [i \in 1..Len(s) |-> s[i] ^^ t[i]]
FilledUp(s) == s \o Zeros(BlockLength - Len(s))
LanesOf(bytes) == HostWords(Reversed(bytes))
BytesOf(lanes) == Reversed(HostBytes(lanes, LaneBytes * Len(lanes)))

\* The word of a mark, 0x80000000.
Mark == Number(<<128>> \o Zeros(LaneBytes - 1), 256)

\* The rest of the second block of an HMAC: a mark, zeros and the count.
TailOf(bytes) == <<Mark, 0, 0, 0, 0, 0, 0, 8 * bytes>>

\* A context that has already taken `bytes` bytes.
Resumed(state, bytes) == Sha256InitEx(state, [low |-> 8 * bytes, high |-> 0])

-----------------------------------------------------------------------------
(* HMAC.                                                                   *)

\* Fault: a key of one block is hashed too.
HashedFromBlock(key) == Len(key) >= BlockLength

HashedFirst(key) == Len(key) > BlockLength

KeyBlock(F, init, key) == FilledUp(IF HashedFirst(key) THEN ShaRaw(F, init, key, 8) ELSE key)

HmacInit(F, init, key) ==
    LET block == KeyBlock(F, init, key)
    IN [o_key_pad |-> XorBytes(block, OuterPad), ctx |-> ShaUpdate(F, init, XorBytes(block, InnerPad))]

HmacUpdate(F, hctx, msg) == [hctx EXCEPT !.ctx = ShaUpdate(F, @, msg)]

HmacFinal(F, init, hctx) ==
    ShaFinal(F, ShaUpdate(F, ShaUpdate(F, init, hctx.o_key_pad), ShaFinal(F, hctx.ctx, 8)), 8)

Hmac(F, init, key, msg) == HmacFinal(F, init, HmacUpdate(F, HmacInit(F, init, key), msg))

\* The states after the pads.
HmacPrepare(F, init, key) ==
    LET lanes == LanesOf(KeyBlock(F, init, key))
        Pad(byte) == [i \in 1..16 |-> Number([b \in 1..LaneBytes |-> byte], 256)]
    IN [odig |-> F[init.state, XorLanes(lanes, Pad(OuterPad))], idig |-> F[init.state, XorLanes(lanes, Pad(InnerPad))]]

HmacSha256(F, key, msg) == Hmac(F, Sha256Init, key, msg)
HmacSha512(F, key, msg) == Hmac(F, Sha512Init, key, msg)
HmacSha256Prepare(F, key) == HmacPrepare(F, Sha256Init, key)
HmacSha512Prepare(F, key) == HmacPrepare(F, Sha512Init, key)

-----------------------------------------------------------------------------
(* PBKDF2.                                                                 *)

Pbkdf2Init(F, prepared, salt, blocknr) ==
    LET inner == ShaFinal(F, ShaUpdate(F, ShaUpdate(F, Resumed(prepared.idig, BlockLength), salt), DigitsOf(blocknr, 256, 4)), 8)
        g == F[prepared.odig, SubSeq(LanesOf(inner), 1, 8) \o TailOf(BlockLength + DigestLength)]
    IN [odig |-> prepared.odig, idig |-> prepared.idig, g |-> g, f |-> g, first |-> 1]

\* Fault: every call of Update leaves out one iteration.
FirstKept(first) == first

\* The first call counts the iteration that Init has made.
NextFirst(first) == 0

Pbkdf2Update(F, pctx, iterations) ==
    LET Chained(dig, g) == F[dig, g \o TailOf(BlockLength + DigestLength)]
        Step(s, i) == With(Chained(s.odig, Chained(s.idig, s.g)), LAMBDA g : [s EXCEPT !.g = g, !.f = XorLanes(@, g)])
        rounds == iterations - pctx.first
    IN [Iterate(Step, pctx, IF rounds > 0 THEN rounds ELSE 0) EXCEPT !.first = NextFirst(pctx.first)]

Pbkdf2Final(pctx) == BytesOf(pctx.f)

\* Whole digests, the last one cut.
Pbkdf2(F, prepared, salt, iterations, keylen) ==
    LET blocks == keylen \div DigestLength + (IF keylen % DigestLength # 0 THEN 1 ELSE 0)
        last == IF keylen % DigestLength # 0 THEN keylen % DigestLength ELSE DigestLength
        Block(nr) == Pbkdf2Final(Pbkdf2Update(F, Pbkdf2Init(F, prepared, salt, nr), iterations))
    IN Joined([nr \in 1..blocks |-> IF nr < blocks THEN Block(nr) ELSE SubSeq(Block(nr), 1, last)])

Pbkdf2HmacSha256(F, pass, salt, iterations, keylen) ==
    Pbkdf2(F, HmacSha256Prepare(F, pass), salt, iterations, keylen)
Pbkdf2HmacSha512(F, pass, salt, iterations, keylen) ==
    Pbkdf2(F, HmacSha512Prepare(F, pass), salt, iterations, keylen)

-----------------------------------------------------------------------------
(* The generator of RFC 6979: K is kept as two states, V with its tail.    *)

\* Fault: the mark takes the place of the byte of the domain.
MarkForDomain == Mark

\* The byte of a zero domain and the mark after it.
MarkAfterDomain == Number(<<0, 128>> \o Zeros(LaneBytes - 2), 256)

\* K = HMAC(K, V || domain || data1 || data2); no data, no context: the block
\* of V is completed in place.
UpdateK(F, ctx, domain, data1, data2) ==
    LET short == F[ctx.idig, SubSeq(ctx.v, 1, 8) \o
                     <<MarkAfterDomain, 0, 0, 0, 0, 0, 0, 8 * (BlockLength + DigestLength + 1)>>]
        started == [Resumed(ctx.idig, BlockLength + DigestLength + 1)
                      EXCEPT !.buffer = FilledUp(BytesOf(SubSeq(ctx.v, 1, 8)) \o <<domain>>)]
        long == SubSeq(LanesOf(ShaFinal(F, ShaUpdate(F, ShaUpdate(F, started, data1), data2), 8)), 1, 8)
        inner == IF data1 \o data2 = <<>> THEN short ELSE long
        k == BytesOf(F[ctx.odig, inner \o TailOf(BlockLength + DigestLength)])
        Keyed(byte) == F[Sha256Init.state, LanesOf(XorBytes(FilledUp(k), byte))]
    IN [ctx EXCEPT !.idig = Keyed(InnerPad), !.odig = Keyed(OuterPad)]

UpdateV(F, ctx) ==
    LET tail == TailOf(BlockLength + DigestLength)
    IN [ctx EXCEPT !.v = F[ctx.odig, F[ctx.idig, SubSeq(@, 1, 8) \o tail] \o tail] \o tail]

HmacDrbgReseed(F, ctx, entropy, addin) ==
    LET once == UpdateV(F, UpdateK(F, ctx, 0, entropy, addin))
    IN IF entropy = <<>> THEN once ELSE UpdateV(F, UpdateK(F, once, 1, entropy, addin))

HmacDrbgInit(F, entropy, nonce) ==
    LET Of(byte) == F[Sha256Init.state, LanesOf([i \in 1..BlockLength |-> byte])]
        v == LanesOf([i \in 1..DigestLength |-> 1]) \o TailOf(BlockLength + DigestLength)
    IN HmacDrbgReseed(F, [idig |-> Of(InnerPad), odig |-> Of(OuterPad), v |-> v], entropy, nonce)

HmacDrbgGenerate(F, ctx, len) ==
    LET Step(s, i) == With(UpdateV(F, s.ctx), LAMBDA c : [ctx |-> c, out |-> s.out \o BytesOf(SubSeq(c.v, 1, 8))])
        end == Iterate(Step, [ctx |-> ctx, out |-> <<>>], (len + DigestLength - 1) \div DigestLength)
    IN [ctx |-> UpdateV(F, UpdateK(F, end.ctx, 0, <<>>, <<>>)), out |-> SubSeq(end.out, 1, len)]

\* With a curve, the hash is first taken modulo its order.
InitRfc6979(F, priv, hash, Reduced) == HmacDrbgInit(F, priv, Reduced[hash])

GenerateRfc6979(F, state, length) == HmacDrbgGenerate(F, state, length)

-----------------------------------------------------------------------------
(* hasher.c: one interface to many functions; what is not in the library's *)
(* tree (BLAKE, Groestl, RIPEMD) is a constructor.  P is the permutation.  *)

Sha2Types == {"SHA2", "SHA2D", "SHA2_RIPEMD", "SHA2_TAPSIGHASH"}
Sha3Types == {"SHA3", "SHA3K"}

HasherInitParam(type, param, midstate) ==
    [type |-> type, param |-> param,
     ctx |-> CASE type = "SHA2_TAPSIGHASH" -> Resumed(midstate, BlockLength)
               [] type \in Sha2Types \ {"SHA2_TAPSIGHASH"} -> Sha256Init
               [] type \in Sha3Types -> Sha3_256_Init
               [] OTHER -> [of |-> type, param |-> param, data |-> <<>>]]

\* Fault: what was hashed before stays.
HasherResetKeepsData(hasher, midstate) == hasher

HasherReset(hasher, midstate) == HasherInitParam(hasher.type, hasher.param, midstate)

Appended(ctx, data) == [ctx EXCEPT !.data = @ \o data]

HasherUpdate(F, P, hasher, data) ==
    [hasher EXCEPT !.ctx = CASE hasher.type \in Sha2Types -> ShaUpdate(F, @, data)
                             [] hasher.type \in Sha3Types -> Sha3Update(P, @, data)
                             [] OTHER -> Appended(@, data)]

HasherFinal(F, P, hasher) ==
    LET type == hasher.type
        digest == ShaFinal(F, hasher.ctx, 8)
    IN CASE type \in {"SHA2", "SHA2_TAPSIGHASH"} -> digest
         [] type = "SHA2D" -> ShaRaw(F, Sha256Init, digest, 8)
         [] type = "SHA2_RIPEMD" -> [of |-> "ripemd160", data |-> digest]
         [] type = "SHA3" -> Sha3Final(P, hasher.ctx)
         [] type = "SHA3K" -> KeccakFinal(P, hasher.ctx)
         [] type = "BLAKED" -> [of |-> "BLAKE", data |-> hasher.ctx]
         [] type = "BLAKE_RIPEMD" -> [of |-> "ripemd160", data |-> hasher.ctx]
         [] OTHER -> hasher.ctx

HasherRaw(F, P, type, midstate, data) ==
    HasherFinal(F, P, HasherUpdate(F, P, HasherInitParam(type, <<>>, midstate), data))
=============================================================================

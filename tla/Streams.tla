------------------------------ MODULE Streams ------------------------------
(***************************************************************************)
(* The hashes of lib/trezor-crypto and what is built on them, fed piece by *)
(* piece, against Textbook.                                                *)
(***************************************************************************)
EXTENDS Session

CONSTANTS
    Squeezed,       \* the compression of SHA-2: a function of a state and a block's lanes
    Stirred,        \* the permutation of SHA-3
    MessageBytes,   \* a message without an end
    Pieces,         \* lengths of what a hash is fed with at a time
    StreamBound,    \* bytes a hash is fed with in all
    Counts,         \* bits counted before, for the carry of the count
    KeyLengths,     \* of a message authentication code
    Amounts         \* bytes asked of a generator or a key derivation

\* A state to continue from is that of whole blocks, counted in the low word;
\* what is authenticated, derived from or seeds a generator consists of bytes.
ASSUME StreamsAssumption ==
    /\ \A c \in Counts : c \in 0..Lane - 1 /\ c % (8 * BlockLength) = 0
    /\ Pieces \subseteq Nat /\ KeyLengths \subseteq Nat /\ Amounts \subseteq Nat
    /\ \A n \in Pieces \cup KeyLengths \cup {9}, more \in Pieces \cup {0} :
          \A i \in 1..100 + n + more : MessageBytes[i] \in 0..255

-----------------------------------------------------------------------------
(* Hashes, fed piece by piece.  The contexts do not look at what the        *)
(* compression and the permutation compute.                                *)

\* n bytes of a message, from the i-th on.
Message(i, n) == [j \in 1..n |-> MessageBytes[i + j]]

Sha3Kinds == [Sha3_224 |-> Sha3_224_Init, Sha3_256 |-> Sha3_256_Init,
              Sha3_384 |-> Sha3_384_Init, Sha3_512 |-> Sha3_512_Init]

StreamSha ==
    \E before \in Counts :
        session' = [of |-> "sha", fed |-> 0, before |-> before,
                    ctx |-> Sha256InitEx(InitialState(Sha256), [low |-> before, high |-> 0])]

StreamSha3 == \E kind \in DOMAIN Sha3Kinds : session' = [of |-> "sha3", fed |-> 0, kind |-> kind, ctx |-> Sha3Kinds[kind]]

Feed(n) ==
    /\ session.of \in {"sha", "sha3"}
    /\ session.fed + n <= StreamBound
    /\ LET data == Message(session.fed, n)
       IN session' = [session EXCEPT !.fed = @ + n,
                         !.ctx = IF session.of = "sha" THEN ShaUpdate(Squeezed, @, data) ELSE Sha3Update(Stirred, @, data)]

ShaStreamed ==
    session.of = "sha" =>
        ShaFinal(Squeezed, session.ctx, 8)
          = ShaOf(Squeezed, InitialState(Sha256), Message(0, session.fed), session.before, 8)

Sha3Streamed ==
    session.of = "sha3" =>
        LET init == Sha3Kinds[session.kind]
        IN /\ Sha3Final(Stirred, session.ctx) = SpongeOf(Stirred, init, Message(0, session.fed), 6)
           /\ KeccakFinal(Stirred, session.ctx) = SpongeOf(Stirred, init, Message(0, session.fed), 1)

\* However a message is cut into pieces, the digest is the one of the whole
\* message, on both sides of every block boundary and, for SHA-2, of the carry
\* of the count; for SHA-3 and Keccak with every size of block.
HashesStreamed == ShaStreamed /\ Sha3Streamed

Rounds == session' \in [of : {"rounds"}, i : 1..12]

\* The functions on a whole message.
OneShotsRight(m) ==
    LET Right(F, init, h) == ShaOf(F, init.state, m, 0, h.lanes)
    IN /\ Sha1Raw(m) = Right(Sha1Transform, Sha1Init, Sha1)
       /\ Sha256Raw(m) = Right(Sha256Transform, Sha256Init, Sha256)
       /\ Sha384Raw(m) = Right(Sha512Transform, Sha384Init, Sha384)
       /\ Sha512Raw(m) = Right(Sha512Transform, Sha512Init, Sha512)
       /\ Sha1End(Sha1Update(Sha1Init, m)) = Hex(Sha1Raw(m))
       /\ Sha256End(Sha256Update(Sha256Init, m)) = Hex(Sha256Raw(m))
       /\ Sha512End(Sha512Update(Sha512Init, m)) = Hex(Sha512Raw(m))
       /\ Sha3_256(m) = SpongeOf(Sha3Permutation, Sha3_256_Init, m, 6)
       /\ Sha3_512(m) = SpongeOf(Sha3Permutation, Sha3_512_Init, m, 6)
       /\ Keccak_256(m) = SpongeOf(Sha3Permutation, Sha3_256_Init, m, 1)
       /\ Keccak_512(m) = SpongeOf(Sha3Permutation, Sha3_512_Init, m, 1)

BuildsAgreed ==
    session.of = "rounds" =>
        LET n == session.i
            state == [i \in 1..8 |-> (n * 977 + i * i * 31) % Lane]
            block == [i \in 1..16 |-> (n * 7919 + i * i * i * 57) % Lane]
            A == [i \in 1..25 |-> (n * 977 + i * i * 31) % 2^KeccakBits]
        IN /\ Sha256Transform[state, block] = Sha256TransformUnrolled[state, block]
           /\ Sha512Transform[state, block] = Sha512TransformUnrolled[state, block]
           /\ Sha1Transform[SubSeq(state, 1, 5), block] = Sha1TransformUnrolled[SubSeq(state, 1, 5), block]
           /\ KeccakChi(KeccakPi(KeccakRho(KeccakTheta(A)))) = KeccakRound(A)
           /\ [Sha3Permutation[A] EXCEPT ![1] = 0]
                = [Iterate(LAMBDA s, r : [KeccakRound(s) EXCEPT ![1] = @ ^^ RoundConstant(r - 1)], A, NumberOfRounds)
                     EXCEPT ![1] = 0]
           /\ n = 3 => OneShotsRight(Message(0, 45))

\* The unrolled rounds of the fast build and the compact ones are one function,
\* Keccak's steps in place are the ones of the standard, and a message hashed at
\* once has the digest of the standard too.
BuildsAgree == [][End => BuildsAgreed]_session

-----------------------------------------------------------------------------
(* Codes, derived keys and generators, all from states computed before.    *)

HashOf(m) == ShaOf(Squeezed, InitialState(Sha256), m, 0, 8)
HmacHere(key, m) == HmacOf(HashOf, key, m)

Authenticate == session' \in [of : {"mac"}, key : KeyLengths, m : Pieces, more : Pieces]

MacsComputed ==
    session.of = "mac" =>
        LET key == Message(100, session.key)
            m == Message(0, session.m)
            more == Message(session.m, session.more)
            fed == HmacUpdate(Squeezed, HmacUpdate(Squeezed, HmacInit(Squeezed, Sha256Init, key), m), more)
            prepared == HmacSha256Prepare(Squeezed, key)
            Continued(state, data) == ShaFinal(Squeezed, ShaUpdate(Squeezed, Resumed(state, BlockLength), data), 8)
        IN /\ HmacFinal(Squeezed, Sha256Init, fed) = HmacHere(key, m \o more)
           /\ HmacSha256(Squeezed, key, m \o more) = HmacHere(key, m \o more)
           /\ HmacSha512(Squeezed, key, m \o more) = HmacHere(key, m \o more)
           /\ Continued(prepared.odig, Continued(prepared.idig, m \o more)) = HmacHere(key, m \o more)

\* HMAC fed in two pieces, and HMAC continued from its prepared states, are
\* HMAC, for keys shorter than, as long as and longer than a block.
MacsRight == [][End => MacsComputed]_session

Derive == session' \in [of : {"pbkdf2"}, salt : Pieces, iterations : {1, 2, 3, 6}, len : Amounts]

KeyDerived ==
    session.of = "pbkdf2" =>
        LET pass == Message(100, 9)
            salt == Message(50, session.salt)
            n == session.iterations
            begun == Pbkdf2Init(Squeezed, HmacSha512Prepare(Squeezed, pass), salt, 1)
            spread == Iterate(LAMBDA s, i : Pbkdf2Update(Squeezed, s, n), begun, 3)
        IN /\ Pbkdf2HmacSha256(Squeezed, pass, salt, n, session.len) = Pbkdf2Of(HmacHere, pass, salt, n, session.len)
           /\ Pbkdf2HmacSha512(Squeezed, pass, salt, n, session.len) = Pbkdf2Of(HmacHere, pass, salt, n, session.len)
           /\ Pbkdf2Final(spread) = Pbkdf2Of(HmacHere, pass, salt, 3 * n, DigestLength)

\* PBKDF2 is the one of RFC 2898, in one call or with its iterations spread
\* over several, as the seed is derived with a progress bar.
KeysDerived == [][End => KeyDerived]_session

Seed == session' = [of |-> "drbg", asked |-> <<>>,
                    ctx |-> InitRfc6979(Squeezed, Message(0, 4), Message(4, 4), [h \in Seq(Nat) |-> h]),
                    out |-> <<>>]

Generate(n) ==
    /\ session.of = "drbg"
    /\ Len(session.asked) < 3
    /\ LET made == GenerateRfc6979(Squeezed, session.ctx, n)
       IN session' = [session EXCEPT !.asked = Append(@, n), !.ctx = made.ctx, !.out = made.out]

\* The nonces of a signature, first and later ones, are those of the generator
\* of SP 800-90A although K is never stored and V carries its own padding.
NoncesAsDefined ==
    session.of = "drbg" /\ session.asked # <<>> =>
        LET start == DrbgOf(HmacHere, Message(0, 8))
            end == Iterate(LAMBDA s, i : DrbgOutputOf(HmacHere, s.kv, session.asked[i]),
                           [kv |-> start, out |-> <<>>], Len(session.asked))
        IN session.out = end.out

Use == session' \in [of : {"hasher"}, type : Sha2Types \cup Sha3Types \cup {"BLAKE", "BLAKED", "BLAKE_RIPEMD"},
                     m : Pieces, more : Pieces]

HasherReused ==
    session.of = "hasher" =>
        LET type == session.type
            midstate == Squeezed[InitialState(Sha256), LanesOf(Message(9, BlockLength))]
            m == Message(0, session.m)
            more == Message(session.m, session.more)
            Fed(h, data) == HasherUpdate(Squeezed, Stirred, h, data)
            used == Fed(HasherInitParam(type, <<>>, midstate), more)
            again == HasherFinal(Squeezed, Stirred, Fed(Fed(HasherReset(used, midstate), m), more))
        IN /\ again = HasherRaw(Squeezed, Stirred, type, midstate, m \o more)
           /\ type = "SHA2D" => again = HashOf(HashOf(m \o more))
           /\ type = "SHA2_TAPSIGHASH" => again = HashOf(Message(9, BlockLength) \o m \o more)
           /\ type = "SHA3K" => again = SpongeOf(Stirred, Sha3_256_Init, m \o more, 1)

\* A hasher that is reset and used again gives what a fresh one gives, however
\* its data come, for every type; one that starts from the state of a first
\* block hashes as if that block had come first.
HashersReset == [][End => HasherReused]_session
=============================================================================

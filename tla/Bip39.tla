------------------------------- MODULE Bip39 -------------------------------
(***************************************************************************)
(* src/lib/trezor-crypto/bip39.c.  A mnemonic is the sequence of what is   *)
(* between its spaces: the index of a word of the list, or NotAWord, which *)
(* an empty piece is too; its bits are a sequence.  Where a seed is made of *)
(* it, it is only bytes.  Digest is SHA-256.                               *)
(***************************************************************************)
EXTENDS Mac

CONSTANTS
    WordBits,       \* BIP39_BITS_PER_WORD
    WordList,       \* words as sequences of letters, in order
    SeedRounds,     \* BIP39_PBKDF2_ROUNDS
    PhraseRoom,     \* of a phrase in the cache: 256
    PassRoom,       \* of a passphrase in the cache: 64
    PassMax,        \* bytes of a passphrase that count: 256
    SeedCacheSize   \* BIP39_CACHE_SIZE

ASSUME Bip39Assumption == SeedCacheSize \in Nat \ {0} /\ SeedRounds % 16 = 0

NotAWord == -1
NoPhrase == [ok |-> FALSE]

BitsOf(bytes) == Joined([i \in 1..Len(bytes) |-> DigitsOf(bytes[i], 2, 8)])

\* Three words for every four bytes; the checksum byte comes behind the data.
MnemonicFromData(data, Digest) ==
    LET n == Len(data)
        bits == BitsOf(Append(data, Digest[data][1]))
        mlen == (n * 3) \div 4
    IN IF n % 4 # 0 \/ n < 16 \/ n > 32 THEN NoPhrase
       ELSE [ok |-> TRUE, words |-> [i \in 1..mlen |-> Number(Slice(bits, (i - 1) * WordBits, i * WordBits), 2)]]

\* Zero bits for what cannot be read.  The last piece is not looked at when it
\* is empty, but it was counted as a word.
MnemonicToBits(words) ==
    LET count == Len(words)
        read == IF words # <<>> /\ words[count] = NotAWord THEN SubSeq(words, 1, count - 1) ELSE words
        bits == Joined([i \in 1..Len(read) |-> DigitsOf(read[i], 2, WordBits)])
    IN IF count < 12 \/ count > 24 \/ count % 3 # 0 THEN <<>>
       ELSE IF \E i \in 1..Len(read) : read[i] = NotAWord THEN <<>>
       ELSE IF Len(bits) # count * WordBits THEN <<>> ELSE bits

\* Fault: the checksum of eighteen words is compared in four bits only.
ChecksumBitsOfTwelve(words) == IF words = 24 THEN 8 ELSE 4

ChecksumBits(words) == CASE words = 12 -> 4 [] words = 18 -> 6 [] OTHER -> 8

\* Phrases of 15 and of 21 words can be made and read, but do not pass.
MnemonicCheck(words, Digest) ==
    LET bits == MnemonicToBits(words)
        n == Len(bits) \div WordBits
        entropy == (n * 4) \div 3
        data == [i \in 1..entropy |-> Number(Slice(bits, 8 * (i - 1), 8 * i), 2)]
        checked == ChecksumBits(n)
    IN /\ n \in {12, 18, 24}
       /\ SubSeq(DigitsOf(Digest[data][1], 2, 8), 1, checked) = Slice(bits, 8 * entropy, 8 * entropy + checked)

-----------------------------------------------------------------------------
(* Seeds, with the last ones kept.                                         *)

NoSeeds == [index |-> 1, entries |-> [j \in 1..SeedCacheSize |-> [set |-> FALSE]]]

SaltPrefix == <<109, 110, 101>>     \* "mnemonic"

Truncated(passphrase) == IF Len(passphrase) > PassMax THEN SubSeq(passphrase, 1, PassMax) ELSE passphrase

SeedOf(F, mnemonic, passphrase) ==
    LET begun == Pbkdf2Init(F, HmacSha512Prepare(F, mnemonic), SaltPrefix \o Truncated(passphrase), 1)
    IN Pbkdf2Final(Iterate(LAMBDA s, i : Pbkdf2Update(F, s, SeedRounds \div 16), begun, 16))

MnemonicToSeed(F, cache, mnemonic, passphrase) ==
    LET cached == Len(mnemonic) < PhraseRoom /\ Len(passphrase) < PassRoom
        found == {j \in 1..SeedCacheSize : LET entry == cache.entries[j]
                                           IN entry.set /\ entry.mnemonic = mnemonic /\ entry.passphrase = passphrase}
        first == CHOOSE j \in found : \A k \in found : j <= k
        seed == SeedOf(F, mnemonic, passphrase)
        entry == [set |-> TRUE, mnemonic |-> mnemonic, passphrase |-> passphrase, seed |-> seed]
    IN IF cached /\ found # {} THEN [seed |-> cache.entries[first].seed, cache |-> cache]
       ELSE [seed |-> seed,
             cache |-> IF ~cached THEN cache
                       ELSE [index |-> (cache.index % SeedCacheSize) + 1,
                             entries |-> [cache.entries EXCEPT ![cache.index] = entry]]]

-----------------------------------------------------------------------------
(* What the wallet makes of them (wallet.c, and split_words of main.c): a   *)
(* text is a sequence of words and spaces.                                 *)

Space == -2

\* wallet_mnemonic_from_entropy; empty for its refusal.
WalletMnemonic(entropy, Digest) ==
    LET made == MnemonicFromData(entropy, Digest)
    IN IF made.ok THEN Tail(Joined([i \in 1..Len(made.words) |-> <<Space, made.words[i]>>])) ELSE <<>>

\* wallet_seed_from_mnemonic: no passphrase is an empty one.
WalletSeed(F, cache, mnemonic) == MnemonicToSeed(F, cache, mnemonic, <<>>)

\* What is between the spaces, of the first 24 pieces.
SplitWords(text) ==
    LET Step(pieces, i) ==
            LET c == IF text[i] = Space THEN <<>> ELSE <<text[i]>>
                begins == i = 1 \/ text[i - 1] = Space
            IN IF begins THEN Append(pieces, c) ELSE [pieces EXCEPT ![Len(pieces)] = @ \o c]
        pieces == Iterate(Step, <<>>, Len(text))
    IN SubSeq(pieces, 1, IF Len(pieces) < 24 THEN Len(pieces) ELSE 24)

-----------------------------------------------------------------------------
(* Words, letter by letter.                                                *)

StartsWith(word, prefix) == Len(prefix) <= Len(word) /\ SubSeq(word, 1, Len(prefix)) = prefix

\* The search does not stop at a match; a word is compared with its end.
MnemonicFindWord(word) ==
    LET Same(dict) == LET n == Len(dict) IN Consteq(Slice(word \o Zeros(n + 1), 0, n + 1), Append(dict, 0))
    IN Iterate(LAMBDA found, i : IF Same(WordList[i]) THEN i - 1 ELSE found, NotAWord, Len(WordList))

MnemonicCompleteWord(prefix) ==
    LET fits == {i \in 1..Len(WordList) : StartsWith(WordList[i], prefix)}
    IN IF fits = {} THEN NotAWord ELSE (CHOOSE i \in fits : \A j \in fits : i <= j) - 1

\* Every letter for no prefix, whether a word starts with it or not.
MnemonicWordCompletionMask(prefix, letters) ==
    IF prefix = <<>> THEN letters
    ELSE {WordList[i][Len(prefix) + 1] : i \in {i \in 1..Len(WordList) :
             StartsWith(WordList[i], prefix) /\ Len(WordList[i]) > Len(prefix)}}
=============================================================================

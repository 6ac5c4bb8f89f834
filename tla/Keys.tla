-------------------------------- MODULE Keys -------------------------------
(***************************************************************************)
(* From words to a seed and from a seed to keys: bip39.c and bip32.c, with *)
(* the caches they keep between calls.                                     *)
(***************************************************************************)
EXTENDS Streams, Formats, Bip32, Bip39

CONSTANTS
    Mixed,          \* HMAC of a key and a sequence: [left, right]
    Depths,         \* depths of nodes to derive from
    Paths,          \* paths from a root
    Phrases,        \* phrases and passphrases, as bytes
    Entropies       \* sequences of bytes, of every length that makes words


ChainCodes == 0..11

-----------------------------------------------------------------------------
(* Derivation.                                                             *)

DeriveChild ==
    session' \in [of : {"child"}, name : DOMAIN HdCurves, depth : Depths, priv : 1..10, chain : ChainCodes,
                  i : {0, 1, Hardened, Hardened + 1}]

DerivationCommuted ==
    session.of = "child" =>
        LET name == session.name
            i == session.i
            node == HdnodeFromXprv(session.depth, 0, session.chain, session.priv, name).node
            curve == node.curve
            child == HdnodePrivateCkd(node, i, Mixed)
            public == HdnodeFillPublicKey(child.node).node
            watched == HdnodeFromXpub(session.depth, 0, session.chain, PublicOf(curve, session.priv), name)
            watchedChild == HdnodePublicCkd(watched.node, i, Mixed)
            seed == HdnodeFromSeed(<<session.priv, session.chain>>, name, Mixed).node
            Text(n, private) == HdnodeSerialize(n, PublicOf(curve, session.priv), 4, private, Summed)
            Read(private, asPrivate, version) ==
                HdnodeDeserialize(Text(public, private).text, version, asPrivate, name, Summed)
        IN /\ (child.ret = 1) = (session.depth < DepthMax /\ (curve.ecdsa \/ i >= Hardened))
           /\ (watched.ret = 1) = curve.ecdsa
           /\ curve.ecdsa =>
                /\ (watchedChild.ret = 1) = (child.ret = 1 /\ i < Hardened)
                /\ watchedChild.ret = 1 =>
                     watchedChild.node = [public EXCEPT !.private_key = Unset, !.is_public_key_set = TRUE]
           /\ HdnodeValidatePrivateKey(curve, child.node.private_key)
           /\ HdnodeFingerprint(child.node).fingerprint = PublicOf(curve, child.node.private_key)
           /\ HdnodeValidatePrivateKey(curve, seed.private_key)
           /\ child.node.depth < DepthBits =>
                /\ Read(TRUE, TRUE, 4).node = [public EXCEPT !.public_key = NoPublic, !.is_public_key_set = FALSE]
                /\ Read(FALSE, FALSE, 4).node = [public EXCEPT !.private_key = Unset]
                /\ Read(TRUE, TRUE, 4).fingerprint = PublicOf(curve, session.priv)
           /\ LET Peer(n) == IF curve.ecdsa THEN PublicOf(curve, n.private_key) ELSE <<64, 1 + n.private_key>>
                  mine == HdnodeGetSharedKey(node, Peer(seed))
                  data == <<session.priv, i>>
              IN /\ (mine.ret = 0) = (curve.ecdsa \/ curve.montgomery)
                 /\ mine.ret = 0 => mine = HdnodeGetSharedKey(seed, Peer(node))
                 /\ mine.ret = 0 => HdnodeGetSharedKey(node, <<0, session.priv>>).ret = 1
                 /\ curve.ecdsa => HdnodeSign(child.node, data, Summed) = HdnodeSignDigest(child.node, Summed[data])
                 /\ (HdnodeSign(node, data, Summed).ret = 1) = curve.montgomery
                 /\ (HdnodeSignDigest(node, Summed[data]).ret = 1) = curve.montgomery
           /\ LET raw == EcdsaGetAddressRaw(public.public_key, 5, Summed)
              IN EcdsaAddressDecode(HdnodeGetAddress(child.node, 5, Summed).address, 5, Summed).data = raw
           /\ Read(TRUE, TRUE, 5).ret = -3
           /\ curve.ecdsa => Read(FALSE, TRUE, 4).ret = -2 /\ Read(TRUE, FALSE, 4).ret = -5
           /\ HdnodeDeserialize(Text(public, FALSE).text, 4, FALSE, "unheard of", Summed).ret = -4

\* A watcher who has only the public node derives the public keys of the private
\* children, the retries after a hash out of range included; the node comes back
\* from its text as it was, and only under its own version and kind; no
\* derivation ends with a key out of range; and two nodes of a curve that has
\* shared keys have the same one from either side.
DerivationsCommute == [][End => DerivationCommuted]_session

-----------------------------------------------------------------------------
(* Caches.                                                                 *)

Roots == {HdnodeFromXprv(depth, 0, 5, 7, "secp256k1").node : depth \in {0, DepthMax - 2}}

\* Which are keys of their curve.
ASSUME KeysAssumption ==
    /\ \A path \in Paths : path \in Seq(Nat)
    /\ "secp256k1" \in DOMAIN HdCurves /\ HdnodeValidatePrivateKey(HdCurves["secp256k1"], 7)

KeepNodes == session' = [of |-> "nodes", cache |-> EmptyCache]

KeepSeeds == session' = [of |-> "seeds", cache |-> NoSeeds]

DerivePath(root, path) ==
    /\ session.of = "nodes"
    /\ session' = [session EXCEPT !.cache = HdnodePrivateCkdCached(@, root, path, FALSE, Mixed).cache]

MakeSeed(mnemonic, passphrase) ==
    /\ session.of = "seeds"
    /\ session' = [session EXCEPT !.cache = MnemonicToSeed(Squeezed, @, mnemonic, passphrase).cache]

\* bip32_cache_clear and bip39_cache_clear
ClearCache ==
    /\ session.of \in {"nodes", "seeds"}
    /\ session' = [session EXCEPT !.cache = IF session.of = "nodes" THEN EmptyCache ELSE NoSeeds]

CacheUnseen ==
    /\ session.of = "nodes" =>
         \A root \in Roots, path \in Paths :
            LET got == HdnodePrivateCkdCached(session.cache, root, path, TRUE, Mixed)
                n == Len(path)
                parent == Along(root, SubSeq(path, 1, n - 1), Mixed)
                right == Along(root, path, Mixed)
            IN /\ got.ret = right.ret
               /\ n > 0 /\ parent.ret = 1 => got.fingerprint = HdnodeFingerprint(parent.node).fingerprint
               /\ right.ret = 1 => got.node = right.node
    /\ session.of = "seeds" =>
         \A mnemonic \in Phrases, passphrase \in Phrases :
            MnemonicToSeed(Squeezed, session.cache, mnemonic, passphrase).seed
              = MnemonicToSeed(Squeezed, NoSeeds, mnemonic, passphrase).seed

\* Whatever was derived before, from this root or another, by paths that end
\* where this one goes through, or that failed half way: a node, its parent's
\* fingerprint and a seed are the ones that are derived without a cache.
CachesTransparent == [][End => CacheUnseen]_session

-----------------------------------------------------------------------------
(* Phrases.                                                                *)

MakePhrase == session' \in [of : {"phrase"}, data : Entropies]

Spoilt(words) ==
    {[words EXCEPT ![i] = w] : i \in {1, Len(words)}, w \in {NotAWord, 0, 1, 4, 16, 2047}}
      \cup {Append(words, NotAWord), Append(words, 0), Tail(words), words \o <<0, NotAWord, 3>>}

\* Every letter offered leads on, and letters that were offered lead to each word.
WordsReachable ==
    LET letters == 1..4
        Mask(prefix) == MnemonicWordCompletionMask(prefix, letters)
    IN \A i \in 1..Len(WordList) :
        LET word == WordList[i]
        IN /\ MnemonicFindWord(word) = i - 1
           /\ \A n \in 0..Len(word) :
                LET prefix == SubSeq(word, 1, n)
                IN /\ n < Len(word) => word[n + 1] \in Mask(prefix)
                   /\ n > 0 => \A c \in Mask(prefix) : MnemonicCompleteWord(Append(prefix, c)) # NotAWord
                   /\ n > 0 /\ Mask(prefix) = {} => MnemonicCompleteWord(prefix) = i - 1

MnemonicReadBack ==
    session.of = "phrase" =>
        LET data == session.data
            n == Len(data)
            Digest == [m \in Seq(Nat) |-> HashOf(m)]
        made == MnemonicFromData(data, Digest)
            Entropy(words) == LET bits == MnemonicToBits(words)
                              IN [i \in 1..(Len(bits) * 4) \div 33 |-> Number(Slice(bits, 8 * (i - 1), 8 * i), 2)]
        IN /\ made.ok = (n \in {16, 20, 24, 28, 32})
           /\ made.ok =>
                /\ Entropy(made.words) = data
                /\ MnemonicCheck(made.words, Digest) = (n \in {16, 24, 32})
                /\ \A near \in Spoilt(made.words) :
                    MnemonicCheck(near, Digest)
                      = (Len(near) \in {12, 18, 24} /\ MnemonicFromData(Entropy(near), Digest) = [ok |-> TRUE, words |-> near])
           /\ MnemonicToSeed(Squeezed, NoSeeds, data, data).seed
                = Pbkdf2Of(HmacHere, data, SaltPrefix \o Truncated(data), SeedRounds, DigestLength)
           /\ WalletSeed(Squeezed, NoSeeds, data).seed
                = Pbkdf2Of(HmacHere, data, SaltPrefix, SeedRounds, DigestLength)
           /\ LET text == WalletMnemonic(data, Digest)
              IN /\ (text # <<>>) = made.ok
                 /\ made.ok => SplitWords(text) = [i \in 1..Len(made.words) |-> <<made.words[i]>>]
           /\ WordsReachable

\* The words hold the entropy and its checksum: it is read back from them, and
\* the words near to them are accepted exactly when they are the words of some
\* entropy of 16, 24 or 32 bytes.  The seed is PBKDF2's of the phrase.  The
\* pieces that are shown for the backup are the words, in their order.
MnemonicsRead == [][End => MnemonicReadBack]_session
=============================================================================

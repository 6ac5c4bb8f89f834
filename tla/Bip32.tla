------------------------------- MODULE Bip32 -------------------------------
(***************************************************************************)
(* src/lib/trezor-crypto/bip32.c.  The points of a curve are their         *)
(* logarithms, so that a private key k has the public key k: Ecdsa has the *)
(* arithmetic.  A public key is a parity byte and an x; a key that is not  *)
(* set is zero; a fingerprint is the public key it is of.  Hmac of a key   *)
(* and a sequence is a record of its left and right half.                  *)
(***************************************************************************)
EXTENDS Base58

CONSTANTS
    HdCurves,       \* name |-> [ecdsa, order, montgomery]; without ecdsa there are no params
    DepthMax,       \* UINT32_MAX
    Hardened,       \* 0x80000000
    Tries,          \* hashes until a key is in range, at most
    CacheSize,      \* BIP32_CACHE_SIZE
    CacheDepth      \* BIP32_CACHE_MAXDEPTH

ASSUME Bip32Assumption == /\ CacheSize \in Nat \ {0} /\ CacheDepth \in Nat \ {0}
                          /\ DepthMax \in Nat /\ Tries \in Nat

Unset == 0
NoPublic == <<0, 0>>

GetCurveByName(name) ==
    IF name \in DOMAIN HdCurves THEN [ok |-> TRUE, curve |-> HdCurves[name]] ELSE [ok |-> FALSE]

PublicOf(curve, k) ==
    IF ~curve.ecdsa THEN <<0, 1 + k>>
    ELSE IF 2 * k < curve.order THEN <<2, k>> ELSE <<3, curve.order - k>>

HdnodeValidatePrivateKey(curve, k) == curve.ecdsa => k \in 1..curve.order - 1

HdnodeValidatePublicKey(curve, key) ==
    IF curve.ecdsa THEN key[1] \in {2, 3} /\ key[2] \in 1..curve.order \div 2 ELSE key[1] = 0

Node(curve, depth, child, chain, priv, pub, set) ==
    [curve |-> curve, depth |-> depth, child_num |-> child, chain_code |-> chain, private_key |-> priv,
     public_key |-> pub, is_public_key_set |-> set]

Failure == [ret |-> 0]

HdnodeFromXpub(depth, child, chain, pub, name) ==
    LET info == GetCurveByName(name)
    IN IF ~info.ok THEN Failure
       ELSE IF ~info.curve.ecdsa \/ ~HdnodeValidatePublicKey(info.curve, pub) THEN Failure
       ELSE [ret |-> 1, node |-> Node(info.curve, depth, child, chain, Unset, pub, TRUE)]

HdnodeFromXprv(depth, child, chain, priv, name) ==
    LET info == GetCurveByName(name)
    IN IF ~info.ok THEN Failure
       ELSE IF ~HdnodeValidatePrivateKey(info.curve, priv) THEN Failure
       ELSE [ret |-> 1, node |-> Node(info.curve, depth, child, chain, priv, NoPublic, FALSE)]

\* The first of the hashes first, Next(first), ... that is fit.
UntilFit(first, Following(_), Fit(_)) ==
    LET I[n \in 0..Tries] == IF n = 0 THEN first ELSE With(I[n - 1], Following)
    IN I[CHOOSE n \in 0..Tries : Fit(I[n]) /\ \A m \in 0..n - 1 : ~Fit(I[m])]

HdnodeFromSeed(seed, name, Hmac) ==
    LET info == GetCurveByName(name)
        Again(h) == Hmac[info.curve.order, <<h.left, h.right>>]
        Fit(h) == HdnodeValidatePrivateKey(info.curve, h.left)
        I == UntilFit(Hmac[info.curve.order, seed], Again, Fit)
    IN IF ~info.ok THEN Failure
       ELSE [ret |-> 1, node |-> Node(info.curve, 0, 0, I.right, I.left, NoPublic, FALSE)]

\* Fails for a node that has no private key.
HdnodeFillPublicKey(node) ==
    IF node.is_public_key_set THEN [ret |-> 0, node |-> node]
    ELSE IF ~HdnodeValidatePrivateKey(node.curve, node.private_key) THEN [ret |-> 1, node |-> node]
    ELSE [ret |-> 0, node |-> [node EXCEPT !.public_key = PublicOf(node.curve, node.private_key),
                                           !.is_public_key_set = TRUE]]

HdnodeFingerprint(node) == LET n == HdnodeFillPublicKey(node).node IN [node |-> n, fingerprint |-> n.public_key]

-----------------------------------------------------------------------------
(* Use of a key.  A signature is what goes into it.                        *)

NoResult == [ret |-> 1]
Signed(node, digest) == [ret |-> 0, key |-> node.private_key, digest |-> digest]

HdnodeSign(node, msg, HasherRaw) ==
    IF node.curve.ecdsa THEN Signed(node, HasherRaw[msg])
    ELSE IF node.curve.montgomery THEN NoResult ELSE Signed(node, msg)

HdnodeSignDigest(node, digest) ==
    IF node.curve.ecdsa THEN Signed(node, digest)
    ELSE IF node.curve.montgomery THEN NoResult ELSE HdnodeSign(node, digest, [d \in Seq(Nat) |-> d])

LogOf(curve, pub) == IF pub[1] = 2 THEN pub[2] ELSE curve.order - pub[2]

\* ecdh_multiply, and curve25519_scalarmult for a peer's key that has 0x40 in front.
HdnodeGetSharedKey(node, peer) ==
    LET curve == node.curve
        k == node.private_key
    IN IF curve.ecdsa
       THEN IF ~HdnodeValidatePublicKey(curve, peer) \/ ~HdnodeValidatePrivateKey(curve, k) THEN NoResult
            ELSE [ret |-> 0, key |-> PublicOf(curve, (k * LogOf(curve, peer)) % curve.order), size |-> 65]
       ELSE IF ~curve.montgomery THEN [ret |-> 1, size |-> 0]
       ELSE IF peer[1] # 64 THEN NoResult
       ELSE [ret |-> 0, key |-> <<4, (k * (peer[2] - 1)) % curve.order>>, size |-> 33]

-----------------------------------------------------------------------------
(* Children.                                                               *)

\* Fault: what is hashed again keeps the first byte it had.
RetryKeepsFirst(h, i, first) == <<first, h.right, i>>

RetryData(h, i, first) == <<1, h.right, i>>

\* The first hash that gives a key in range.
FitHash(curve, key, chain, i, first, Hmac) ==
    LET Again(h) == Hmac[chain, RetryData(h, i, first[1])]
        Fit(h) == curve.ecdsa => h.left < curve.order /\ (h.left + key) % curve.order # 0
    IN UntilFit(Hmac[chain, first \o <<i>>], Again, Fit)

HdnodePrivateCkd(inout, i, Hmac) ==
    LET filled == HdnodeFillPublicKey(inout)
        curve == inout.curve
        key == inout.private_key
        first == (IF i >= Hardened THEN <<0, key>> ELSE filled.node.public_key)
        I == FitHash(curve, key, inout.chain_code, i, first, Hmac)
    IN IF inout.depth = DepthMax THEN [ret |-> 0, node |-> inout]
       ELSE IF i < Hardened /\ (~curve.ecdsa \/ filled.ret # 0) THEN [ret |-> 0, node |-> inout]
       ELSE [ret |-> 1, node |-> Node(curve, inout.depth + 1, i, I.right,
                                      IF curve.ecdsa THEN (I.left + key) % curve.order ELSE I.left, NoPublic, FALSE)]

\* ecdsa_tweak_pubkey in logarithms; the tweak may be zero.
HdnodePublicCkd(inout, i, Hmac) ==
    LET curve == inout.curve
        Again(h) == Hmac[inout.chain_code, <<1, h.right, i>>]
        Sum(h) == (h.left + LogOf(curve, inout.public_key)) % curve.order
        Fit(h) == h.left < curve.order /\ Sum(h) # 0
        I == UntilFit(Hmac[inout.chain_code, inout.public_key \o <<i>>], Again, Fit)
    IN IF ~curve.ecdsa \/ inout.depth = DepthMax \/ i >= Hardened \/ ~HdnodeValidatePublicKey(curve, inout.public_key)
       THEN [ret |-> 0, node |-> inout]
       ELSE [ret |-> 1, node |-> Node(curve, inout.depth + 1, i, I.right, Unset, PublicOf(curve, Sum(I)),
                                      inout.is_public_key_set)]

-----------------------------------------------------------------------------
(* Paths, with the last parents kept.                                      *)

EmptyCache == [root_set |-> FALSE, root |-> Unset, index |-> 1, entries |-> [j \in 1..CacheSize |-> [set |-> FALSE]]]

Along(inout, path, Hmac) ==
    LET Step(s, k) == IF s.ret = 0 THEN s ELSE HdnodePrivateCkd(s.node, path[k], Hmac)
    IN Loop(Step, [ret |-> 1, node |-> inout], 0, Len(path))

\* The last step, and the fingerprint of the parent it is taken from.
LastStep(cache, parent, i, fingerprint, Hmac) ==
    LET print == HdnodeFingerprint(parent)
        end == HdnodePrivateCkd(IF fingerprint THEN print.node ELSE parent, i, Hmac)
    IN [ret |-> end.ret, node |-> end.node, cache |-> cache,
        fingerprint |-> IF fingerprint THEN print.fingerprint ELSE NoPublic]

\* Fault: a longer path that starts alike is taken for the parent.
MatchesStart(entry, parent) ==
    entry.set /\ Len(entry.path) >= Len(parent) /\ SubSeq(entry.path, 1, Len(parent)) = parent

Matches(entry, parent) == entry.set /\ entry.path = parent

HdnodePrivateCkdCached(cache, inout, path, fingerprint, Hmac) ==
    LET n == Len(path)
        parents == SubSeq(path, 1, n - 1)
        fresh == ~cache.root_set \/ cache.root # inout
        found == {j \in 1..CacheSize : Matches(cache.entries[j], parents) /\ cache.entries[j].node.curve = inout.curve}
        first == CHOOSE j \in found : \A k \in found : j <= k
        there == Along(inout, parents, Hmac)
        begun == IF fresh THEN [EmptyCache EXCEPT !.root_set = TRUE, !.root = inout] ELSE cache
        kept == [begun EXCEPT !.entries = [@ EXCEPT ![begun.index] = [set |-> TRUE, path |-> parents, node |-> there.node]],
                              !.index = (begun.index % CacheSize) + 1]
    IN IF n = 0 THEN [ret |-> 1, node |-> inout, cache |-> cache, fingerprint |-> NoPublic]
       ELSE IF n = 1 \/ n - 1 > CacheDepth
       THEN IF there.ret = 0 THEN [ret |-> 0, node |-> there.node, cache |-> cache, fingerprint |-> NoPublic]
            ELSE LastStep(cache, there.node, path[n], fingerprint, Hmac)
       ELSE IF ~fresh /\ found # {} THEN LastStep(cache, cache.entries[first].node, path[n], fingerprint, Hmac)
       ELSE IF there.ret = 0 THEN [ret |-> 0, node |-> there.node, cache |-> begun, fingerprint |-> NoPublic]
       ELSE LastStep(kept, there.node, path[n], fingerprint, Hmac)

-----------------------------------------------------------------------------
(* Serialised nodes.                                                       *)

NodeBytes == 8
DepthBits == 256        \* the depth has one byte

HdnodeSerialize(node, fingerprint, version, private, Digest) ==
    Base58EncodeCheck(<<version, node.depth % DepthBits>> \o fingerprint \o <<node.child_num, node.chain_code>>
                        \o (IF private THEN <<0, node.private_key>> ELSE node.public_key), Digest, 128)

HdnodeDeserialize(text, version, private, name, Digest) ==
    LET info == GetCurveByName(name)
        read == Base58DecodeCheck(text, Digest, NodeBytes)
        d == read.data
        key == Slice(d, 6, 8)
        priv == IF private THEN key[2] ELSE Unset
        pub == IF private THEN NoPublic ELSE key
    IN IF ~info.ok THEN [ret |-> -4]
       ELSE IF ~read.ok THEN [ret |-> -1]
       ELSE IF Len(d) # NodeBytes THEN [ret |-> -1]
       ELSE IF d[1] # version THEN [ret |-> -3]
       ELSE IF private /\ key[1] # 0 THEN [ret |-> -2]
       ELSE IF private /\ ~HdnodeValidatePrivateKey(info.curve, priv) THEN [ret |-> -5]
       ELSE IF ~private /\ ~HdnodeValidatePublicKey(info.curve, pub) THEN [ret |-> -5]
       ELSE [ret |-> 0, fingerprint |-> <<d[3], d[4]>>, node |-> Node(info.curve, d[2], d[5], d[6], priv, pub, ~private)]

HdnodeGetAddress(node, version, Digest) ==
    LET filled == HdnodeFillPublicKey(node)
    IN IF filled.ret # 0 THEN [ret |-> 1]
       ELSE [ret |-> 0, address |-> EcdsaGetAddress(filled.node.public_key, version, Digest, 128).text]
=============================================================================

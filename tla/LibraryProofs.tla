--------------------------- MODULE LibraryProofs ---------------------------
(***************************************************************************)
(* The caches of bip32.c and bip39.c change nothing that is derived; a      *)
(* hash fed piece by piece, a hasher used again and what is built on them  *)
(* give what the standards say of the whole message.                       *)
(***************************************************************************)
EXTENDS Library, HashProofs

-----------------------------------------------------------------------------
(* Paths.  What they lead to is a function of the number of their steps.    *)

\* One step of a path, and the results after each of the first n.
Onward(s, i) == IF s.ret = 0 THEN s ELSE HdnodePrivateCkd(s.node, i, Mixed)

Walks(f, root, path, n) ==
    f = [i \in 0..n |-> IF i = 0 THEN [ret |-> 1, node |-> root] ELSE Onward(f[i - 1], path[i])]

LEMMA WalkExists ==
    ASSUME NEW root, NEW path, NEW n \in Nat
    PROVE  \E f : Walks(f, root, path, n)
<1> DEFINE T == {k \in Nat : \E f : Walks(f, root, path, k)}
<1>1. 0 \in T
  <2> DEFINE f == [i \in 0..0 |-> [ret |-> 1, node |-> root]]
  <2>1. Walks(f, root, path, 0)
    BY DEF Walks
  <2> QED BY <2>1
<1>2. ASSUME NEW k \in Nat, k \in T PROVE k + 1 \in T
  <2>1. PICK f : Walks(f, root, path, k)
    BY <1>2
  <2> DEFINE g == [i \in 0..k + 1 |-> IF i = k + 1 THEN Onward(f[k], path[k + 1]) ELSE f[i]]
  <2>2. ASSUME NEW i \in 0..k + 1
        PROVE  g[i] = IF i = 0 THEN [ret |-> 1, node |-> root] ELSE Onward(g[i - 1], path[i])
    <3>1. CASE i = k + 1
      BY <3>1
    <3>2. CASE i # k + 1
      <4>1. i \in 0..k /\ (i # 0 => i - 1 \in 0..k)
        BY <3>2
      <4>2. f[i] = IF i = 0 THEN [ret |-> 1, node |-> root] ELSE Onward(f[i - 1], path[i])
        BY <2>1, <4>1 DEF Walks
      <4> QED BY <3>2, <4>1, <4>2
    <3> QED BY <3>1, <3>2
  <2>3. Walks(g, root, path, k + 1)
    BY <2>2 DEF Walks
  <2> QED BY <2>3
<1> HIDE DEF T
<1>3. Nat \subseteq T
  BY <1>1, <1>2, Induction
<1> QED BY <1>3 DEF T

LEMMA AlongWalks ==
    ASSUME NEW root, NEW path
    PROVE  Along(root, path, Mixed) = (CHOOSE f : Walks(f, root, path, Len(path)))[Len(path)]
<1> DEFINE Step(s, i) == Onward(s, path[i])
           W(f) == f = [i \in 0..Len(path) |-> IF i = 0 THEN [ret |-> 1, node |-> root] ELSE CHOOSE r \in {Step(s, 0 + i) : s \in {f[i - 1]}} : TRUE]
<1>1. Along(root, path, Mixed) = (CHOOSE f : W(f))[Len(path)]
  BY DEF Along, Loop, Onward
<1>2. ASSUME NEW f PROVE W(f) <=> Walks(f, root, path, Len(path))
  <2>1. ASSUME NEW i \in 0..Len(path) PROVE (CHOOSE r \in {Step(s, 0 + i) : s \in {f[i - 1]}} : TRUE) = Step(f[i - 1], i)
    OBVIOUS
  <2> QED BY <2>1 DEF Walks
<1> QED BY <1>1, <1>2

\* Paths that start alike go alike.
LEMMA WalksAgree ==
    ASSUME NEW root, NEW p, NEW q, NEW n \in Nat, NEW m \in Nat, n <= m, \A i \in 1..n : p[i] = q[i],
           NEW f, Walks(f, root, p, n), NEW g, Walks(g, root, q, m)
    PROVE  f[n] = g[n]
<1> DEFINE T == {k \in Nat : k <= n => f[k] = g[k]}
<1>1. 0 \in T
  BY DEF Walks
<1>2. ASSUME NEW k \in Nat, k \in T PROVE k + 1 \in T
  <2>1. SUFFICES ASSUME k + 1 <= n PROVE f[k + 1] = g[k + 1]
    OBVIOUS
  <2>2. f[k + 1] = Onward(f[k], p[k + 1]) /\ g[k + 1] = Onward(g[k], q[k + 1])
    BY <2>1 DEF Walks
  <2> QED BY <1>2, <2>1, <2>2
<1> HIDE DEF T
<1>3. n \in T
  BY <1>1, <1>2, Induction
<1> QED BY <1>3 DEF T

\* A path is walked step by step.
LEMMA AlongStep ==
    ASSUME NEW root, NEW path \in Seq(Nat)
    PROVE  Along(root, path, Mixed) =
             IF path = <<>> THEN [ret |-> 1, node |-> root]
             ELSE Onward(Along(root, SubSeq(path, 1, Len(path) - 1), Mixed), path[Len(path)])
<1> DEFINE n == Len(path)
           front == SubSeq(path, 1, n - 1)
           f == CHOOSE f : Walks(f, root, path, n)
           g == CHOOSE g : Walks(g, root, front, n - 1)
<1>1. n \in Nat /\ Walks(f, root, path, n)
  BY WalkExists
<1>2. Along(root, path, Mixed) = f[n]
  BY AlongWalks
<1>3. CASE path = <<>>
  <2>1. n = 0
    BY <1>3
  <2>2. f[0] = [ret |-> 1, node |-> root]
    BY <1>1, <2>1 DEF Walks
  <2> QED BY <1>2, <1>3, <2>1, <2>2
<1>4. CASE path # <<>>
  <2>1. n \in Nat /\ n > 0 /\ n - 1 \in Nat
    BY <1>1, <1>4
  <2>2. Len(front) = n - 1 /\ \A i \in 1..n - 1 : front[i] = path[i]
    <3>1. \A i \in 1..n - 1 : path[i] \in Nat
      BY <2>1
    <3> HIDE DEF n
    <3>2. /\ Len(front) = IF 1 <= n - 1 THEN (n - 1) - 1 + 1 ELSE 0
          /\ \A i \in 1..(n - 1) - 1 + 1 : front[i] = path[1 + i - 1]
      BY <2>1, <3>1, SubSeqProperties
    <3> QED BY <2>1, <3>2
  <2>3. Walks(g, root, front, n - 1)
    BY <2>1, WalkExists
  <2>4. Along(root, front, Mixed) = g[n - 1]
    BY <2>2, AlongWalks
  <2> HIDE DEF f, g, front, n
  <2>5. f[n] = Onward(f[n - 1], path[n])
    <3>1. n \in 0..n /\ n # 0
      BY <2>1
    <3> QED BY <1>1, <3>1 DEF Walks
  <2>6. g[n - 1] = f[n - 1]
    BY <1>1, <2>1, <2>2, <2>3, WalksAgree
  <2> QED BY <1>2, <1>4, <2>4, <2>5, <2>6 DEF front, n
<1> QED BY <1>3, <1>4

-----------------------------------------------------------------------------
(* Nodes.                                                                  *)

IsNode(n) ==
    n = Node(n.curve, n.depth, n.child_num, n.chain_code, n.private_key, n.public_key, n.is_public_key_set)

IsResult(s) == s = [ret |-> s.ret, node |-> s.node] /\ s.ret \in {0, 1} /\ IsNode(s.node)

LEMMA CkdGivesNode ==
    ASSUME NEW n, IsNode(n), NEW i
    PROVE  IsResult(HdnodePrivateCkd(n, i, Mixed))
<1>1. ASSUME NEW depth, NEW chain, NEW priv PROVE IsNode(Node(n.curve, depth, i, chain, priv, NoPublic, FALSE))
  BY DEF IsNode, Node
<1> QED BY <1>1 DEF HdnodePrivateCkd, IsResult

LEMMA RootsAreNodes == \A root \in Roots : IsNode(root)
BY KeysAssumption DEF Roots, HdnodeFromXprv, GetCurveByName, IsNode, Node

LEMMA AlongGivesNode ==
    ASSUME NEW root, IsNode(root), NEW path \in Seq(Nat)
    PROVE  IsResult(Along(root, path, Mixed))
<1> DEFINE n == Len(path)
           f == CHOOSE f : Walks(f, root, path, n)
           T == {k \in Nat : k <= n => IsResult(f[k])}
<1>0. n \in Nat
  OBVIOUS
<1>1. Walks(f, root, path, n) /\ Along(root, path, Mixed) = f[n]
  <2>1. \E g : Walks(g, root, path, n)
    BY <1>0, WalkExists
  <2>2. Walks(f, root, path, n)
    BY <2>1
  <2> QED BY <2>2, AlongWalks
<1> HIDE DEF f, n
<1>2. 0 \in T
  <2>1. f[0] = [ret |-> 1, node |-> root]
    BY <1>0, <1>1 DEF Walks
  <2> QED BY <2>1 DEF IsResult
<1>3. ASSUME NEW k \in Nat, k \in T PROVE k + 1 \in T
  <2>1. SUFFICES ASSUME k + 1 <= n PROVE IsResult(f[k + 1])
    OBVIOUS
  <2>2. f[k + 1] = Onward(f[k], path[k + 1]) /\ IsResult(f[k])
    BY <1>0, <1>1, <1>3, <2>1 DEF Walks
  <2> QED BY <2>2, CkdGivesNode DEF Onward, IsResult
<1> HIDE DEF T
<1>4. Nat \subseteq T
  BY <1>2, <1>3, Induction
<1>5. n \in T
  BY <1>0, <1>4
<1> QED BY <1>0, <1>1, <1>5 DEF T

ChildOf(curve, depth, key, chain, public, i) ==
    LET I == FitHash(curve, key, chain, i, IF i >= Hardened THEN <<0, key>> ELSE public, Mixed)
    IN Node(curve, depth + 1, i, I.right, IF curve.ecdsa THEN (I.left + key) % curve.order ELSE I.left, NoPublic, FALSE)

Childless(n, filled, i) == n.depth = DepthMax \/ (i < Hardened /\ (~n.curve.ecdsa \/ filled.ret # 0))

LEMMA CkdCases ==
    ASSUME NEW n, NEW i
    PROVE  LET filled == HdnodeFillPublicKey(n)
           IN HdnodePrivateCkd(n, i, Mixed) =
                IF Childless(n, filled, i) THEN [ret |-> 0, node |-> n]
                ELSE [ret |-> 1, node |-> ChildOf(n.curve, n.depth, n.private_key, n.chain_code, filled.node.public_key, i)]
<1> DEFINE filled == HdnodeFillPublicKey(n)
<1>1. CASE n.depth = DepthMax
  BY <1>1 DEF HdnodePrivateCkd, Childless
<1>2. CASE n.depth # DepthMax /\ i < Hardened /\ (~n.curve.ecdsa \/ filled.ret # 0)
  BY <1>2 DEF HdnodePrivateCkd, Childless
<1>3. CASE ~Childless(n, filled, i)
  BY <1>3 DEF HdnodePrivateCkd, Childless, ChildOf
<1> QED BY <1>1, <1>2, <1>3 DEF Childless

\* A public key that is there already changes no child.
LEMMA FilledBefore ==
    ASSUME NEW n, IsNode(n), NEW i,
           NEW filled, filled = HdnodePrivateCkd(HdnodeFillPublicKey(n).node, i, Mixed),
           NEW right, right = HdnodePrivateCkd(n, i, Mixed)
    PROVE  filled.ret = right.ret /\ (right.ret = 1 => filled.node = right.node)
<1> DEFINE f == HdnodeFillPublicKey(n).node
<1>1. CASE f = n
  BY <1>1
<1>2. CASE f # n
  <2>1. /\ HdnodeFillPublicKey(n) = [ret |-> 0, node |-> f]
        /\ f = [n EXCEPT !.public_key = PublicOf(n.curve, n.private_key), !.is_public_key_set = TRUE]
    BY <1>2 DEF HdnodeFillPublicKey
  <2>2. /\ f.curve = n.curve /\ f.depth = n.depth /\ f.chain_code = n.chain_code
        /\ f.private_key = n.private_key /\ f.is_public_key_set = TRUE
    BY <2>1 DEF IsNode, Node
  <2>3. HdnodeFillPublicKey(f) = [ret |-> 0, node |-> f]
    BY <2>2 DEF HdnodeFillPublicKey
  <2>4. /\ HdnodeFillPublicKey(n).ret = 0 /\ HdnodeFillPublicKey(n).node.public_key = f.public_key
        /\ HdnodeFillPublicKey(f).ret = 0 /\ HdnodeFillPublicKey(f).node.public_key = f.public_key
    <3> HIDE DEF f
    <3>1. HdnodeFillPublicKey(n).ret = 0 /\ HdnodeFillPublicKey(n).node = f
      BY <2>1
    <3>2. HdnodeFillPublicKey(f).ret = 0 /\ HdnodeFillPublicKey(f).node = f
      BY <2>3
    <3> QED BY <3>1, <3>2
  <2> DEFINE child == ChildOf(n.curve, n.depth, n.private_key, n.chain_code, f.public_key, i)
             refused == Childless(n, HdnodeFillPublicKey(n), i)
  <2>5. refused <=> Childless(f, HdnodeFillPublicKey(f), i)
    BY <2>2, <2>4 DEF Childless
  <2> HIDE DEF f
  <2>6. right = IF refused THEN [ret |-> 0, node |-> n] ELSE [ret |-> 1, node |-> child]
    BY <2>4, CkdCases
  <2>7. filled = IF refused THEN [ret |-> 0, node |-> f] ELSE [ret |-> 1, node |-> child]
    <3>1. filled = HdnodePrivateCkd(f, i, Mixed)
      BY DEF f
    <3> QED BY <2>2, <2>4, <2>5, <3>1, CkdCases
  <2> HIDE DEF child, refused
  <2> QED BY <2>6, <2>7
<1> QED BY <1>1, <1>2

-----------------------------------------------------------------------------
(* What the caches keep.                                                   *)

\* A node of the cache is the one that its path derives from the cache's root.
ParentKept(cache, entry) ==
    entry.set => /\ cache.root_set
                 /\ Along(cache.root, entry.path, Mixed) = [ret |-> 1, node |-> entry.node]

NodesKept(cache) ==
    /\ cache = [root_set |-> cache.root_set, root |-> cache.root, index |-> cache.index, entries |-> cache.entries]
    /\ cache.index \in 1..CacheSize
    /\ DOMAIN cache.entries = 1..CacheSize
    /\ \A j \in 1..CacheSize : ParentKept(cache, cache.entries[j])

SeedsKept(cache) ==
    /\ cache = [index |-> cache.index, entries |-> cache.entries]
    /\ cache.index \in 1..SeedCacheSize
    /\ DOMAIN cache.entries = 1..SeedCacheSize
    /\ \A j \in 1..SeedCacheSize :
         LET entry == cache.entries[j]
         IN entry.set => entry.seed = SeedOf(Squeezed, entry.mnemonic, entry.passphrase)

\* A session with a cache has nothing else, and the cache is right.
CachesKept ==
    /\ "of" \in DOMAIN session
    /\ session.of = "nodes" => session = [of |-> "nodes", cache |-> session.cache] /\ NodesKept(session.cache)
    /\ session.of = "seeds" => session = [of |-> "seeds", cache |-> session.cache] /\ SeedsKept(session.cache)

LEMMA LeastExists ==
    ASSUME NEW found, found \subseteq Nat, found # {}
    PROVE  \E j \in found : \A k \in found : j <= k
<1>1. IsWellFoundedOn(OpToRel(<, Nat), Nat)
  BY NatLessThanWellFounded
<1>2. PICK j \in found : \A k \in found : ~(<<k, j>> \in OpToRel(<, Nat))
  BY <1>1, WFMin
<1>3. ASSUME NEW k \in found PROVE j <= k
  <2>1. j \in Nat /\ k \in Nat
    OBVIOUS
  <2>2. k < j => <<k, j>> \in OpToRel(<, Nat)
    BY <2>1 DEF OpToRel
  <2>3. ~(k < j)
    BY <1>2, <2>2
  <2> QED BY <2>1, <2>3
<1> QED BY <1>3

LEMMA LastStepIsStep ==
    ASSUME NEW cache, NEW parent, IsNode(parent), NEW i, NEW fingerprint \in BOOLEAN,
           NEW last, last = LastStep(cache, parent, i, fingerprint, Mixed),
           NEW right, right = HdnodePrivateCkd(parent, i, Mixed)
    PROVE  /\ last.cache = cache
           /\ last.ret = right.ret /\ (right.ret = 1 => last.node = right.node)
           /\ fingerprint => last.fingerprint = HdnodeFingerprint(parent).fingerprint
<1> DEFINE end == HdnodePrivateCkd(IF fingerprint THEN HdnodeFingerprint(parent).node ELSE parent, i, Mixed)
<1>1. end.ret = right.ret /\ (right.ret = 1 => end.node = right.node)
  <2>1. CASE fingerprint
    <3>1. HdnodeFingerprint(parent).node = HdnodeFillPublicKey(parent).node
      BY DEF HdnodeFingerprint
    <3> QED BY <2>1, <3>1, FilledBefore
  <2> QED BY <2>1
<1>2. last = [ret |-> end.ret, node |-> end.node, cache |-> cache,
              fingerprint |-> IF fingerprint THEN HdnodeFingerprint(parent).fingerprint ELSE NoPublic]
  BY DEF LastStep
<1> HIDE DEF end
<1> QED BY <1>1, <1>2

\* What a call with this cache gives, and what it leaves behind.
Derived(cache, root, path, fingerprint) ==
    LET got == HdnodePrivateCkdCached(cache, root, path, fingerprint, Mixed)
        n == Len(path)
        parent == Along(root, SubSeq(path, 1, n - 1), Mixed)
        right == Along(root, path, Mixed)
    IN /\ NodesKept(got.cache)
       /\ got.ret = right.ret
       /\ n > 0 /\ parent.ret = 1 /\ fingerprint => got.fingerprint = HdnodeFingerprint(parent.node).fingerprint
       /\ right.ret = 1 => got.node = right.node

\* Whatever is kept, what is derived is what is derived without a cache; and
\* what is kept then is as good.
LEMMA CachedIsDerived ==
    ASSUME NEW cache, NodesKept(cache), NEW root, IsNode(root), NEW path \in Seq(Nat), NEW fingerprint \in BOOLEAN
    PROVE  Derived(cache, root, path, fingerprint)
<1> SUFFICES ASSUME NEW got, got = HdnodePrivateCkdCached(cache, root, path, fingerprint, Mixed),
                    NEW parent, parent = Along(root, SubSeq(path, 1, Len(path) - 1), Mixed),
                    NEW right, right = Along(root, path, Mixed)
             PROVE  /\ NodesKept(got.cache)
                    /\ got.ret = right.ret /\ (right.ret = 1 => got.node = right.node)
                    /\ fingerprint /\ Len(path) > 0 /\ parent.ret = 1 =>
                         got.fingerprint = HdnodeFingerprint(parent.node).fingerprint
  BY DEF Derived
<1> DEFINE n == Len(path)
           parents == SubSeq(path, 1, n - 1)
           fresh == ~cache.root_set \/ cache.root # root
           found == {j \in 1..CacheSize : Matches(cache.entries[j], parents) /\ cache.entries[j].node.curve = root.curve}
           first == CHOOSE j \in found : \A k \in found : j <= k
           begun == IF fresh THEN [EmptyCache EXCEPT !.root_set = TRUE, !.root = root] ELSE cache
           kept == [begun EXCEPT !.entries = [@ EXCEPT ![begun.index] = [set |-> TRUE, path |-> parents, node |-> parent.node]],
                                 !.index = (begun.index % CacheSize) + 1]
           Ending(c, node) == LastStep(c, node, path[n], fingerprint, Mixed)
<1>1. n \in Nat /\ parents \in Seq(Nat)
  OBVIOUS
<1>2. IsResult(parent)
  BY <1>1, AlongGivesNode
<1>3. right = IF path = <<>> THEN [ret |-> 1, node |-> root] ELSE Onward(parent, path[n])
  BY AlongStep
<1>4. n = 0 <=> path = <<>>
  BY EmptySeq
<1>5. NodesKept(begun) /\ (parent.ret = 1 => NodesKept(kept))
  <2>1. NodesKept(begun)
    <3>1. CASE fresh
      <4>1. begun = [root_set |-> TRUE, root |-> root, index |-> 1, entries |-> [j \in 1..CacheSize |-> [set |-> FALSE]]]
        BY <3>1 DEF EmptyCache
      <4> HIDE DEF begun
      <4>2. ASSUME NEW j \in 1..CacheSize PROVE ParentKept(begun, begun.entries[j])
        <5>1. begun.entries[j] = [set |-> FALSE]
          BY <4>1
        <5> QED BY <5>1 DEF ParentKept
      <4>3. begun = [root_set |-> begun.root_set, root |-> begun.root, index |-> begun.index, entries |-> begun.entries]
        BY <4>1
      <4>4. begun.index \in 1..CacheSize /\ DOMAIN begun.entries = 1..CacheSize
        BY <4>1, Bip32Assumption
      <4> QED BY <4>2, <4>3, <4>4 DEF NodesKept
    <3>2. CASE ~fresh
      BY <3>2
    <3> QED BY <3>1, <3>2
  <2>2. begun.root_set /\ begun.root = root
    BY DEF EmptyCache
  <2>3. ASSUME parent.ret = 1 PROVE NodesKept(kept)
    <3> HIDE DEF begun, parents
    <3>1. parent = [ret |-> 1, node |-> parent.node] /\ parent = Along(root, parents, Mixed)
      BY <1>2, <2>3 DEF IsResult, parents
    <3>2. (begun.index % CacheSize) + 1 \in 1..CacheSize
      BY <2>1, Bip32Assumption DEF NodesKept
    <3>3. /\ kept.root_set = begun.root_set /\ kept.root = begun.root
          /\ kept.index = (begun.index % CacheSize) + 1
          /\ kept.entries = [begun.entries EXCEPT ![begun.index] = [set |-> TRUE, path |-> parents, node |-> parent.node]]
          /\ kept = [root_set |-> kept.root_set, root |-> kept.root, index |-> kept.index, entries |-> kept.entries]
      <4>1. begun = [root_set |-> begun.root_set, root |-> begun.root, index |-> begun.index, entries |-> begun.entries]
        BY <2>1 DEF NodesKept
      <4> DEFINE entries == [begun.entries EXCEPT ![begun.index] = [set |-> TRUE, path |-> parents, node |-> parent.node]]
                 index == (begun.index % CacheSize) + 1
      <4>2. kept = [root_set |-> begun.root_set, root |-> begun.root, index |-> index, entries |-> entries]
        <5>1. kept = [begun EXCEPT !.entries = entries, !.index = index]
          OBVIOUS
        <5> HIDE DEF entries, index, kept
        <5> QED BY <4>1, <5>1
      <4> HIDE DEF kept
      <4> QED BY <4>2
    <3> HIDE DEF kept
    <3>4. ASSUME NEW j \in 1..CacheSize PROVE ParentKept(kept, kept.entries[j])
      <4>1. CASE j = begun.index
        BY <2>1, <2>2, <3>1, <3>3, <4>1 DEF NodesKept, ParentKept
      <4>2. CASE j # begun.index
        BY <2>1, <3>3, <4>2 DEF NodesKept, ParentKept
      <4> QED BY <4>1, <4>2
    <3>5. DOMAIN kept.entries = 1..CacheSize
      BY <2>1, <3>3 DEF NodesKept
    <3> QED BY <3>2, <3>3, <3>4, <3>5 DEF NodesKept
  <2> QED BY <2>1, <2>3
<1>6. got = IF n = 0 THEN [ret |-> 1, node |-> root, cache |-> cache, fingerprint |-> NoPublic]
            ELSE IF n = 1 \/ n - 1 > CacheDepth
            THEN IF parent.ret = 0 THEN [ret |-> 0, node |-> parent.node, cache |-> cache, fingerprint |-> NoPublic]
                 ELSE Ending(cache, parent.node)
            ELSE IF ~fresh /\ found # {} THEN Ending(cache, cache.entries[first].node)
            ELSE IF parent.ret = 0 THEN [ret |-> 0, node |-> parent.node, cache |-> begun, fingerprint |-> NoPublic]
            ELSE Ending(kept, parent.node)
  BY DEF HdnodePrivateCkdCached
<1>7. ASSUME ~fresh, found # {} PROVE parent = [ret |-> 1, node |-> cache.entries[first].node]
  <2>1. first \in found
    <3>1. found \subseteq Nat
      BY Bip32Assumption
    <3> HIDE DEF found
    <3> QED BY <1>7, <3>1, LeastExists
  <2> HIDE DEF first
  <2>2. /\ first \in 1..CacheSize /\ cache.entries[first].set /\ cache.entries[first].path = parents
        /\ cache.root = root
    BY <1>7, <2>1 DEF Matches
  <2> QED BY <2>2 DEF NodesKept, ParentKept
<1> HIDE DEF n, parents, fresh, found, first, begun, kept
<1>8. CASE n = 0
  BY <1>3, <1>4, <1>6, <1>8 DEF n
<1>9. CASE n # 0 /\ parent.ret = 0
  <2>1. right = parent
    BY <1>3, <1>4, <1>9 DEF Onward
  <2>2. ~(~fresh /\ found # {})
    BY <1>7, <1>9
  <2>3. /\ got.ret = 0
        /\ got.cache \in {cache, begun}
    BY <1>6, <1>9, <2>2
  <2> QED BY <1>5, <1>9, <2>1, <2>3
<1>10. CASE n # 0 /\ parent.ret = 1
  <2>1. right = HdnodePrivateCkd(parent.node, path[n], Mixed)
    BY <1>3, <1>4, <1>10 DEF Onward
  <2>2. got \in {Ending(cache, parent.node), Ending(kept, parent.node)}
    <3>1. ~fresh /\ found # {} => cache.entries[first].node = parent.node
      BY <1>7
    <3> QED BY <1>6, <1>10, <3>1
  <2>3. PICK c \in {cache, kept} : got = Ending(c, parent.node)
    BY <2>2
  <2>4. NodesKept(c)
    BY <1>5, <1>10, <2>3
  <2>5. IsNode(parent.node)
    BY <1>2 DEF IsResult
  <2> QED BY <1>10, <2>1, <2>3, <2>4, <2>5, LastStepIsStep
<1> QED BY <1>2, <1>8, <1>9, <1>10 DEF IsResult

LEMMA SeedIsMade ==
    ASSUME NEW cache, SeedsKept(cache), NEW mnemonic, NEW passphrase,
           NEW got, got = MnemonicToSeed(Squeezed, cache, mnemonic, passphrase)
    PROVE  SeedsKept(got.cache) /\ got.seed = SeedOf(Squeezed, mnemonic, passphrase)
<1> DEFINE cached == Len(mnemonic) < PhraseRoom /\ Len(passphrase) < PassRoom
           found == {j \in 1..SeedCacheSize : LET entry == cache.entries[j]
                                              IN entry.set /\ entry.mnemonic = mnemonic /\ entry.passphrase = passphrase}
           first == CHOOSE j \in found : \A k \in found : j <= k
           seed == SeedOf(Squeezed, mnemonic, passphrase)
           new == [set |-> TRUE, mnemonic |-> mnemonic, passphrase |-> passphrase, seed |-> seed]
           kept == [index |-> (cache.index % SeedCacheSize) + 1, entries |-> [cache.entries EXCEPT ![cache.index] = new]]
<1>1. got = IF cached /\ found # {} THEN [seed |-> cache.entries[first].seed, cache |-> cache]
            ELSE [seed |-> seed, cache |-> IF ~cached THEN cache ELSE kept]
  BY DEF MnemonicToSeed
<1>2. ASSUME found # {} PROVE cache.entries[first].seed = seed
  <2>1. found \subseteq Nat
    BY Bip39Assumption
  <2>2. first \in found
    <3> HIDE DEF found
    <3> QED BY <1>2, <2>1, LeastExists
  <2> HIDE DEF first
  <2>3. /\ first \in 1..SeedCacheSize /\ cache.entries[first].set
        /\ cache.entries[first].mnemonic = mnemonic /\ cache.entries[first].passphrase = passphrase
    BY <2>2
  <2> QED BY <2>3 DEF SeedsKept
<1>3. SeedsKept(kept)
  <2>1. (cache.index % SeedCacheSize) + 1 \in 1..SeedCacheSize
    BY Bip39Assumption DEF SeedsKept
  <2>2. /\ kept.index = (cache.index % SeedCacheSize) + 1
        /\ kept.entries = [cache.entries EXCEPT ![cache.index] = new]
        /\ kept = [index |-> kept.index, entries |-> kept.entries]
    OBVIOUS
  <2>3. new.seed = SeedOf(Squeezed, new.mnemonic, new.passphrase)
    OBVIOUS
  <2> HIDE DEF kept, new
  <2>4. ASSUME NEW j \in 1..SeedCacheSize
        PROVE  kept.entries[j].set => kept.entries[j].seed = SeedOf(Squeezed, kept.entries[j].mnemonic, kept.entries[j].passphrase)
    <3>1. CASE j = cache.index
      <4>1. kept.entries[j] = new
        BY <2>2, <3>1 DEF SeedsKept
      <4> QED BY <2>3, <4>1
    <3>2. CASE j # cache.index
      <4>1. kept.entries[j] = cache.entries[j]
        BY <2>2, <3>2 DEF SeedsKept
      <4> QED BY <4>1 DEF SeedsKept
    <3> QED BY <3>1, <3>2
  <2>5. DOMAIN kept.entries = 1..SeedCacheSize
    BY <2>2 DEF SeedsKept
  <2> QED BY <2>1, <2>2, <2>4, <2>5 DEF SeedsKept
<1> HIDE DEF cached, found, first, seed, kept
<1>4. got.seed = seed
  BY <1>1, <1>2
<1>5. got.cache \in {cache, kept}
  BY <1>1
<1> QED BY <1>3, <1>4, <1>5 DEF seed

-----------------------------------------------------------------------------
(* The theorem.                                                            *)

LEMMA EmptyKept == NodesKept(EmptyCache) /\ SeedsKept(NoSeeds)
<1>1. NodesKept(EmptyCache)
  <2>1. ASSUME NEW j \in 1..CacheSize PROVE ParentKept(EmptyCache, EmptyCache.entries[j])
    BY DEF EmptyCache, ParentKept
  <2>2. /\ EmptyCache = [root_set |-> EmptyCache.root_set, root |-> EmptyCache.root,
                         index |-> EmptyCache.index, entries |-> EmptyCache.entries]
        /\ EmptyCache.index = 1 /\ EmptyCache.entries = [j \in 1..CacheSize |-> [set |-> FALSE]]
    BY DEF EmptyCache
  <2> QED BY <2>1, <2>2, Bip32Assumption DEF NodesKept
<1>2. SeedsKept(NoSeeds)
  BY Bip39Assumption DEF SeedsKept, NoSeeds
<1> QED BY <1>1, <1>2

LEMMA KeptFromStart == Start => CachesKept'
<1> DEFINE Other == "of" \in DOMAIN session' /\ session'.of \notin {"nodes", "seeds"}
<1>1. Other => CachesKept'
  BY DEF CachesKept
<1>2. Numeric \/ Scale \/ Sign => Other
  BY DEF Numeric, Scale, Sign
<1>3. StreamSha \/ StreamSha3 \/ Rounds \/ Authenticate => Other
  <2>1. StreamSha => Other
    BY DEF StreamSha
  <2>2. StreamSha3 => Other
    BY DEF StreamSha3
  <2>3. Rounds \/ Authenticate => Other
    BY DEF Rounds, Authenticate
  <2> QED BY <2>1, <2>2, <2>3
<1>4. Derive \/ Seed \/ Use => Other
  BY DEF Derive, Seed, Use
<1>5. WriteSignature \/ ShowAmount \/ WritePayload => Other
  BY DEF WriteSignature, ShowAmount, WritePayload
<1>6. Propose => Other
  BY DEF Propose
<1>7. DeriveChild \/ MakePhrase => Other
  BY DEF DeriveChild, MakePhrase
<1>8. KeepNodes \/ KeepSeeds => CachesKept'
  BY EmptyKept DEF KeepNodes, KeepSeeds, CachesKept
<1> HIDE DEF Other
<1> QED BY <1>1, <1>2, <1>3, <1>4, <1>5, <1>6, <1>7, <1>8 DEF Start

LEMMA KeptFromContinue == CachesKept /\ Continue => CachesKept'
<1> SUFFICES ASSUME CachesKept, Continue PROVE CachesKept'
  OBVIOUS
<1>1. ASSUME NEW n \in Pieces, Feed(n) PROVE CachesKept'
  <2>1. session'.of = session.of /\ DOMAIN session' = DOMAIN session
    BY <1>1 DEF Feed, CachesKept
  <2> QED BY <1>1, <2>1 DEF Feed, CachesKept
<1>2. ASSUME NEW n \in Amounts, Generate(n) PROVE CachesKept'
  <2>1. session'.of = session.of /\ DOMAIN session' = DOMAIN session
    BY <1>2 DEF Generate, CachesKept
  <2> QED BY <1>2, <2>1 DEF Generate, CachesKept
<1>3. ASSUME NEW root \in Roots, NEW path \in Paths, DerivePath(root, path) PROVE CachesKept'
  <2> DEFINE got == HdnodePrivateCkdCached(session.cache, root, path, FALSE, Mixed)
  <2>1. session = [of |-> "nodes", cache |-> session.cache] /\ NodesKept(session.cache)
    BY <1>3 DEF DerivePath, CachesKept
  <2>2. NodesKept(got.cache)
    <3>1. Derived(session.cache, root, path, FALSE)
      BY <2>1, CachedIsDerived, RootsAreNodes, KeysAssumption
    <3> QED BY <3>1 DEF Derived
  <2>3. session' = [session EXCEPT !.cache = got.cache]
    BY <1>3 DEF DerivePath
  <2> HIDE DEF got
  <2>4. session' = [of |-> "nodes", cache |-> got.cache]
    BY <2>1, <2>3
  <2> QED BY <2>2, <2>4 DEF CachesKept
<1>4. ASSUME NEW mnemonic \in Phrases, NEW passphrase \in Phrases, MakeSeed(mnemonic, passphrase) PROVE CachesKept'
  <2> DEFINE got == MnemonicToSeed(Squeezed, session.cache, mnemonic, passphrase)
  <2>1. session = [of |-> "seeds", cache |-> session.cache] /\ SeedsKept(session.cache)
    BY <1>4 DEF MakeSeed, CachesKept
  <2>2. SeedsKept(got.cache)
    BY <2>1, SeedIsMade
  <2>3. session' = [session EXCEPT !.cache = got.cache]
    BY <1>4 DEF MakeSeed
  <2> HIDE DEF got
  <2>4. session' = [of |-> "seeds", cache |-> got.cache]
    BY <2>1, <2>3
  <2> QED BY <2>2, <2>4 DEF CachesKept
<1>5. ASSUME ClearCache PROVE CachesKept'
  <2>1. \/ session' = [of |-> "nodes", cache |-> EmptyCache]
        \/ session' = [of |-> "seeds", cache |-> NoSeeds]
    BY <1>5 DEF ClearCache, CachesKept
  <2> QED BY <2>1, EmptyKept DEF CachesKept
<1> QED BY <1>1, <1>2, <1>3, <1>4, <1>5 DEF Continue

LEMMA KeptMeansUnseen == CachesKept => CacheUnseen
<1> SUFFICES ASSUME CachesKept PROVE CacheUnseen
  OBVIOUS
<1>1. ASSUME session.of = "nodes", NEW root \in Roots, NEW path \in Paths
      PROVE  LET got == HdnodePrivateCkdCached(session.cache, root, path, TRUE, Mixed)
                 n == Len(path)
                 parent == Along(root, SubSeq(path, 1, n - 1), Mixed)
                 right == Along(root, path, Mixed)
             IN /\ got.ret = right.ret
                /\ n > 0 /\ parent.ret = 1 => got.fingerprint = HdnodeFingerprint(parent.node).fingerprint
                /\ right.ret = 1 => got.node = right.node
  <2>1. NodesKept(session.cache) /\ IsNode(root) /\ path \in Seq(Nat)
    BY <1>1, RootsAreNodes, KeysAssumption DEF CachesKept
  <2>2. Derived(session.cache, root, path, TRUE)
    BY <2>1, CachedIsDerived
  <2> QED BY <2>2 DEF Derived
<1>2. ASSUME session.of = "seeds", NEW mnemonic \in Phrases, NEW passphrase \in Phrases
      PROVE  MnemonicToSeed(Squeezed, session.cache, mnemonic, passphrase).seed
               = MnemonicToSeed(Squeezed, NoSeeds, mnemonic, passphrase).seed
  <2>1. SeedsKept(session.cache)
    BY <1>2 DEF CachesKept
  <2> QED BY <2>1, EmptyKept, SeedIsMade
<1> QED BY <1>1, <1>2 DEF CacheUnseen

\* Whatever was derived, failed or cleared before, the caches of nodes and of
\* seeds give what is derived without them.
THEOREM CachesTransparentHolds == Spec => CachesTransparent
<1>1. Init => CachesKept
  BY DEF Init, CachesKept, Idle
<1>2. CachesKept /\ [Next]_session => CachesKept'
  <2> SUFFICES ASSUME CachesKept, [Next]_session PROVE CachesKept'
    OBVIOUS
  <2>1. CASE End
    BY <2>1 DEF End, Idle, CachesKept
  <2>2. CASE UNCHANGED session
    BY <2>2 DEF CachesKept
  <2> QED BY <2>1, <2>2, KeptFromStart, KeptFromContinue DEF Next
<1>3. CachesKept => CacheUnseen
  BY KeptMeansUnseen
<1> QED BY <1>1, <1>2, <1>3, PTL DEF Spec, CachesTransparent

-----------------------------------------------------------------------------
(* The hash sessions: what they keep, action by action, and the theorem.   *)

LEMMA MessageLong ==
    ASSUME NEW i \in Nat, NEW n \in Nat
    PROVE  Long(Message(i, n), n) /\ \A j \in 1..n : Message(i, n)[j] = MessageBytes[i + j]
BY DEF Message, Long

LEMMA MessageJoins ==
    ASSUME NEW i \in Nat, NEW n \in Nat, NEW k \in Nat
    PROVE  Message(i, n) \o Message(i + n, k) = Message(i, n + k)
<1> DEFINE s == Message(i, n)
           t == Message(i + n, k)
           d == s \o t
           w == Message(i, n + k)
<1>0. i + n \in Nat /\ n + k \in Nat
  OBVIOUS
<1>1. Long(s, n) /\ \A j \in 1..n : s[j] = MessageBytes[i + j]
  BY MessageLong
<1>2. Long(t, k) /\ \A j \in 1..k : t[j] = MessageBytes[i + n + j]
  BY <1>0, MessageLong, Zenon
<1>3. Long(w, n + k) /\ \A j \in 1..n + k : w[j] = MessageBytes[i + j]
  BY <1>0, MessageLong, Zenon
<1> HIDE DEF s, t, w
<1>4. JoinOf(d, s, n, t, k)
  BY <1>1, <1>2, JoinIs
<1> HIDE DEF d
<1>5. Long(d, n + k) /\ (\A j \in 1..n : d[j] = s[j]) /\ \A j \in 1..k : d[n + j] = t[j]
  BY <1>4 DEF JoinOf
<1>6. ASSUME NEW j \in 1..n + k PROVE d[j] = w[j]
  <2>1. CASE j <= n
    BY <1>1, <1>3, <1>5, <2>1
  <2>2. CASE ~(j <= n)
    <3>1. j - n \in 1..k /\ n + (j - n) = j /\ i + n + (j - n) = i + j
      BY <2>2
    <3> QED BY <1>2, <1>3, <1>5, <3>1
  <2> QED BY <2>1, <2>2
<1>7. d = w
  BY <1>3, <1>5, <1>6, SameLong
<1> QED BY <1>7 DEF d, s, t, w

ShaSession(f, b, c) == [of |-> "sha", fed |-> f, before |-> b, ctx |-> c]
Sha3Session(f, k, c) == [of |-> "sha3", fed |-> f, kind |-> k, ctx |-> c]
FedOn(s, n, c) == [s EXCEPT !.fed = @ + n, !.ctx = c]

LEMMA SessionFed ==
    ASSUME NEW f, NEW b, NEW c, NEW n, NEW x
    PROVE  /\ FedOn(ShaSession(f, b, c), n, x) = ShaSession(f + n, b, x)
           /\ FedOn(Sha3Session(f, b, c), n, x) = Sha3Session(f + n, b, x)
<1> DEFINE s == FedOn(ShaSession(f, b, c), n, x)
           t == FedOn(Sha3Session(f, b, c), n, x)
<1>1. /\ DOMAIN s = {"of", "fed", "before", "ctx"} /\ s = [i \in DOMAIN s |-> s[i]]
      /\ s.of = "sha" /\ s.fed = f + n /\ s.before = b /\ s.ctx = x
  BY DEF FedOn, ShaSession
<1>2. /\ DOMAIN t = {"of", "fed", "kind", "ctx"} /\ t = [i \in DOMAIN t |-> t[i]]
      /\ t.of = "sha3" /\ t.fed = f + n /\ t.kind = b /\ t.ctx = x
  BY DEF FedOn, Sha3Session
<1> HIDE DEF s, t
<1>3. s = ShaSession(f + n, b, x)
  BY <1>1 DEF ShaSession
<1>4. t = Sha3Session(f + n, b, x)
  BY <1>2 DEF Sha3Session
<1> QED BY <1>3, <1>4 DEF s, t

\* A context of SHA-2 was fed with the message so far.
ShaFed ==
    /\ session = ShaSession(session.fed, session.before, session.ctx)
    /\ session.fed \in Nat /\ session.before \in Counts
    /\ WasFed(Squeezed, InitialState(Sha256), session.before, Message(0, session.fed), session.fed, session.ctx)

\* A context of SHA-3 was, in blocks of the size of its kind.
Sha3Fed ==
    /\ session = Sha3Session(session.fed, session.kind, session.ctx)
    /\ session.fed \in Nat /\ session.kind \in DOMAIN Sha3Kinds
    /\ WasSoaked(Stirred, Sha3Kinds[session.kind].size, Message(0, session.fed), session.fed, session.ctx)

\* What every session keeps of the hashes.
HashesFed ==
    /\ "of" \in DOMAIN session
    /\ session.of = "sha" => ShaFed
    /\ session.of = "sha3" => Sha3Fed

LEMMA KindsRight ==
    ASSUME NEW kind \in DOMAIN Sha3Kinds
    PROVE  \E bits \in {224, 256, 384, 512} : Sha3Kinds[kind] = KeccakInit(bits)
BY DEF Sha3Kinds, Sha3_224_Init, Sha3_256_Init, Sha3_384_Init, Sha3_512_Init

LEMMA CountsRight ==
    ASSUME NEW c \in Counts
    PROVE  c \in Nat /\ c % (8 * BlockLength) = 0 /\ CountOf(c) = [low |-> c, high |-> 0]
<1>1. Lane \in Nat \ {0} /\ c \in 0..Lane - 1 /\ c % (8 * BlockLength) = 0
  BY LaneAssumption, StreamsAssumption
<1> HIDE DEF Lane, BlockLength
<1>2. c \div Lane = 0 /\ c % Lane = c /\ 0 % Lane = 0
  <2>1. ((0 * Lane) + c) \div Lane = 0 /\ ((0 * Lane) + c) % Lane = c
    BY <1>1, QuotientIs
  <2>2. ((0 * Lane) + 0) % Lane = 0
    BY <1>1, QuotientIs
  <2>3. (0 * Lane) + c = c /\ (0 * Lane) + 0 = 0
    BY <1>1
  <2> QED BY <2>1, <2>2, <2>3
<1> QED BY <1>1, <1>2 DEF CountOf

LEMMA FedFromSha == StreamSha => HashesFed'
<1> SUFFICES ASSUME NEW before \in Counts,
                    session' = ShaSession(0, before, Sha256InitEx(InitialState(Sha256), [low |-> before, high |-> 0]))
             PROVE  HashesFed'
  BY DEF StreamSha, ShaSession
<1> DEFINE ctx == Sha256InitEx(InitialState(Sha256), [low |-> before, high |-> 0])
<1>1. WasFed(Squeezed, InitialState(Sha256), before, Message(0, 0), 0, ctx)
  BY FedInit, CountsRight
<1> HIDE DEF ctx
<1>2. session' = ShaSession(0, before, ctx)
  BY DEF ctx
<1>3. session'.fed = 0 /\ session'.before = before /\ session'.ctx = ctx /\ session'.of = "sha" /\ "of" \in DOMAIN session'
  BY <1>2 DEF ShaSession
<1>4. ShaFed'
  BY <1>1, <1>2, <1>3 DEF ShaFed
<1> QED BY <1>3, <1>4 DEF HashesFed

LEMMA FedFromSha3 == StreamSha3 => HashesFed'
<1> SUFFICES ASSUME NEW kind \in DOMAIN Sha3Kinds, session' = Sha3Session(0, kind, Sha3Kinds[kind])
             PROVE  HashesFed'
  BY DEF StreamSha3, Sha3Session
<1> DEFINE ctx == Sha3Kinds[kind]
<1>1. WasSoaked(Stirred, ctx.size, Message(0, 0), 0, ctx)
  BY KindsRight, SoakedInit
<1>2. session'.fed = 0 /\ session'.kind = kind /\ session'.ctx = ctx /\ session'.of = "sha3" /\ "of" \in DOMAIN session'
  BY DEF Sha3Session
<1>3. session' = Sha3Session(0, kind, ctx)
  OBVIOUS
<1>4. ctx = Sha3Kinds[session'.kind]
  BY <1>2
<1> HIDE DEF ctx
<1>5. Sha3Fed'
  BY <1>1, <1>2, <1>3, <1>4 DEF Sha3Fed
<1> QED BY <1>2, <1>5 DEF HashesFed

LEMMA FedFromFeed ==
    ASSUME HashesFed, NEW n \in Pieces, Feed(n)
    PROVE  HashesFed'
<1> DEFINE f == session.fed
           data == Message(f, n)
           sha == ShaUpdate(Squeezed, session.ctx, data)
           sha3 == Sha3Update(Stirred, session.ctx, data)
<1>1. n \in Nat
  BY StreamsAssumption
<1>2. session.of \in {"sha", "sha3"} /\ session' = FedOn(session, n, IF session.of = "sha" THEN sha ELSE sha3)
  BY DEF Feed, FedOn, HashesFed
<1>3. ASSUME f \in Nat PROVE Long(Message(0, f), f) /\ Long(data, n) /\ Message(0, f) \o data = Message(0, f + n) /\ f + n \in Nat
  <2> HIDE DEF f
  <2>1. 0 \in Nat /\ 0 + f = f /\ f + n \in Nat
    BY <1>1, <1>3
  <2>2. Message(0, f) \o Message(0 + f, n) = Message(0, f + n)
    BY <1>1, <1>3, <2>1, MessageJoins
  <2>3. Long(Message(0, f), f) /\ Long(data, n)
    BY <1>1, <1>3, <2>1, MessageLong
  <2> QED BY <2>1, <2>2, <2>3
<1>4. CASE session.of = "sha"
  <2>1. ShaFed
    BY <1>4 DEF HashesFed
  <2> DEFINE b == session.before
  <2>2. session = ShaSession(f, b, session.ctx) /\ f \in Nat /\ b \in Counts
        /\ WasFed(Squeezed, InitialState(Sha256), b, Message(0, f), f, session.ctx)
    BY <2>1 DEF ShaFed
  <2>3. b \in Nat /\ b % (8 * BlockLength) = 0
    BY <2>2, CountsRight
  <2>4. Long(Message(0, f), f) /\ Long(data, n) /\ Message(0, f) \o data = Message(0, f + n) /\ f + n \in Nat
    BY <1>3, <2>2
  <2> HIDE DEF data, b, f
  <2>5. WasFed(Squeezed, InitialState(Sha256), b, Message(0, f) \o data, f + n, sha)
    BY <2>2, <2>3, <2>4, FedOnward
  <2> HIDE DEF sha, sha3
  <2>6. session' = ShaSession(f + n, b, sha)
    <3>1. session' = FedOn(session, n, sha)
      BY <1>2, <1>4
    <3>2. FedOn(ShaSession(f, b, session.ctx), n, sha) = ShaSession(f + n, b, sha)
      BY SessionFed
    <3> QED BY <2>2, <3>1, <3>2
  <2>7. session'.fed = f + n /\ session'.before = b /\ session'.ctx = sha /\ session'.of = "sha" /\ "of" \in DOMAIN session'
    BY <2>6 DEF ShaSession
  <2>8. ShaFed'
    BY <2>2, <2>4, <2>5, <2>6, <2>7 DEF ShaFed
  <2> QED BY <2>7, <2>8 DEF HashesFed
<1>5. CASE session.of = "sha3"
  <2>1. Sha3Fed
    BY <1>5 DEF HashesFed
  <2> DEFINE k == session.kind
             size == Sha3Kinds[k].size
  <2>2. session = Sha3Session(f, k, session.ctx) /\ f \in Nat /\ k \in DOMAIN Sha3Kinds
        /\ WasSoaked(Stirred, size, Message(0, f), f, session.ctx)
    BY <2>1 DEF Sha3Fed
  <2>3. RightSize(size)
    BY <2>2, KindsRight, SoakedInit
  <2>4. Long(Message(0, f), f) /\ Long(data, n) /\ Message(0, f) \o data = Message(0, f + n) /\ f + n \in Nat
    BY <1>3, <2>2
  <2> HIDE DEF data, size, k, f
  <2>5. WasSoaked(Stirred, size, Message(0, f) \o data, f + n, sha3)
    BY <1>1, <2>2, <2>3, <2>4, SoakedOnward
  <2> HIDE DEF sha, sha3
  <2>6. session' = Sha3Session(f + n, k, sha3)
    <3>1. session' = FedOn(session, n, sha3)
      BY <1>2, <1>5
    <3>2. FedOn(Sha3Session(f, k, session.ctx), n, sha3) = Sha3Session(f + n, k, sha3)
      BY SessionFed
    <3> QED BY <2>2, <3>1, <3>2
  <2>7. session'.fed = f + n /\ session'.kind = k /\ session'.ctx = sha3 /\ session'.of = "sha3" /\ "of" \in DOMAIN session'
    BY <2>6 DEF Sha3Session
  <2>8. Sha3Fed'
    BY <2>2, <2>4, <2>5, <2>6, <2>7 DEF Sha3Fed, size
  <2> QED BY <2>7, <2>8 DEF HashesFed
<1> QED BY <1>2, <1>4, <1>5

LEMMA FedFromStart == Start => HashesFed'
<1> DEFINE Other == "of" \in DOMAIN session' /\ session'.of \notin {"sha", "sha3"}
<1>1. Other => HashesFed'
  BY DEF HashesFed
<1>2. Numeric \/ Scale \/ Sign => Other
  BY DEF Numeric, Scale, Sign
<1>3. Rounds \/ Authenticate => Other
  BY DEF Rounds, Authenticate
<1>4. Derive \/ Seed \/ Use => Other
  BY DEF Derive, Seed, Use
<1>5. WriteSignature \/ ShowAmount \/ WritePayload => Other
  BY DEF WriteSignature, ShowAmount, WritePayload
<1>6. Propose => Other
  BY DEF Propose
<1>7. DeriveChild \/ MakePhrase => Other
  BY DEF DeriveChild, MakePhrase
<1>8. KeepNodes \/ KeepSeeds => Other
  BY DEF KeepNodes, KeepSeeds
<1> HIDE DEF Other
<1> QED BY <1>1, <1>2, <1>3, <1>4, <1>5, <1>6, <1>7, <1>8, FedFromSha, FedFromSha3 DEF Start

LEMMA FedFromContinue == HashesFed /\ Continue => HashesFed'
<1> SUFFICES ASSUME HashesFed, Continue PROVE HashesFed'
  OBVIOUS
<1> DEFINE Same == session'.of = session.of /\ DOMAIN session' = DOMAIN session /\ session.of \notin {"sha", "sha3"}
<1>1. Same => HashesFed'
  BY DEF HashesFed
<1>2. ASSUME NEW n \in Pieces, Feed(n) PROVE HashesFed'
  BY <1>2, FedFromFeed
<1>3. ASSUME NEW n \in Amounts, Generate(n) PROVE Same
  BY <1>3 DEF Generate, HashesFed
<1>4. ASSUME NEW root \in Roots, NEW path \in Paths, DerivePath(root, path) PROVE Same
  BY <1>4 DEF DerivePath, HashesFed
<1>5. ASSUME NEW mnemonic \in Phrases, NEW passphrase \in Phrases, MakeSeed(mnemonic, passphrase) PROVE Same
  BY <1>5 DEF MakeSeed, HashesFed
<1>6. ASSUME ClearCache PROVE Same
  BY <1>6 DEF ClearCache, HashesFed
<1> HIDE DEF Same
<1> QED BY <1>1, <1>2, <1>3, <1>4, <1>5, <1>6 DEF Continue

\* What was fed is what the digest is of.
LEMMA FedMeansStreamed == HashesFed => HashesStreamed
<1> SUFFICES ASSUME HashesFed PROVE HashesStreamed
  OBVIOUS
<1> DEFINE f == session.fed
           b == session.before
<1>1. ASSUME session.of = "sha" PROVE ShaStreamed
  <2>1. f \in Nat /\ b \in Nat /\ b % (8 * BlockLength) = 0
        /\ WasFed(Squeezed, InitialState(Sha256), b, Message(0, f), f, session.ctx)
    BY <1>1, CountsRight DEF HashesFed, ShaFed
  <2> HIDE DEF f, b
  <2>2. Long(Message(0, f), f)
    BY <2>1, MessageLong
  <2>3. ShaFinal(Squeezed, session.ctx, 8) = ShaOf(Squeezed, InitialState(Sha256), Message(0, f), b, 8)
    BY <2>1, <2>2, FedFinal
  <2> QED BY <2>3 DEF ShaStreamed, f, b
<1>2. ASSUME session.of = "sha3" PROVE Sha3Streamed
  <2> DEFINE init == Sha3Kinds[session.kind]
  <2>1. session.kind \in DOMAIN Sha3Kinds /\ f \in Nat
        /\ WasSoaked(Stirred, init.size, Message(0, f), f, session.ctx)
    BY <1>2 DEF HashesFed, Sha3Fed
  <2>2. RightSize(init.size)
    BY <2>1, KindsRight, SoakedInit
  <2> HIDE DEF f, init
  <2>3. Long(Message(0, f), f)
    BY <2>1, MessageLong
  <2>4. ASSUME NEW domain \in Nat
        PROVE  Finished(Stirred, session.ctx, domain) = SpongeOf(Stirred, init, Message(0, f), domain)
    BY <2>1, <2>2, <2>3, SoakedFinal
  <2>5. Sha3Final(Stirred, session.ctx) = SpongeOf(Stirred, init, Message(0, f), 6)
    BY <2>4 DEF Sha3Final
  <2>6. KeccakFinal(Stirred, session.ctx) = SpongeOf(Stirred, init, Message(0, f), 1)
    BY <2>4 DEF KeccakFinal
  <2> QED BY <2>5, <2>6 DEF Sha3Streamed, init, f
<1>3. ShaStreamed /\ Sha3Streamed
  BY <1>1, <1>2 DEF ShaStreamed, Sha3Streamed
<1> QED BY <1>3 DEF HashesStreamed

\* However a message is cut into pieces, whatever the compression and the
\* permutation compute and however many bytes they are fed with, the digest is
\* the one of the whole message.
THEOREM HashesStreamedHolds == Spec => []HashesStreamed
<1>1. Init => HashesFed
  BY DEF Init, HashesFed, Idle
<1>2. HashesFed /\ [Next]_session => HashesFed'
  <2> SUFFICES ASSUME HashesFed, [Next]_session PROVE HashesFed'
    OBVIOUS
  <2>1. CASE End
    BY <2>1 DEF End, Idle, HashesFed
  <2>2. CASE UNCHANGED session
    BY <2>2 DEF HashesFed, ShaFed, Sha3Fed
  <2> QED BY <2>1, <2>2, FedFromStart, FedFromContinue DEF Next
<1>3. HashesFed => HashesStreamed
  BY FedMeansStreamed
<1> QED BY <1>1, <1>2, <1>3, PTL DEF Spec

-----------------------------------------------------------------------------
(* Pictures.  The panel shows of a buffer the pixels it has, and of what is *)
(* drawn into one what lies on the panel.                                   *)

Panel == (0..Width - 1) \X (0..Height - 1)

DrawnOn(buffer, P) == buffer \cup CellsOf(P)

Joins(X, Y) == X \cup Y

OnPanel(P) == P \cap Panel

IsPicture(P) == P \subseteq Int \X Int

LEMMA PanelShows ==
    ASSUME NEW A, NEW P, IsPicture(P)
    PROVE  UpdateScreen(DrawnOn(A, P)) = Joins(UpdateScreen(A), OnPanel(P))
<1> DEFINE Shows(b, page) == b[1] \in page * Width..(page + 1) * Width - 1
           Pixel(b, page) == <<b[1] - page * Width, 8 * page + b[2]>>
           Cell(q) == <<q[1] + (q[2] \div 8) * Width, q[2] % 8>>
<1>1. ASSUME NEW X, NEW p
      PROVE  p \in UpdateScreen(X) <=> \E page \in 0..7 : \E b \in X : Shows(b, page) /\ p = Pixel(b, page)
  BY DEF UpdateScreen
<1>2. ASSUME NEW b
      PROVE  b \in CellsOf(P) <=> \E q \in P : q[1] \in 0..Width - 1 /\ q[2] \in 0..Height - 1 /\ b = Cell(q)
  BY DEF CellsOf
<1>3. ASSUME NEW q \in Int \X Int, q[1] \in 0..Width - 1, q[2] \in 0..Height - 1, NEW page \in 0..7, Shows(Cell(q), page)
      PROVE  Pixel(Cell(q), page) = q
  <2> DEFINE x == q[1]
             y == q[2]
             k == y \div 8
             r == y % 8
  <2>1. q = <<x, y>> /\ x \in 0..127 /\ y \in 0..63
    BY <1>3 DEF Width, Height
  <2>2. k \in 0..7 /\ r \in 0..7 /\ y = 8 * k + r
    BY <2>1
  <2>3. Cell(q)[1] = x + k * 128 /\ Cell(q)[2] = r
    BY DEF Width
  <2>4. x + k * 128 \in page * 128..(page + 1) * 128 - 1
    BY <1>3, <2>3 DEF Width
  <2> HIDE DEF x, y, k, r
  <2>5. page = k
    BY <2>1, <2>2, <2>4
  <2>6. Pixel(Cell(q), page) = <<(x + k * 128) - page * 128, 8 * page + r>>
    BY <2>3 DEF Width
  <2> QED BY <2>1, <2>2, <2>5, <2>6
<1>4. ASSUME NEW q \in Int \X Int, q[1] \in 0..Width - 1, q[2] \in 0..Height - 1
      PROVE  \E page \in 0..7 : Shows(Cell(q), page)
  <2> DEFINE x == q[1]
             k == q[2] \div 8
  <2>1. x \in 0..127 /\ k \in 0..7 /\ Cell(q)[1] = x + k * 128
    BY <1>4 DEF Width, Height
  <2> HIDE DEF x, k
  <2>2. x + k * 128 \in k * 128..(k + 1) * 128 - 1
    BY <2>1
  <2> QED BY <2>1, <2>2 DEF Width
<1> HIDE DEF Shows, Pixel, Cell
<1>5. ASSUME NEW p PROVE p \in UpdateScreen(A \cup CellsOf(P)) <=> p \in UpdateScreen(A) \/ p \in P \cap Panel
  <2>1. ASSUME p \in P \cap Panel PROVE p \in UpdateScreen(CellsOf(P))
    <3>1. p \in Int \X Int /\ p[1] \in 0..Width - 1 /\ p[2] \in 0..Height - 1 /\ p \in P
      BY <2>1 DEF Panel, IsPicture
    <3>2. Cell(p) \in CellsOf(P)
      BY <1>2, <3>1
    <3>3. PICK page \in 0..7 : Shows(Cell(p), page)
      BY <1>4, <3>1
    <3>4. Pixel(Cell(p), page) = p
      BY <1>3, <3>1, <3>3
    <3> QED BY <1>1, <3>2, <3>3, <3>4
  <2>2. ASSUME p \in UpdateScreen(CellsOf(P)) PROVE p \in P \cap Panel
    <3>1. PICK page \in 0..7, b \in CellsOf(P) : Shows(b, page) /\ p = Pixel(b, page)
      BY <1>1, <2>2
    <3>2. PICK q \in P : q[1] \in 0..Width - 1 /\ q[2] \in 0..Height - 1 /\ b = Cell(q)
      BY <1>2
    <3>3. q \in Int \X Int /\ q \in Panel
      BY <3>2 DEF IsPicture, Panel
    <3>4. p = q
      BY <1>3, <3>1, <3>2, <3>3
    <3> QED BY <3>2, <3>3, <3>4
  <2>3. p \in UpdateScreen(A \cup CellsOf(P)) <=> p \in UpdateScreen(A) \/ p \in UpdateScreen(CellsOf(P))
    BY <1>1
  <2> QED BY <2>1, <2>2, <2>3
<1> QED BY <1>5 DEF DrawnOn, Joins, OnPanel

LEMMA CharIsPicture ==
    ASSUME NEW x \in Int, NEW y \in Int, NEW scale \in {1, 2}
    PROVE  IsPicture(CharPixels(x, y, scale))
BY DEF IsPicture, CharPixels

\* A text is drawn character by character.
TextPixels(x, y, n, scale) == UNION {CharPixels(CharAt(x, i, scale), y, scale) : i \in 1..n}

LEMMA TextDrawn ==
    ASSUME NEW buffer, NEW x \in Int, NEW y \in Int, NEW scale \in {1, 2}, NEW text, NEW n, Long(text, n)
    PROVE  /\ DrawString(buffer, x, y, text, scale) = DrawnOn(buffer, TextPixels(x, y, n, scale))
           /\ IsPicture(TextPixels(x, y, n, scale))
<1>1. Len(text) = n /\ n \in Nat
  BY LongIsSeq DEF Long
<1> DEFINE Char(i) == CharPixels(CharAt(x, i, scale), y, scale)
<1>2. UNION {CellsOf(Char(i)) : i \in 1..n} = CellsOf(UNION {Char(i) : i \in 1..n})
  BY DEF CellsOf
<1>3. ASSUME NEW i \in 1..n PROVE IsPicture(Char(i))
  <2>1. CharAt(x, i, scale) \in Int
    BY <1>1 DEF CharAt
  <2> QED BY <2>1, CharIsPicture
<1> HIDE DEF Char
<1>4. IsPicture(UNION {Char(i) : i \in 1..n})
  BY <1>3 DEF IsPicture
<1> QED BY <1>1, <1>2, <1>4 DEF DrawString, TextPixels, Char, DrawnOn

LEMMA LineIsPicture ==
    ASSUME NEW x \in Int, NEW y \in Int, NEW w \in Int
    PROVE  IsPicture({<<i, y>> : i \in x..x + w - 1})
BY DEF IsPicture

Around == UpdateScreen(UiHint(UiTitle(Cleared, ReviewTitle), ReviewHints[1], ReviewHints[2]))

\* The amount is drawn between the two lines, at twice the size.
AmountPixels(text, i) == CharPixels(CharAt(CentredAt(text, 2), i, 2), 26, 2)

LEMMA CentredIsInt ==
    ASSUME NEW text, NEW n, Long(text, n)
    PROVE  /\ CentredAt(text, 2) \in Int
           /\ n <= 10 => CentredAt(text, 2) = 64 - 6 * n
           /\ n > 10 => CentredAt(text, 2) < 0
<1>1. Len(text) = n /\ n \in Nat
  BY LongIsSeq DEF Long
<1>2. CentredAt(text, 2) = Half(128 - n * 12)
  BY <1>1 DEF CentredAt, Width
<1>3. CASE n <= 10
  <2>1. 128 - n * 12 >= 0 /\ 128 - n * 12 = 2 * (64 - 6 * n)
    BY <1>1, <1>3
  <2>2. Half(128 - n * 12) = 64 - 6 * n
    BY <1>1, <2>1 DEF Half
  <2> QED BY <1>1, <1>2, <1>3, <2>2
<1>4. CASE n > 10
  <2>1. ~(128 - n * 12 >= 0) /\ -(128 - n * 12) = 2 * (6 * n - 64) /\ 6 * n - 64 > 0
    BY <1>1, <1>4
  <2>2. Half(128 - n * 12) = -(6 * n - 64)
    BY <1>1, <2>1 DEF Half
  <2> QED BY <1>1, <1>2, <1>4, <2>1, <2>2
<1> QED BY <1>1, <1>3, <1>4

Frame == (Int \X (Int \ (26..39)))

\* What is on the page without the amount lies above it and below it.
AmountArea(text, n) == UNION {AmountPixels(text, i) : i \in 1..n}

LEMMA AroundOutside ==
    /\ Around \subseteq Frame
    /\ \A text, n : Long(text, n) =>
        UpdateScreen(ReviewValue(text)) = Joins(Around, OnPanel(AmountArea(text, n)))
<1> DEFINE T == TextPixels(2, 1, 9, 1)
           A == {<<i, 10>> : i \in 0..0 + Width - 1}
           B == {<<i, 54>> : i \in 0..0 + Width - 1}
           L == TextPixels(2, 56, 6, 1)
           x == Width - 2 - 7 * 6
           R == TextPixels(x, 56, 7, 1)
           M(X) == DrawnOn(DrawnOn(DrawnOn(X, B), L), R)
           K == DrawnOn(DrawnOn({}, T), A)
<1>0. 1 \in Int /\ 2 \in Int /\ 26 \in Int /\ 56 \in Int /\ 1 \in {1, 2} /\ 2 \in {1, 2}
  OBVIOUS
<1>1. /\ ReviewTitle = Zeros(9) /\ ReviewHints[1] = Zeros(6) /\ ReviewHints[2] = Zeros(7)
      /\ Long(Zeros(9), 9) /\ Long(Zeros(6), 6) /\ Long(Zeros(7), 7)
  BY ZerosLong DEF ReviewTitle, ReviewHints
<1>11. Long(ReviewTitle, 9) /\ Long(ReviewHints[1], 6) /\ Long(ReviewHints[2], 7)
  BY <1>1
<1>2. Len(Zeros(7)) = 7
  BY <1>1, LongIsSeq
<1>3. UiTitle(Cleared, ReviewTitle) = K
  <2>1. DrawString(Cleared, 2, 1, ReviewTitle, 1) = DrawnOn(Cleared, T)
    <3> DEFINE at == 2
               one == 1
               nine == 9
    <3>1. at \in Int /\ one \in Int /\ one \in {1, 2} /\ Long(ReviewTitle, nine)
      BY <1>11
    <3> HIDE DEF at, one, nine
    <3>2. DrawString(Cleared, at, one, ReviewTitle, one) = DrawnOn(Cleared, TextPixels(at, one, nine, one))
      BY <3>1, TextDrawn
    <3> QED BY <3>2 DEF at, one, nine
  <2> DEFINE t == DrawnOn(Cleared, T)
  <2>2. UiTitle(Cleared, ReviewTitle) = DrawFastHLine(t, 0, 10, Width)
    BY <2>1 DEF UiTitle
  <2>3. t = DrawnOn({}, T)
    BY DEF Cleared
  <2> HIDE DEF t, T
  <2>4. DrawFastHLine(t, 0, 10, Width) = DrawnOn(t, A)
    BY DEF DrawFastHLine, DrawnOn
  <2> HIDE DEF A
  <2> QED BY <2>2, <2>3, <2>4
<1>4. ASSUME NEW X PROVE UiHint(X, ReviewHints[1], ReviewHints[2]) = M(X)
  <2> DEFINE a == DrawFastHLine(X, 0, 54, Width)
             b == DrawString(a, 2, 56, ReviewHints[1], 1)
  <2>1. a = DrawnOn(X, B)
    BY DEF DrawFastHLine, DrawnOn
  <2>2. UiHint(X, ReviewHints[1], ReviewHints[2]) = DrawString(b, x, 56, ReviewHints[2], 1)
    BY <1>1, <1>2 DEF UiHint
  <2> HIDE DEF a
  <2>3. b = DrawnOn(a, L)
    <3> DEFINE at == 2
               down == 56
               one == 1
               six == 6
               hint == ReviewHints[1]
    <3>1. at \in Int /\ down \in Int /\ one \in {1, 2} /\ Long(hint, six)
      BY <1>11
    <3> HIDE DEF at, down, one, six, hint
    <3>2. DrawString(a, at, down, hint, one) = DrawnOn(a, TextPixels(at, down, six, one))
      BY <3>1, TextDrawn
    <3> QED BY <3>2 DEF at, down, one, six, hint
  <2>4. x \in Int
    BY DEF Width
  <2> HIDE DEF b, x
  <2>5. DrawString(b, x, 56, ReviewHints[2], 1) = DrawnOn(b, TextPixels(x, 56, 7, 1))
    <3> DEFINE down == 56
               one == 1
               seven == 7
               hint == ReviewHints[2]
    <3>1. down \in Int /\ one \in {1, 2} /\ Long(hint, seven)
      BY <1>11
    <3> HIDE DEF down, one, seven, hint
    <3>2. DrawString(b, x, down, hint, one) = DrawnOn(b, TextPixels(x, down, seven, one))
      BY <2>4, <3>1, TextDrawn
    <3> QED BY <3>2 DEF down, one, seven, hint
  <2> HIDE DEF B, L
  <2> QED BY <2>1, <2>2, <2>3, <2>5
<1>5. IsPicture(T) /\ IsPicture(A) /\ IsPicture(B) /\ IsPicture(L) /\ IsPicture(R)
  <2>1. x \in Int
    BY DEF Width
  <2>2. IsPicture(T) /\ IsPicture(L)
    BY <1>0, <1>1, TextDrawn, Zenon
  <2>3. IsPicture(A) /\ IsPicture(B)
    BY DEF IsPicture, Width
  <2> HIDE DEF x
  <2>4. IsPicture(R)
    BY <1>0, <1>1, <2>1, TextDrawn, Zenon
  <2> QED BY <2>2, <2>3, <2>4
<1> HIDE DEF T, A, B, L, R, x
<1>6. Around = Joins(Joins(Joins(Joins(Joins(UpdateScreen({}), OnPanel(T)), OnPanel(A)), OnPanel(B)), OnPanel(L)), OnPanel(R))
  <2>1. Around = UpdateScreen(M(K))
    BY <1>3, <1>4 DEF Around
  <2> QED BY <1>5, <2>1, PanelShows
<1>7. UpdateScreen({}) = {}
  BY DEF UpdateScreen
<1>8. T \subseteq Frame /\ A \subseteq Frame /\ B \subseteq Frame /\ L \subseteq Frame /\ R \subseteq Frame
  <2>1. \A X, y, n : IsPicture(TextPixels(X, y, n, 1)) /\ y \in {1, 56} => TextPixels(X, y, n, 1) \subseteq Frame
    BY DEF TextPixels, CharPixels, IsPicture, Frame
  <2>2. T \subseteq Frame /\ L \subseteq Frame /\ R \subseteq Frame
    BY <1>5, <2>1 DEF T, L, R
  <2>3. A \subseteq Frame /\ B \subseteq Frame
    BY DEF A, B, Frame, Width
  <2> QED BY <2>2, <2>3
<1>9. ASSUME NEW text, NEW n, Long(text, n)
      PROVE  UpdateScreen(ReviewValue(text)) = Joins(Around, OnPanel(AmountArea(text, n)))
  <2> DEFINE c == CentredAt(text, 2)
             P == TextPixels(c, 26, n, 2)
  <2>1. c \in Int
    BY <1>9, CentredIsInt
  <2> HIDE DEF c, K
  <2>2. DrawString(K, c, 26, text, 2) = DrawnOn(K, P) /\ IsPicture(P)
    <3> DEFINE down == 26
               two == 2
    <3>1. down \in Int /\ two \in {1, 2}
      OBVIOUS
    <3> HIDE DEF down, two
    <3>2. DrawString(K, c, down, text, two) = DrawnOn(K, TextPixels(c, down, n, two))
      BY <1>9, <2>1, <3>1, TextDrawn
    <3>3. IsPicture(TextPixels(c, down, n, two))
      BY <1>9, <2>1, <3>1, TextDrawn
    <3> QED BY <3>2, <3>3 DEF down, two
  <2>3. P = AmountArea(text, n)
    BY DEF TextPixels, AmountPixels, AmountArea, c
  <2> HIDE DEF P
  <2>4. ReviewValue(text) = M(DrawnOn(K, P))
    BY <1>3, <1>4, <2>2 DEF ReviewValue, UiTextCenter, c
  <2>5. M(DrawnOn(K, P)) = DrawnOn(M(K), P)
    BY DEF DrawnOn
  <2> DEFINE page == M(K)
  <2>6. Around = UpdateScreen(page) /\ ReviewValue(text) = DrawnOn(page, P)
    BY <1>3, <1>4, <2>4, <2>5 DEF Around
  <2> HIDE DEF page
  <2>7. UpdateScreen(DrawnOn(page, P)) = Joins(UpdateScreen(page), OnPanel(P))
    BY <2>2, PanelShows
  <2> QED BY <2>3, <2>6, <2>7
<1> HIDE DEF Frame
<1>10. Around \subseteq Frame
  BY <1>6, <1>7, <1>8 DEF Joins, OnPanel
<1> QED BY <1>9, <1>10

LEMMA ProductsNest ==
    ASSUME NEW A, NEW B, NEW C, NEW D, A \subseteq C, B \subseteq D
    PROVE  A \X B \subseteq C \X D
OBVIOUS

LEMMA AmountDrawn ==
    ASSUME NEW text, NEW n \in Nat \ {0}, Long(text, n)
    PROVE  LET shown == UpdateScreen(ReviewValue(text))
           IN /\ (\A i \in 1..n : AmountPixels(text, i) \subseteq shown) <=> n <= 10
              /\ \A i \in 1..n : AmountPixels(text, i) \cap Around = {}
              /\ shown \ Around \subseteq AmountArea(text, n)
<1> DEFINE shown == UpdateScreen(ReviewValue(text))
           c == CentredAt(text, 2)
           D(i) == AmountPixels(text, i)
<1>0. shown = Joins(Around, OnPanel(AmountArea(text, n)))
  BY AroundOutside
<1> HIDE DEF shown
<1>1. shown = Around \cup (AmountArea(text, n) \cap Panel)
  BY <1>0 DEF Joins, OnPanel
<1>2. c \in Int /\ (n <= 10 => c = 64 - 6 * n) /\ (n > 10 => c < 0)
  BY CentredIsInt
<1> HIDE DEF c
<1>3. ASSUME NEW i \in 1..n
      PROVE  D(i) = (c + (i - 1) * 12..c + (i - 1) * 12 + 9) \X (26..39)
  BY <1>2 DEF AmountPixels, CharPixels, CharAt, c
<1>4. ASSUME NEW i \in 1..n PROVE D(i) \cap Around = {}
  <2>1. ASSUME NEW p, p \in D(i) PROVE p \notin Frame
    BY <1>2, <1>3, <2>1 DEF Frame
  <2> HIDE DEF D
  <2> QED BY <2>1, AroundOutside
<1>5. shown \ Around \subseteq AmountArea(text, n)
  BY <1>1
<1>a. ASSUME NEW i \in 1..n PROVE D(i) \subseteq AmountArea(text, n)
  BY DEF AmountArea
<1>6. ASSUME n <= 10, NEW i \in 1..n PROVE D(i) \subseteq shown
  <2> DEFINE l == c + (i - 1) * 12
  <2>1. l \in Int /\ l >= 0 /\ l + 9 <= 127
    BY <1>2, <1>6
  <2>2. D(i) = (l..l + 9) \X (26..39)
    BY <1>3
  <2> HIDE DEF l, D
  <2>3. l..l + 9 \subseteq 0..127 /\ 26..39 \subseteq 0..63
    BY <2>1
  <2>4. (l..l + 9) \X (26..39) \subseteq (0..127) \X (0..63)
    BY <2>3, ProductsNest
  <2>5. Panel = (0..127) \X (0..63)
    BY DEF Panel, Width, Height
  <2>6. D(i) \subseteq Panel
    BY <2>2, <2>4, <2>5
  <2> QED BY <1>1, <1>a, <2>6
<1>7. ASSUME n > 10 PROVE ~(D(1) \subseteq shown)
  <2> DEFINE p == <<c, 26>>
  <2>1. p \in D(1)
    <3>1. c + (1 - 1) * 12 = c /\ c + (1 - 1) * 12 + 9 = c + 9 /\ 1 \in 1..n
      BY <1>2
    <3>2. D(1) = (c..c + 9) \X (26..39)
      BY <1>3, <3>1
    <3> QED BY <1>2, <3>2
  <2>2. p \notin Panel
    BY <1>2, <1>7 DEF Panel, Width
  <2> HIDE DEF p, D
  <2>3. p \notin Around
    BY <1>4, <2>1
  <2> QED BY <1>1, <2>1, <2>2, <2>3
<1>8. 1 \in 1..n
  OBVIOUS
<1> HIDE DEF D
<1>9. (\A i \in 1..n : D(i) \subseteq shown) <=> n <= 10
  BY <1>6, <1>7, <1>8
<1> QED BY <1>4, <1>5, <1>9 DEF shown, D

-----------------------------------------------------------------------------
(* Texts.                                                                   *)

\* Up to m, s is all there is: the rest is zeros.
TrimsTo(s, n, m) == (m = 0 \/ s[m] # 0) /\ \A i \in m + 1..n : s[i] = 0

LEMMA TrimExists ==
    ASSUME NEW s, NEW n \in Nat
    PROVE  \E m \in 0..n : TrimsTo(s, n, m)
<1> DEFINE T == {k \in Nat : \E m \in 0..k : TrimsTo(s, k, m)}
<1>1. 0 \in T
  <2>1. TrimsTo(s, 0, 0) /\ 0 \in 0..0
    BY DEF TrimsTo
  <2> QED BY <2>1
<1>2. ASSUME NEW k \in Nat, k \in T PROVE k + 1 \in T
  <2>1. CASE s[k + 1] # 0
    <3>1. TrimsTo(s, k + 1, k + 1) /\ k + 1 \in 0..k + 1
      BY <2>1 DEF TrimsTo
    <3> QED BY <3>1
  <2>2. CASE s[k + 1] = 0
    <3>1. PICK m \in 0..k : TrimsTo(s, k, m)
      BY <1>2
    <3>2. \A i \in m + 1..k + 1 : i = k + 1 \/ i \in m + 1..k
      BY <3>1
    <3>3. TrimsTo(s, k + 1, m)
      BY <2>2, <3>1, <3>2 DEF TrimsTo
    <3>4. m \in 0..k + 1
      BY <3>1
    <3> QED BY <3>3, <3>4
  <2> QED BY <2>1, <2>2
<1> HIDE DEF T
<1>3. n \in T
  BY <1>1, <1>2, Induction
<1> QED BY <1>3 DEF T

\* What the text of an amount says of it.
Reads(dec, text) ==
    LET wei == Zeros(EthDecimals + 1) \o dec
        integer == IF Len(dec) <= EthDecimals THEN <<0>> ELSE SubSeq(dec, 1, Len(dec) - EthDecimals)
        millionths == SubSeq(wei, Len(wei) - EthDecimals + 1, Len(wei) - EthDecimals + ShownDecimals)
        n == Len(integer)
        fits == IF n < TextRoom THEN n ELSE TextRoom - 1
        decimals == SubSeq(text, n + 2, Len(text) - Len(Unit))
    IN /\ Len(text) < TextRoom
       /\ SubSeq(text, 1, fits) = SubSeq(integer, 1, fits)
       /\ Len(text) > n => text[n + 1] \in {Dot, Unit[1]}
       /\ n + 1 + ShownDecimals + Len(Unit) < TextRoom =>
            /\ decimals \o Zeros(ShownDecimals - Len(decimals)) = millionths
            /\ SubSeq(text, Len(text) - 3, Len(text)) = Unit
            /\ decimals = <<>> => text[n + 1] = Unit[1]
            /\ decimals # <<>> =>
                 text[n + 1] = Dot /\ (decimals[Len(decimals)] # 0 \/ Len(decimals) = ShownDecimals)

WholePart(dec) == IF Len(dec) <= EthDecimals THEN <<0>> ELSE SubSeq(dec, 1, Len(dec) - EthDecimals)

LEMMA IntegerLong ==
    ASSUME NEW dec, NEW l \in Nat, Long(dec, l)
    PROVE  Long(WholePart(dec), IF l <= 18 THEN 1 ELSE l - 18)
<1>1. Len(dec) = l
  BY LongIsSeq
<1>2. CASE l <= 18
  <2>1. Long(<<0>>, 1)
    BY DEF Long
  <2> QED BY <1>1, <1>2, <2>1 DEF WholePart, EthDecimals
<1>3. CASE l > 18
  <2> DEFINE h == l - 18
  <2>1. h \in 0..l /\ WholePart(dec) = SubSeq(dec, 1, h)
    BY <1>1, <1>3 DEF WholePart, EthDecimals
  <2> HIDE DEF h
  <2>2. Long(SubSeq(dec, 1, h), h)
    BY <2>1, SubSeqFromStart
  <2> QED BY <1>3, <2>1, <2>2 DEF h
<1> QED BY <1>2, <1>3

\* The digit behind the point, of the fraction and of the number filled up.
Fraction(dec, l, i) == IF l <= 18 THEN (IF i <= 18 - l THEN 0 ELSE dec[i - (18 - l)]) ELSE dec[(l - 18) + i]

LEMMA FractionLong ==
    ASSUME NEW dec, NEW l \in Nat, Long(dec, l)
    PROVE  Long(FractionDigits(dec), 18) /\ \A i \in 1..18 : FractionDigits(dec)[i] = Fraction(dec, l, i)
<1> DEFINE f == FractionDigits(dec)
<1>1. Len(dec) = l
  BY LongIsSeq
<1>2. CASE l <= 18
  <2> DEFINE z == 18 - l
             zs == Zeros(z)
  <2>1. f = zs \o dec /\ z \in Nat /\ z + l = 18
    BY <1>1, <1>2 DEF FractionDigits, EthDecimals
  <2> HIDE DEF f, z
  <2>2. Long(zs, z) /\ \A i \in 1..z : zs[i] = 0
    BY <2>1, ZerosLong
  <2> HIDE DEF zs
  <2>3. JoinOf(f, zs, z, dec, l)
    BY <2>1, <2>2, JoinIs
  <2>4. Long(f, 18) /\ (\A i \in 1..z : f[i] = 0) /\ \A i \in 1..l : f[z + i] = dec[i]
    BY <2>1, <2>2, <2>3 DEF JoinOf
  <2>5. ASSUME NEW i \in 1..18 PROVE f[i] = IF i <= z THEN 0 ELSE dec[i - z]
    <3>1. CASE i <= z
      BY <2>4, <3>1
    <3>2. CASE i > z
      <4> DEFINE j == i - z
      <4>1. j \in 1..l /\ z + j = i /\ ~(i <= z)
        BY <2>1, <3>2
      <4> HIDE DEF j
      <4>2. f[z + j] = dec[j]
        BY <2>4, <4>1
      <4> QED BY <4>1, <4>2 DEF j
    <3>3. z \in Nat
      BY <2>1
    <3> QED BY <3>1, <3>2, <3>3
  <2> QED BY <1>2, <2>4, <2>5 DEF f, z, Fraction
<1>3. CASE l > 18
  <2> DEFINE lo == l - 18
  <2>1. lo \in Nat /\ l \in lo..l /\ l - lo = 18 /\ f = SubSeq(dec, lo + 1, l)
    BY <1>1, <1>3 DEF FractionDigits, EthDecimals, Slice
  <2> HIDE DEF lo, f
  <2>2. Long(SubSeq(dec, lo + 1, l), l - lo) /\ \A i \in 1..l - lo : SubSeq(dec, lo + 1, l)[i] = dec[lo + i]
    BY <2>1, SubSeqLong
  <2>3. Long(f, 18) /\ \A i \in 1..18 : f[i] = dec[lo + i]
    BY <2>1, <2>2
  <2> QED BY <1>3, <2>3 DEF f, lo, Fraction
<1> QED BY <1>2, <1>3

LEMMA MillionthsAre ==
    ASSUME NEW dec, NEW l \in Nat, Long(dec, l)
    PROVE  LET wei == Zeros(EthDecimals + 1) \o dec
               millionths == SubSeq(wei, Len(wei) - EthDecimals + 1, Len(wei) - EthDecimals + ShownDecimals)
           IN Long(millionths, 6) /\ \A i \in 1..6 : millionths[i] = Fraction(dec, l, i)
<1> DEFINE z == 19
           zs == Zeros(z)
           wei == zs \o dec
           lo == l + 1
           hi == l + 7
           t == SubSeq(wei, lo + 1, hi)
<1>1. z \in Nat /\ z = EthDecimals + 1
  BY DEF EthDecimals
<1> HIDE DEF z
<1>2. Long(zs, z) /\ \A i \in 1..z : zs[i] = 0
  BY <1>1, ZerosLong
<1> HIDE DEF zs
<1>3. JoinOf(wei, zs, z, dec, l)
  BY <1>1, <1>2, JoinIs
<1> HIDE DEF wei
<1>4. /\ Long(wei, z + l) /\ \A i \in 1..z : wei[i] = 0
      /\ \A i \in 1..l : wei[z + i] = dec[i]
  BY <1>2, <1>3 DEF JoinOf
<1>5. Len(wei) = z + l
  BY <1>4, LongIsSeq
<1>6. z = 19
  BY DEF z
<1>7. SubSeq(wei, Len(wei) - EthDecimals + 1, Len(wei) - EthDecimals + ShownDecimals) = t
  BY <1>5, <1>6 DEF EthDecimals, ShownDecimals
<1>8. lo \in Nat /\ hi \in lo..z + l /\ hi - lo = 6
  BY <1>6
<1>9. ASSUME NEW i \in 1..6 PROVE wei[lo + i] = Fraction(dec, l, i)
  <2>1. CASE l + 1 + i <= 19
    <3>1. wei[lo + i] = 0 /\ l <= 18 /\ i <= 18 - l
      BY <1>4, <1>6, <2>1
    <3> QED BY <3>1 DEF Fraction
  <2>2. CASE l + 1 + i > 19
    <3> DEFINE j == l + i - 18
    <3>1. j \in 1..l /\ z + j = lo + i
      BY <1>6, <2>2
    <3>2. wei[lo + i] = dec[j]
      BY <1>4, <3>1
    <3>3. Fraction(dec, l, i) = dec[j]
      <4>1. CASE l <= 18
        <5>1. ~(i <= 18 - l) /\ i - (18 - l) = j
          BY <2>2, <4>1
        <5> QED BY <4>1, <5>1 DEF Fraction
      <4>2. CASE l > 18
        <5>1. (l - 18) + i = j /\ ~(l <= 18)
          BY <4>2
        <5> QED BY <5>1 DEF Fraction
      <4> QED BY <4>1, <4>2
    <3> QED BY <3>2, <3>3
  <2> QED BY <2>1, <2>2
<1> HIDE DEF lo, hi
<1>10. Long(t, hi - lo) /\ \A i \in 1..hi - lo : t[i] = wei[lo + i]
  BY <1>4, <1>8, SubSeqLong
<1> HIDE DEF t
<1>11. Long(t, 6) /\ \A i \in 1..6 : t[i] = Fraction(dec, l, i)
  BY <1>8, <1>9, <1>10
<1> QED BY <1>1, <1>7, <1>11 DEF wei, zs

\* The fraction with its point, of which only the digits that are kept are written.
Behind(frac, kept) == IF kept = 0 THEN <<>> ELSE <<Dot>> \o SubSeq(frac, 1, kept)

LEMMA BehindLong ==
    ASSUME NEW frac, Long(frac, 18), NEW kept \in 0..6
    PROVE  LET q == IF kept = 0 THEN 0 ELSE kept + 1
           IN /\ Long(Behind(frac, kept), q)
              /\ kept # 0 => Behind(frac, kept)[1] = Dot
              /\ \A i \in 1..kept : Behind(frac, kept)[i + 1] = frac[i]
<1>1. CASE kept = 0
  <2>1. Long(<<>>, 0)
    BY EmptyLong
  <2> QED BY <1>1, <2>1 DEF Behind
<1>2. CASE kept # 0
  <2> DEFINE point == <<Dot>>
             digits == SubSeq(frac, 1, kept)
             one == 1
             e == 18
  <2>1. Long(point, one) /\ point[1] = Dot /\ one \in Nat /\ kept \in 0..e /\ Long(frac, e)
    BY DEF Long
  <2> HIDE DEF point, e, one
  <2>2. Long(digits, kept) /\ \A i \in 1..kept : digits[i] = frac[i]
    BY <2>1, SubSeqFromStart
  <2>3. Behind(frac, kept) = point \o digits
    BY <1>2 DEF Behind, point
  <2> HIDE DEF digits
  <2> DEFINE b == Behind(frac, kept)
  <2>4. JoinOf(b, point, one, digits, kept)
    BY <2>1, <2>2, <2>3, JoinIs
  <2> HIDE DEF b
  <2>5. /\ Long(b, one + kept) /\ \A i \in 1..one : b[i] = point[i]
        /\ \A i \in 1..kept : b[one + i] = digits[i]
    BY <2>4 DEF JoinOf
  <2>6. one = 1
    BY DEF one
  <2>7. 1 \in 1..one /\ one + kept = kept + 1 /\ \A i \in 1..kept : one + i = i + 1
    BY <2>6
  <2>8. Long(b, kept + 1) /\ b[1] = Dot
    BY <2>1, <2>5, <2>7
  <2>9. ASSUME NEW i \in 1..kept PROVE b[i + 1] = frac[i]
    BY <2>2, <2>5, <2>7
  <2>10. /\ Long(b, IF kept = 0 THEN 0 ELSE kept + 1) /\ (kept # 0 => b[1] = Dot)
         /\ \A i \in 1..kept : b[i + 1] = frac[i]
    BY <1>2, <2>8, <2>9
  <2> QED BY <2>10 DEF b
<1> QED BY <1>1, <1>2

\* fmt_eth: which digits its buffers hold, the parts of its text, and where its
\* buffer ends.
LEMMA RoomForDigits ==
    ASSUME NEW dec, NEW l \in Nat, Long(dec, l)
    PROVE  EthText(dec).ok = (l < DecRoom)
<1> DEFINE ip == IF Len(dec) <= EthDecimals THEN <<0>> ELSE Slice(dec, 0, Len(dec) - EthDecimals)
           short == l < DecRoom
           full == Len(dec) >= DecRoom \/ Len(ip) >= WholeRoom
           n == IF l <= 18 THEN 1 ELSE l - 18
<1>1. Len(dec) = l
  BY LongIsSeq
<1>2. ip = WholePart(dec)
  BY <1>1 DEF WholePart, Slice
<1>3. Len(ip) = n
  <2>1. Long(WholePart(dec), n)
    BY IntegerLong
  <2> HIDE DEF n, ip
  <2> QED BY <1>2, <2>1, LongIsSeq
<1>4. full <=> ~short
  <2> HIDE DEF ip
  <2> QED BY <1>1, <1>3 DEF DecRoom, WholeRoom
<1>5. EthText(dec).ok = IF full THEN FALSE ELSE TRUE
  BY ZenonT(60) DEF EthText, Overrun
<1> HIDE DEF full
<1>6. short \in BOOLEAN
  OBVIOUS
<1> HIDE DEF short
<1>7. EthText(dec).ok = short
  BY <1>4, <1>5, <1>6
<1> QED BY <1>7 DEF short

LEMMA FmtEthParts ==
    ASSUME NEW dec, NEW l \in Nat, Long(dec, l), l < DecRoom
    PROVE  \E kept \in 0..6 :
             LET frac == FractionDigits(dec)
                 all == (WholePart(dec) \o Behind(frac, kept)) \o Unit
             IN /\ EthText(dec).text = SubSeq(all, 1, IF Len(all) < 24 THEN Len(all) ELSE 23)
                /\ kept = 6 \/ \A i \in kept + 1..18 : frac[i] = 0
                /\ kept = 0 \/ kept = 6 \/ frac[kept] # 0
<1> DEFINE frac == FractionDigits(dec)
           trimmed == CHOOSE m \in 0..Len(frac) : TrimsTo(frac, Len(frac), m)
           kept == IF trimmed > 6 THEN 6 ELSE trimmed
           all == (WholePart(dec) \o Behind(frac, kept)) \o Unit
<1>1. Len(frac) = 18 /\ Len(dec) = l
  BY FractionLong, LongIsSeq
<1>2. trimmed \in 0..18 /\ TrimsTo(frac, 18, trimmed)
  BY <1>1, TrimExists
<1>3. EthText(dec).text = SubSeq(all, 1, IF Len(all) < 24 THEN Len(all) ELSE 23)
  <2>1. WholePart(dec) = IF Len(dec) <= EthDecimals THEN <<0>> ELSE Slice(dec, 0, Len(dec) - EthDecimals)
    BY <1>1 DEF WholePart, Slice
  <2> DEFINE ip == IF Len(dec) <= EthDecimals THEN <<0>> ELSE Slice(dec, 0, Len(dec) - EthDecimals)
             text(k) == ip \o (IF k = 0 THEN <<>> ELSE <<Dot>> \o SubSeq(frac, 1, k)) \o Unit
             k == IF trimmed > ShownDecimals THEN ShownDecimals ELSE trimmed
             cut == SubSeq(text(k), 1, IF Len(text(k)) < TextRoom THEN Len(text(k)) ELSE TextRoom - 1)
             made == [ok |-> TRUE, text |-> cut]
             full == Len(dec) >= DecRoom \/ Len(ip) >= WholeRoom
  <2>2. EthText(dec).text = cut
    <3>1. EthText(dec) = IF full THEN Overrun ELSE made
      BY ZenonT(60) DEF EthText, TrimsTo
    <3>2. EthText(dec).ok
      BY RoomForDigits
    <3> HIDE DEF full, cut
    <3> QED BY <3>1, <3>2 DEF Overrun
  <2>3. k = kept
    BY DEF ShownDecimals
  <2>4. text(k) = all
    <3>0. ip = WholePart(dec)
      BY <2>1
    <3>1. text(k) = text(kept)
      <4> HIDE DEF k, kept, ip, text
      <4> QED BY <2>3
    <3> DEFINE mid == IF kept = 0 THEN <<>> ELSE <<Dot>> \o SubSeq(frac, 1, kept)
    <3>2. mid = Behind(frac, kept)
      BY DEF Behind
    <3>3. text(kept) = (ip \o mid) \o Unit
      OBVIOUS
    <3> HIDE DEF ip, mid, text, k, kept
    <3> QED BY <3>0, <3>1, <3>2, <3>3
  <2> HIDE DEF text, all, k
  <2> QED BY <2>2, <2>4 DEF TextRoom
<1>4. kept \in 0..6
  BY <1>2
<1>5. kept = 6 \/ \A i \in kept + 1..18 : frac[i] = 0
  BY <1>2 DEF TrimsTo
<1>6. kept = 0 \/ kept = 6 \/ frac[kept] # 0
  BY <1>2 DEF TrimsTo
<1> HIDE DEF trimmed, kept
<1> QED BY <1>3, <1>4, <1>5, <1>6

LEMMA AmountReads ==
    ASSUME NEW dec, NEW l \in Nat, Long(dec, l), l < DecRoom
    PROVE  Reads(dec, EthText(dec).text) /\ \E h \in 5..23 : Long(EthText(dec).text, h)
<1> DEFINE text == EthText(dec).text
           frac == FractionDigits(dec)
           integer == WholePart(dec)
           n == IF l <= 18 THEN 1 ELSE l - 18
<1>1. PICK kept \in 0..6 :
         /\ text = SubSeq((integer \o Behind(frac, kept)) \o Unit, 1,
                          IF Len((integer \o Behind(frac, kept)) \o Unit) < 24 THEN Len((integer \o Behind(frac, kept)) \o Unit) ELSE 23)
         /\ kept = 6 \/ \A i \in kept + 1..18 : frac[i] = 0
         /\ kept = 0 \/ kept = 6 \/ frac[kept] # 0
  BY FmtEthParts
<1> DEFINE mid == Behind(frac, kept)
           head == integer \o mid
           all == head \o Unit
           q == IF kept = 0 THEN 0 ELSE kept + 1
           h == IF n + q + 4 < 24 THEN n + q + 4 ELSE 23
<1>2. Long(integer, n) /\ n \in Nat \ {0}
  BY IntegerLong
<1>3. Long(frac, 18) /\ \A i \in 1..18 : frac[i] = Fraction(dec, l, i)
  BY FractionLong
<1> HIDE DEF frac, integer, n
<1>4. Long(mid, q) /\ (kept # 0 => mid[1] = Dot) /\ \A i \in 1..kept : mid[i + 1] = frac[i]
  BY <1>3, BehindLong
<1>5. q \in Nat /\ q <= 7
  OBVIOUS
<1> HIDE DEF mid, q
<1>6. JoinOf(head, integer, n, mid, q)
  BY <1>2, <1>4, <1>5, JoinIs
<1> HIDE DEF head
<1>7. Long(head, n + q) /\ (\A i \in 1..n : head[i] = integer[i]) /\ \A i \in 1..q : head[n + i] = mid[i]
  BY <1>6 DEF JoinOf
<1> DEFINE m == n + q
           four == 4
<1>8. Long(Unit, four) /\ m \in Nat /\ four \in Nat
  BY <1>2, <1>5 DEF Long, Unit
<1> HIDE DEF four
<1>9. JoinOf(all, head, m, Unit, four)
  <2> HIDE DEF m
  <2> QED BY <1>7, <1>8, JoinIs DEF m
<1> HIDE DEF all
<1>10. Long(all, m + four) /\ (\A i \in 1..m : all[i] = head[i]) /\ \A i \in 1..four : all[m + i] = Unit[i]
  BY <1>9 DEF JoinOf
<1>11. Len(all) = m + four /\ four = 4
  BY <1>10, LongIsSeq DEF four
<1>12. text = SubSeq(all, 1, h) /\ h \in 0..m + four /\ h \in 5..23
  <2>1. text = SubSeq(all, 1, IF Len(all) < 24 THEN Len(all) ELSE 23)
    BY <1>1 DEF all, head, mid
  <2> QED BY <1>2, <1>5, <1>11, <2>1
<1> HIDE DEF h, text
<1>13. Long(text, h) /\ \A i \in 1..h : text[i] = all[i]
  BY <1>10, <1>12, SubSeqFromStart
<1>14. Len(text) = h /\ Len(integer) = n
  BY <1>2, <1>13, LongIsSeq
<1>15. h = (IF m + 4 < 24 THEN m + 4 ELSE 23)
  BY DEF h
<1>16. ASSUME NEW i \in 1..n, i <= h PROVE text[i] = integer[i]
  BY <1>2, <1>5, <1>7, <1>10, <1>13, <1>16
<1> DEFINE fits == IF n < TextRoom THEN n ELSE TextRoom - 1
<1>17. SubSeq(text, 1, fits) = SubSeq(integer, 1, fits)
  <2>1. fits \in 0..h /\ fits \in 0..n
    BY <1>2, <1>5, <1>15 DEF TextRoom
  <2> HIDE DEF fits
  <2>2. Long(SubSeq(text, 1, fits), fits) /\ \A i \in 1..fits : SubSeq(text, 1, fits)[i] = text[i]
    BY <1>13, <2>1, SubSeqFromStart
  <2>3. Long(SubSeq(integer, 1, fits), fits) /\ \A i \in 1..fits : SubSeq(integer, 1, fits)[i] = integer[i]
    BY <1>2, <2>1, SubSeqFromStart
  <2>4. ASSUME NEW i \in 1..fits PROVE text[i] = integer[i]
    <3>1. i \in 1..n /\ i <= h
      BY <1>2, <1>12, <2>1
    <3> QED BY <1>16, <3>1
  <2> DEFINE s == SubSeq(text, 1, fits)
             t == SubSeq(integer, 1, fits)
  <2>5. Long(s, fits) /\ Long(t, fits) /\ \A i \in 1..fits : s[i] = t[i]
    BY <2>2, <2>3, <2>4
  <2> HIDE DEF s, t
  <2>6. s = t
    BY <2>5, SameLong
  <2> QED BY <2>6 DEF s, t
<1>18. ASSUME h > n PROVE /\ text[n + 1] \in {Dot, Unit[1]}
                          /\ kept = 0 => text[n + 1] = Unit[1]
                          /\ kept # 0 => text[n + 1] = Dot
  <2>1. n + 1 \in 1..h /\ text[n + 1] = all[n + 1]
    BY <1>2, <1>12, <1>13, <1>18
  <2>2. CASE kept = 0
    <3>1. q = 0 /\ m = n
      BY <1>2, <2>2 DEF q
    <3>2. 1 \in 1..four
      BY <1>11
    <3> QED BY <1>10, <2>1, <2>2, <3>1, <3>2
  <2>3. CASE kept # 0
    <3>1. q \in Nat /\ q >= 1
      BY <1>5, <2>3 DEF q
    <3>2. n + 1 \in 1..m /\ 1 \in 1..q
      BY <1>2, <3>1
    <3>3. head[n + 1] = mid[1]
      BY <1>7, <3>2
    <3> QED BY <1>4, <1>10, <2>1, <2>3, <3>2, <3>3
  <2> QED BY <2>2, <2>3
<1> DEFINE decimals == SubSeq(text, n + 2, h - 4)
           millionths == SubSeq(Zeros(EthDecimals + 1) \o dec,
                                Len(Zeros(EthDecimals + 1) \o dec) - EthDecimals + 1,
                                Len(Zeros(EthDecimals + 1) \o dec) - EthDecimals + ShownDecimals)
<1>19. Long(millionths, 6) /\ \A i \in 1..6 : millionths[i] = frac[i]
  <2>1. Long(millionths, 6) /\ \A i \in 1..6 : millionths[i] = Fraction(dec, l, i)
    BY MillionthsAre
  <2> HIDE DEF millionths
  <2> QED BY <1>3, <2>1
<1> HIDE DEF millionths
<1>20. ASSUME n + 1 + 6 + 4 < 24
       PROVE  /\ Long(decimals, kept) /\ \A i \in 1..kept : decimals[i] = frac[i]
              /\ h = m + 4 /\ h > n
  <2>1. h = m + 4 /\ h > n /\ h \in Nat
    BY <1>2, <1>5, <1>15, <1>20
  <2>2. CASE kept = 0
    <3>1. decimals = <<>>
      <4>1. q = 0
        BY <2>2 DEF q
      <4>2. n + 2 \in Int /\ h - 4 \in Int /\ h - 4 < n + 2
        BY <1>2, <2>1, <4>1
      <4> QED BY <4>2, SubSeqEmpty
    <3> HIDE DEF decimals
    <3> QED BY <2>1, <2>2, <3>1, EmptyLong
  <2>3. CASE kept # 0
    <3> DEFINE lo == n + 1
               hi == n + q
    <3>1. q = kept + 1
      BY <2>3 DEF q
    <3>2. lo \in Nat /\ hi \in lo..h /\ hi - lo = kept /\ decimals = SubSeq(text, lo + 1, hi)
      BY <1>2, <2>1, <2>3, <3>1
    <3>3. \A i \in 1..kept : lo + i \in 1..h /\ lo + i \in 1..m /\ lo + i = n + (i + 1) /\ i + 1 \in 1..q
      BY <1>2, <2>1, <3>1
    <3> HIDE DEF lo, hi, decimals
    <3>4. Long(SubSeq(text, lo + 1, hi), hi - lo) /\ \A i \in 1..hi - lo : SubSeq(text, lo + 1, hi)[i] = text[lo + i]
      BY <1>13, <3>2, SubSeqLong
    <3>5. Long(decimals, kept) /\ \A i \in 1..kept : decimals[i] = text[lo + i]
      BY <3>2, <3>4
    <3>6. ASSUME NEW i \in 1..kept PROVE text[lo + i] = frac[i]
      <4>1. text[lo + i] = all[lo + i] /\ all[lo + i] = head[lo + i]
        BY <1>10, <1>13, <3>3
      <4>2. head[lo + i] = mid[i + 1]
        BY <1>7, <3>3
      <4> QED BY <1>4, <4>1, <4>2
    <3> QED BY <2>1, <3>5, <3>6
  <2> QED BY <2>2, <2>3
<1>21. ASSUME n + 1 + 6 + 4 < 24
       PROVE  /\ Len(decimals) = kept /\ decimals \o Zeros(6 - kept) = millionths
              /\ decimals = <<>> => kept = 0
              /\ kept = 0 => decimals = <<>>
              /\ kept # 0 => decimals[kept] # 0 \/ kept = 6
  <2>1. Long(decimals, kept) /\ \A i \in 1..kept : decimals[i] = frac[i]
    BY <1>20, <1>21
  <2> HIDE DEF decimals
  <2>2. Len(decimals) = kept
    BY <2>1, LongIsSeq
  <2> DEFINE z == 6 - kept
             zs == Zeros(z)
             joined == decimals \o zs
  <2>3. z \in Nat /\ kept + z = 6 /\ kept \in Nat
    OBVIOUS
  <2> HIDE DEF z
  <2>4. Long(zs, z) /\ \A i \in 1..z : zs[i] = 0
    BY <2>3, ZerosLong
  <2> HIDE DEF zs
  <2>5. JoinOf(joined, decimals, kept, zs, z)
    BY <2>1, <2>3, <2>4, JoinIs
  <2> HIDE DEF joined
  <2>6. Long(joined, 6) /\ (\A i \in 1..kept : joined[i] = decimals[i]) /\ \A i \in 1..z : joined[kept + i] = zs[i]
    BY <2>3, <2>5 DEF JoinOf
  <2>7. ASSUME NEW i \in 1..6 PROVE joined[i] = millionths[i]
    <3>1. CASE i <= kept
      <4>1. i \in 1..kept
        BY <3>1
      <4> QED BY <1>19, <2>1, <2>6, <4>1
    <3>2. CASE i > kept
      <4> DEFINE j == i - kept
      <4>1. j \in 1..z /\ kept + j = i /\ i \in kept + 1..18 /\ kept # 6
        BY <2>3, <3>2
      <4> HIDE DEF j
      <4>2. joined[kept + j] = 0
        BY <2>4, <2>6, <4>1
      <4>3. frac[i] = 0
        BY <1>1, <4>1 DEF frac
      <4> QED BY <1>19, <4>1, <4>2, <4>3
    <3> QED BY <3>1, <3>2
  <2>8. joined = millionths
    BY <1>19, <2>6, <2>7, SameLong
  <2>9. decimals = <<>> => kept = 0
    <3>1. Len(<<>>) = 0
      OBVIOUS
    <3> QED BY <2>2, <3>1
  <2>10. kept = 0 => decimals = <<>>
    <3>1. ASSUME kept = 0 PROVE decimals = <<>>
      <4>1. Long(decimals, 0) /\ Long(<<>>, 0)
        BY <2>1, <3>1, EmptyLong
      <4> QED BY <4>1 DEF Long
    <3> QED BY <3>1
  <2>11. kept # 0 => decimals[kept] # 0 \/ kept = 6
    <3>1. ASSUME kept # 0 PROVE decimals[kept] = frac[kept]
      BY <2>1, <2>3, <3>1
    <3>2. kept = 0 \/ kept = 6 \/ frac[kept] # 0
      BY <1>1 DEF frac
    <3> QED BY <3>1, <3>2
  <2> QED BY <2>2, <2>8, <2>9, <2>10, <2>11 DEF joined, zs, z
<1>22. ASSUME n + 1 + 6 + 4 < 24 PROVE SubSeq(text, h - 3, h) = Unit
  <2> DEFINE lo == m
             t == SubSeq(text, lo + 1, h)
  <2>1. h = lo + 4 /\ lo \in Nat /\ h \in lo..h /\ h - lo = four /\ h - 3 = lo + 1
    BY <1>8, <1>11, <1>20, <1>22
  <2>2. \A i \in 1..four : lo + i \in 1..h
    BY <1>11, <2>1
  <2> HIDE DEF lo
  <2>3. Long(t, h - lo) /\ \A i \in 1..h - lo : t[i] = text[lo + i]
    BY <1>13, <2>1, SubSeqLong
  <2> HIDE DEF t
  <2>4. Long(t, four) /\ \A i \in 1..four : t[i] = text[lo + i]
    BY <2>1, <2>3
  <2>5. \A i \in 1..four : t[i] = Unit[i]
    BY <1>10, <1>13, <2>2, <2>4 DEF lo
  <2>6. t = Unit
    BY <1>8, <2>4, <2>5, SameLong
  <2> QED BY <2>1, <2>6 DEF t
<1> HIDE DEF decimals, m
<1>23. Reads(dec, text)
  <2>1. Len(Unit) = 4 /\ TextRoom = 24 /\ ShownDecimals = 6
    BY DEF Unit, TextRoom, ShownDecimals
  <2>2. Len(text) < TextRoom
    BY <1>12, <1>14, <2>1
  <2>3. Len(text) > Len(integer) => text[Len(integer) + 1] \in {Dot, Unit[1]}
    BY <1>14, <1>18
  <2>4. ASSUME Len(integer) + 1 + ShownDecimals + Len(Unit) < TextRoom
        PROVE  LET ds == SubSeq(text, Len(integer) + 2, Len(text) - Len(Unit))
               IN /\ ds \o Zeros(ShownDecimals - Len(ds)) = millionths
                  /\ SubSeq(text, Len(text) - 3, Len(text)) = Unit
                  /\ ds = <<>> => text[Len(integer) + 1] = Unit[1]
                  /\ ds # <<>> => text[Len(integer) + 1] = Dot /\ (ds[Len(ds)] # 0 \/ Len(ds) = ShownDecimals)
    <3>1. n + 1 + 6 + 4 < 24
      BY <1>14, <2>1, <2>4
    <3>2. SubSeq(text, Len(integer) + 2, Len(text) - Len(Unit)) = decimals
      BY <1>14, <2>1 DEF decimals
    <3>3. h > n
      BY <1>20, <3>1
    <3>4. decimals \o Zeros(ShownDecimals - Len(decimals)) = millionths
      BY <1>21, <2>1, <3>1
    <3>5. SubSeq(text, Len(text) - 3, Len(text)) = Unit
      BY <1>14, <1>22, <3>1
    <3>6. decimals = <<>> => text[Len(integer) + 1] = Unit[1]
      BY <1>14, <1>18, <1>21, <3>1, <3>3
    <3>7. decimals # <<>> => text[Len(integer) + 1] = Dot /\ (decimals[Len(decimals)] # 0 \/ Len(decimals) = ShownDecimals)
      BY <1>14, <1>18, <1>21, <2>1, <3>1, <3>3
    <3> QED BY <3>2, <3>4, <3>5, <3>6, <3>7
  <2>5. SubSeq(text, 1, IF Len(integer) < TextRoom THEN Len(integer) ELSE TextRoom - 1)
          = SubSeq(integer, 1, IF Len(integer) < TextRoom THEN Len(integer) ELSE TextRoom - 1)
    BY <1>14, <1>17
  <2> HIDE DEF text
  <2> QED BY <2>2, <2>3, <2>4, <2>5, Zenon DEF Reads, integer, WholePart, millionths
<1> QED BY <1>12, <1>13, <1>23 DEF text

-----------------------------------------------------------------------------
(* Numbers and their digits.                                                *)

\* One turn of the loop of u64_dec.
LEMMA DecimalTurn ==
    ASSUME NEW c, NEW x
    PROVE  Turned("decimal", 0, c, x) = DigitPrinted(c)
BY TurnedIs

LEMMA U64DecChained ==
    ASSUME NEW v, v # 0, NEW B
    PROVE  U64Dec(v) = Chained("decimal", 0, [v |-> v, text |-> <<>>], B, 10).text
<1> DEFINE s0 == [v |-> v, text |-> <<>>]
           Step(s, i) == IF s.v = 0 THEN s ELSE [v |-> s.v \div 10, text |-> <<s.v % 10>> \o s.text]
           l == 10
           size == IF l <= 36 THEN 6 ELSE IF l <= 144 THEN 12 ELSE 48
           m == (l + size - 1) \div size
           V(s, from, k, f) == f = [i \in 0..k |-> IF i = 0 THEN s ELSE CHOOSE r \in {Step(u, from + i) : u \in {f[i - 1]}} : TRUE]
           Inner(s, from, k) == (CHOOSE f : V(s, from, k, f))[k]
           Turn(s, t) == Inner(s, size * (t - 1), IF size * t <= l THEN size ELSE l - size * (t - 1))
           W(f) == f = [t \in 0..m |-> IF t = 0 THEN s0 ELSE CHOOSE r \in {Turn(s, 0 + t) : s \in {f[t - 1]}} : TRUE]
<1>1. U64Dec(v) = (CHOOSE f : W(f))[m].text
  BY DEF U64Dec, Iterate, Loop
<1>2. l = 10 /\ l \in Nat
  OBVIOUS
<1>3. size \in {6, 12, 48}
  OBVIOUS
<1>4. ASSUME NEW s, NEW i PROVE Step(s, i) = Turned("decimal", 0, s, B[i])
  BY DecimalTurn DEF DigitPrinted
<1> HIDE DEF Step, l, size, s0
<1>5. ASSUME NEW s, NEW from \in Nat, NEW k \in Nat
      PROVE  Inner(s, from, k) = Chained("decimal", 0, s, After(B, from), k)
  <2> DEFINE C == After(B, from)
  <2>1. ASSUME NEW i \in 1..k PROVE C[i] = B[from + i]
    BY DEF After
  <2> HIDE DEF C
  <2>2. ASSUME NEW f PROVE V(s, from, k, f) <=> Chain(f, "decimal", 0, s, C, k)
    <3>1. ASSUME NEW i \in 1..k
          PROVE  (CHOOSE r \in {Step(u, from + i) : u \in {f[i - 1]}} : TRUE) = Turned("decimal", 0, f[i - 1], C[i])
      <4>1. (CHOOSE r \in {Step(u, from + i) : u \in {f[i - 1]}} : TRUE) = Step(f[i - 1], from + i)
        OBVIOUS
      <4> QED BY <1>4, <2>1, <4>1
    <3> QED BY <3>1 DEF Chain
  <2> HIDE DEF V
  <2>3. (CHOOSE f : V(s, from, k, f)) = CHOOSE f : Chain(f, "decimal", 0, s, C, k)
    BY <2>2
  <2> QED BY <2>3 DEF Chained, C
<1> HIDE DEF Inner
<1>6. m \in Nat
  BY <1>2, <1>3
<1>7. ASSUME NEW s, NEW t \in 1..m PROVE Turn(s, t) = Turns("decimal", 0, B, size, l, s, t)
  <2> DEFINE k == Stint(size, l, t)
             from == size * (t - 1)
  <2>1. k \in Nat /\ from \in Nat /\ Turn(s, t) = Inner(s, from, k)
    <3> USE <1>3
    <3> QED BY <1>2, <1>6 DEF Stint
  <2> HIDE DEF k, from
  <2> QED BY <1>5, <2>1 DEF Turns, from, k
<1> HIDE DEF Turn
<1>8. ASSUME NEW f PROVE W(f) <=> Outer(f, "decimal", 0, s0, B, size, l, m)
  <2> HIDE DEF m
  <2>1. ASSUME NEW t \in 1..m
        PROVE  (CHOOSE r \in {Turn(s, 0 + t) : s \in {f[t - 1]}} : TRUE) = Turns("decimal", 0, B, size, l, f[t - 1], t)
    <3>1. (CHOOSE r \in {Turn(s, 0 + t) : s \in {f[t - 1]}} : TRUE) = Turn(f[t - 1], t)
      BY <1>6
    <3> QED BY <1>7, <3>1
  <2> QED BY <1>6, <2>1 DEF Outer
<1>9. m = (l + size - 1) \div size
  OBVIOUS
<1> HIDE DEF W, m
<1>10. (CHOOSE f : W(f)) = CHOOSE f : Outer(f, "decimal", 0, s0, B, size, l, m)
  BY <1>8
<1>11. OuterEnd("decimal", 0, s0, B, size, l, m) = Chained("decimal", 0, s0, B, l)
  BY <1>2, <1>3, <1>6, <1>9, OuterIs
<1> QED BY <1>1, <1>2, <1>10, <1>11 DEF OuterEnd, s0

Counter(v, text) == [v |-> v, text |-> text]

LEMMA CounterFields ==
    ASSUME NEW v, NEW text
    PROVE  Counter(v, text).v = v /\ Counter(v, text).text = text
BY DEF Counter

\* One turn of u64_dec: the last digit of what is left moves to the text.
LEMMA DigitMoves ==
    ASSUME NEW a \in Nat, NEW d \in 0..9, NEW text, 10 * a + d # 0
    PROVE  Turned("decimal", 0, Counter(10 * a + d, text), d) = Counter(a, <<d>> \o text)
<1> DEFINE v == 10 * a + d
           c == Counter(v, text)
<1>1. v \div 10 = a /\ v % 10 = d /\ v # 0
  OBVIOUS
<1> HIDE DEF v
<1>2. c.v = v /\ c.text = text
  BY CounterFields
<1> HIDE DEF c
<1>3. Turned("decimal", 0, c, d) = IF c.v = 0 THEN c ELSE [v |-> c.v \div 10, text |-> <<c.v % 10>> \o c.text]
  BY DecimalTurn DEF DigitPrinted
<1> QED BY <1>1, <1>2, <1>3 DEF Counter, c, v

LEMMA DigitPrepends ==
    ASSUME NEW dec, NEW n \in Nat, Long(dec, n), NEW k \in 1..n
    PROVE  <<dec[k]>> \o SubSeq(dec, k + 1, n) = SubSeq(dec, k, n)
<1> DEFINE lo == k - 1
           b == SubSeq(dec, k + 1, n)
           a == <<dec[k]>>
           s == a \o b
           t == SubSeq(dec, k, n)
           one == 1
           rest == n - k
<1>1. lo \in Nat /\ n \in lo..n /\ n - lo = rest + 1 /\ lo + 1 = k /\ k \in Nat /\ n \in k..n /\ rest \in Nat /\ one \in Nat
  OBVIOUS
<1>2. Long(a, one) /\ a[one] = dec[k]
  BY DEF Long
<1>3. Long(b, rest) /\ \A i \in 1..rest : b[i] = dec[k + i]
  BY <1>1, SubSeqLong
<1> DEFINE u == SubSeq(dec, lo + 1, n)
<1>4. u = t
  BY <1>1
<1> HIDE DEF lo, u
<1>5. Long(u, n - lo) /\ \A i \in 1..n - lo : u[i] = dec[lo + i]
  BY <1>1, SubSeqLong DEF u
<1>6. Long(t, rest + 1) /\ \A i \in 1..rest + 1 : t[i] = dec[lo + i]
  BY <1>1, <1>4, <1>5
<1> HIDE DEF a, b, t, one, rest
<1>7. JoinOf(s, a, one, b, rest)
  BY <1>1, <1>2, <1>3, JoinIs
<1> HIDE DEF s
<1>8. Long(s, one + rest) /\ (\A i \in 1..one : s[i] = a[i]) /\ \A i \in 1..rest : s[one + i] = b[i]
  BY <1>7 DEF JoinOf
<1>9. one + rest = rest + 1 /\ one = 1
  BY <1>1 DEF one
<1>10. ASSUME NEW i \in 1..rest + 1 PROVE s[i] = t[i]
  <2>1. CASE i = 1
    <3>1. s[1] = dec[k] /\ t[1] = dec[lo + 1]
      BY <1>1, <1>2, <1>6, <1>8, <1>9, <2>1
    <3> QED BY <1>1, <2>1, <3>1
  <2>2. CASE i # 1
    <3> DEFINE j == i - 1
    <3>1. j \in 1..rest /\ one + j = i /\ k + j = lo + i
      BY <1>1, <1>9, <2>2
    <3> HIDE DEF j
    <3>2. s[one + j] = b[j] /\ b[j] = dec[k + j]
      BY <1>3, <1>8, <3>1
    <3> QED BY <1>6, <3>1, <3>2
  <2> QED BY <2>1, <2>2
<1>11. s = t
  <2> DEFINE l == rest + 1
  <2>1. Long(s, l) /\ Long(t, l) /\ \A i \in 1..l : s[i] = t[i]
    BY <1>6, <1>8, <1>9, <1>10
  <2> HIDE DEF l
  <2> QED BY <2>1, SameLong
<1> QED BY <1>11 DEF s, a, b, t

\* u64_dec prints the digits of a number that is not zero and has up to ten.
LEMMA DigitsPrinted ==
    ASSUME NEW dec, NEW n \in 1..9, Long(dec, n), \A i \in 1..n : dec[i] \in 0..9, dec[1] # 0
    PROVE  U64Dec(Number(dec, 10)) = dec
<1> DEFINE N(k) == Chained("number", 10, 0, dec, k)
<1>1. N(0) = 0
  BY ChainedNone
<1>2. ASSUME NEW k \in Nat PROVE N(k + 1) = N(k) * 10 + dec[k + 1]
  <2> DEFINE s == N(k)
             ten == 10
             x == dec[k + 1]
  <2>1. N(k + 1) = Turned("number", ten, s, x)
    BY ChainedOnce
  <2> HIDE DEF s, ten, x, N
  <2>2. Turned("number", ten, s, x) = s * ten + x
    BY TurnedIs DEF DigitTaken
  <2> QED BY <2>1, <2>2 DEF s, ten, x
<1>3. Len(dec) = n /\ n \in Nat
  <2>1. Len(dec) = n
    BY LongIsSeq
  <2> QED BY <2>1
<1>4. Number(dec, 10) = N(n)
  BY <1>3, NumberChained
<1> HIDE DEF N
<1> DEFINE T == {k \in Nat : k <= n => N(k) \in Nat /\ (k # 0 => N(k) # 0)}
<1>5. 0 \in T
  BY <1>1
<1>6. ASSUME NEW k \in Nat, k \in T PROVE k + 1 \in T
  <2>1. SUFFICES ASSUME k + 1 <= n PROVE N(k + 1) \in Nat /\ N(k + 1) # 0
    OBVIOUS
  <2>2. N(k) \in Nat /\ (k # 0 => N(k) # 0)
    BY <1>6, <2>1
  <2>3. dec[k + 1] \in 0..9 /\ (k = 0 => dec[k + 1] # 0)
    BY <2>1
  <2> DEFINE a == N(k)
             d == dec[k + 1]
  <2>4. N(k + 1) = a * 10 + d
    BY <1>2
  <2>5. a \in Nat /\ d \in 0..9 /\ (k # 0 => a # 0) /\ (k = 0 => d # 0)
    BY <2>2, <2>3
  <2> HIDE DEF a, d
  <2> QED BY <2>4, <2>5
<1> HIDE DEF T
<1>7. Nat \subseteq T
  BY <1>5, <1>6, Induction
<1>8. \A k \in 0..n : N(k) \in Nat /\ (k # 0 => N(k) # 0)
  BY <1>7 DEF T
<1> DEFINE B == [i \in 1..10 |-> IF i <= n THEN dec[n + 1 - i] ELSE 0]
           D(k) == Chained("decimal", 0, Counter(N(n), <<>>), B, k)
           left(k) == SubSeq(dec, n - k + 1, n)
<1>9. D(0) = Counter(N(n), <<>>)
  BY ChainedNone
<1> HIDE DEF B
<1>10. ASSUME NEW k \in 0..9 PROVE D(k + 1) = Turned("decimal", 0, D(k), B[k + 1])
  <2> DEFINE s0 == Counter(N(n), <<>>)
  <2>1. k \in Nat
    OBVIOUS
  <2> HIDE DEF s0
  <2> QED BY <2>1, ChainedOnce
<1>11. \A k \in 0..n - 1 : B[k + 1] = dec[n - k]
  BY DEF B
<1>12. left(0) = <<>> /\ left(n) = dec
  <2>1. n + 1 \in Int /\ n \in Int /\ n < n + 1 /\ n - 0 + 1 = n + 1 /\ n - n + 1 = 1
    OBVIOUS
  <2>2. SubSeq(dec, n + 1, n) = <<>>
    BY <2>1, SubSeqEmpty
  <2>3. Long(SubSeq(dec, 1, n), n) /\ \A i \in 1..n : SubSeq(dec, 1, n)[i] = dec[i]
    <3>1. n \in 0..n /\ n \in Nat
      OBVIOUS
    <3> QED BY <3>1, SubSeqFromStart
  <2>4. SubSeq(dec, 1, n) = dec
    BY <2>3, SameLong
  <2> QED BY <2>1, <2>2, <2>4
<1> HIDE DEF D, left
<1> DEFINE S == {k \in Nat : (k <= n => D(k) = Counter(N(n - k), left(k))) /\ (k \in n..10 => D(k) = Counter(0, dec))}
<1>13. 0 \in S
  BY <1>9, <1>12
<1>14. ASSUME NEW k \in Nat, k \in S PROVE k + 1 \in S
  <2>1. CASE k + 1 <= n
    <3> DEFINE j == n - k - 1
               a == N(j)
               d == dec[n - k]
    <3>1. j \in Nat /\ j + 1 = n - k /\ n - (k + 1) = j /\ j \in 0..n /\ k \in 0..9 /\ k \in 0..n - 1 /\ k <= n
      BY <2>1
    <3>2. N(n - k) = a * 10 + d /\ a \in Nat /\ d \in 0..9
      BY <1>2, <1>8, <3>1
    <3>3. N(n - k) # 0
      BY <1>8, <3>1
    <3>4. D(k) = Counter(N(n - k), left(k))
      BY <1>14, <3>1
    <3>5. D(k + 1) = Turned("decimal", 0, Counter(N(n - k), left(k)), d)
      BY <1>10, <1>11, <3>1, <3>4
    <3>6. <<d>> \o left(k) = left(k + 1)
      <4> DEFINE i == n - k
      <4>1. i \in 1..n /\ n - k + 1 = i + 1 /\ n - (k + 1) + 1 = i /\ n \in Nat
        BY <3>1
      <4>2. left(k) = SubSeq(dec, i + 1, n) /\ left(k + 1) = SubSeq(dec, i, n)
        BY <4>1 DEF left
      <4> HIDE DEF i
      <4>3. <<dec[i]>> \o SubSeq(dec, i + 1, n) = SubSeq(dec, i, n)
        BY <4>1, DigitPrepends
      <4> QED BY <4>2, <4>3 DEF i
    <3> HIDE DEF a, d
    <3>7. N(n - k) = 10 * a + d /\ 10 * a + d # 0
      BY <3>2, <3>3
    <3>8. Turned("decimal", 0, Counter(10 * a + d, left(k)), d) = Counter(a, <<d>> \o left(k))
      BY <3>2, <3>7, DigitMoves
    <3>9. D(k + 1) = Counter(N(n - (k + 1)), left(k + 1))
      BY <3>1, <3>5, <3>6, <3>7, <3>8 DEF a
    <3>10. k + 1 = n => Counter(N(n - (k + 1)), left(k + 1)) = Counter(0, dec)
      BY <1>1, <1>12
    <3>11. k + 1 \in n..10 => D(k + 1) = Counter(0, dec)
      <4>1. k + 1 \in n..10 => k + 1 = n
        BY <2>1
      <4> QED BY <3>9, <3>10, <4>1
    <3> QED BY <3>9, <3>11
  <2>2. CASE k + 1 > n
    <3>1. ~(k + 1 <= n)
      BY <2>2
    <3>2. ASSUME k + 1 \in n..10 PROVE D(k + 1) = Counter(0, dec)
      <4>1. k \in n..10 /\ k \in 0..9
        BY <2>2, <3>2
      <4>2. D(k) = Counter(0, dec)
        BY <1>14, <4>1
      <4> DEFINE c == Counter(0, dec)
                 x == B[k + 1]
      <4>3. c.v = 0
        BY CounterFields
      <4>4. D(k + 1) = Turned("decimal", 0, c, x)
        BY <1>10, <4>1, <4>2
      <4> HIDE DEF c, x
      <4>5. Turned("decimal", 0, c, x) = c
        BY <4>3, DecimalTurn DEF DigitPrinted
      <4> QED BY <4>4, <4>5 DEF c
    <3> QED BY <3>1, <3>2
  <2> QED BY <2>1, <2>2
<1> HIDE DEF S
<1>15. Nat \subseteq S
  BY <1>13, <1>14, Induction
<1>16. D(10) = Counter(0, dec)
  <2>1. 10 \in S /\ 10 \in n..10
    BY <1>15
  <2> QED BY <2>1 DEF S
<1>17. N(n) # 0
  BY <1>8
<1>18. U64Dec(N(n)) = Chained("decimal", 0, Counter(N(n), <<>>), B, 10).text
  BY <1>17, U64DecChained DEF Counter
<1>19. U64Dec(N(n)) = D(10).text
  BY <1>18 DEF D
<1> QED BY <1>4, <1>16, <1>19, CounterFields

-----------------------------------------------------------------------------
(* Sessions whose end compares: what they were asked, and the theorems.     *)

\* A number that is not zero, in decimal.
WrittenOut(dec) ==
    \E n \in Nat \ {0} : Long(dec, n) /\ (\A i \in 1..n : dec[i] \in 0..9) /\ dec[1] # 0

\* What the sessions that end in a comparison, or show an amount, were asked.
Asked ==
    /\ "of" \in DOMAIN session
    /\ session.of = "hasher" => session.type \in HasherTypes /\ session.m \in Nat /\ session.more \in Nat
    /\ session.of = "mac" => session.key \in KeyLengths /\ session.m \in Pieces /\ session.more \in Pieces
    /\ session.of = "pbkdf2" => session.salt \in Pieces /\ session.iterations \in Nat \ {0} /\ session.len \in Nat
    /\ session.of = "amount" => WrittenOut(session.dec)

LEMMA DigitsWritten ==
    ASSUME NEW kind \in {"round", "nines", "mixed", "ends"}, NEW n \in Nat \ {0}
    PROVE  WrittenOut([i \in 1..n |-> Digit0(kind, i, n)])
<1> DEFINE dec == [i \in 1..n |-> Digit0(kind, i, n)]
<1>1. ASSUME NEW i \in 1..n PROVE dec[i] \in 0..9 /\ (i = 1 => dec[i] # 0)
  BY DEF Digit0
<1>2. Long(dec, n) /\ 1 \in 1..n
  BY DEF Long
<1> HIDE DEF dec
<1>3. WrittenOut(dec)
  BY <1>1, <1>2 DEF WrittenOut
<1> QED BY <1>3 DEF dec

LEMMA AskedFromStart == Start => Asked'
<1> DEFINE Other == "of" \in DOMAIN session' /\ session'.of \notin {"hasher", "mac", "pbkdf2", "amount"}
<1>1. Other => Asked'
  BY DEF Asked
<1>2. Numeric \/ Scale \/ Sign => Other
  BY DEF Numeric, Scale, Sign
<1>3. StreamSha \/ StreamSha3 \/ Rounds => Other
  <2>1. StreamSha => Other
    BY DEF StreamSha
  <2>2. StreamSha3 => Other
    BY DEF StreamSha3
  <2>3. Rounds => Other
    BY DEF Rounds
  <2> QED BY <2>1, <2>2, <2>3
<1>4. Seed => Other
  BY DEF Seed
<1>5. WriteSignature \/ WritePayload => Other
  BY DEF WriteSignature, WritePayload
<1>6. Propose => Other
  BY DEF Propose
<1>7. DeriveChild \/ MakePhrase => Other
  BY DEF DeriveChild, MakePhrase
<1>8. KeepNodes \/ KeepSeeds => Other
  BY DEF KeepNodes, KeepSeeds
<1> HIDE DEF Other
<1>9. Use => Asked'
  BY StreamsAssumption DEF Use, Asked, HasherTypes
<1>10. Authenticate => Asked'
  BY StreamsAssumption DEF Authenticate, Asked
<1>12. Derive => Asked'
  <2> SUFFICES ASSUME Derive PROVE Asked'
    OBVIOUS
  <2>1. PICK n \in Pieces, k \in {1, 2, 3, 6}, len \in Amounts :
            session' = [of |-> "pbkdf2", salt |-> n, iterations |-> k, len |-> len]
    BY DEF Derive
  <2>2. k \in Nat \ {0} /\ len \in Nat
    BY StreamsAssumption
  <2> QED BY <2>1, <2>2 DEF Asked
<1>11. ShowAmount => Asked'
  <2>1. SUFFICES ASSUME NEW n \in DigitCounts, NEW kind \in {"round", "nines", "mixed", "ends"},
                        session' = [of |-> "amount", dec |-> [i \in 1..n |-> Digit0(kind, i, n)]]
                 PROVE  Asked'
    BY DEF ShowAmount
  <2> DEFINE dec == [i \in 1..n |-> Digit0(kind, i, n)]
  <2>2. n \in Nat \ {0}
    BY FormatsAssumption
  <2>3. WrittenOut(dec)
    BY <2>2, DigitsWritten
  <2> HIDE DEF dec
  <2>4. session' = [of |-> "amount", dec |-> dec]
    BY <2>1 DEF dec
  <2>5. session'.of = "amount" /\ session'.dec = dec /\ "of" \in DOMAIN session'
    BY <2>4
  <2> QED BY <2>3, <2>5 DEF Asked
<1> QED BY <1>1, <1>2, <1>3, <1>4, <1>5, <1>6, <1>7, <1>8, <1>9, <1>10, <1>11, <1>12 DEF Start

LEMMA AskedFromContinue == Asked /\ Continue => Asked'
<1> SUFFICES ASSUME Asked, Continue PROVE Asked'
  OBVIOUS
<1> DEFINE Same == session'.of = session.of /\ DOMAIN session' = DOMAIN session /\ session.of \notin {"hasher", "mac", "pbkdf2", "amount"}
<1>1. Same => Asked'
  BY DEF Asked
<1>2. ASSUME NEW n \in Pieces, Feed(n) PROVE Same
  BY <1>2 DEF Feed, Asked
<1>3. ASSUME NEW n \in Amounts, Generate(n) PROVE Same
  BY <1>3 DEF Generate, Asked
<1>4. ASSUME NEW root \in Roots, NEW path \in Paths, DerivePath(root, path) PROVE Same
  BY <1>4 DEF DerivePath, Asked
<1>5. ASSUME NEW mnemonic \in Phrases, NEW passphrase \in Phrases, MakeSeed(mnemonic, passphrase) PROVE Same
  BY <1>5 DEF MakeSeed, Asked
<1>6. ASSUME ClearCache PROVE Same
  BY <1>6 DEF ClearCache, Asked
<1> HIDE DEF Same
<1> QED BY <1>1, <1>2, <1>3, <1>4, <1>5, <1>6 DEF Continue

LEMMA AskedAlways == Spec => []Asked
<1>1. Init => Asked
  BY DEF Init, Asked, Idle
<1>2. Asked /\ [Next]_session => Asked'
  <2> SUFFICES ASSUME Asked, [Next]_session PROVE Asked'
    OBVIOUS
  <2>1. CASE End
    BY <2>1 DEF End, Idle, Asked
  <2>2. CASE UNCHANGED session
    BY <2>2 DEF Asked
  <2> QED BY <2>1, <2>2, AskedFromStart, AskedFromContinue DEF Next
<1> QED BY <1>1, <1>2, PTL DEF Spec

LEMMA AskedMeansReused == Asked => HasherReused
<1> SUFFICES ASSUME Asked, session.of = "hasher" PROVE HasherReused
  BY DEF HasherReused
<1> DEFINE type == session.type
           n == session.m
           k == session.more
           init == InitialState(Sha256)
           p == Message(9, BlockLength)
           midstate == Squeeze(Squeezed, init, LanesOf(p))
           m == Message(0, n)
           more == Message(n, k)
           d == m \o more
           Fed(h, data) == HasherUpdate(Squeezed, Stirred, h, data)
           used == Fed(HasherInitParam(type, <<>>, midstate), more)
           again == HasherFinal(Squeezed, Stirred, Fed(Fed(HasherReset(used, midstate), m), more))
<1>1. type \in HasherTypes /\ n \in Nat /\ k \in Nat
  BY DEF Asked
<1> HIDE DEF type, n, k
<1>2. Long(m, n) /\ Long(more, k) /\ Long(p, BlockLength)
  BY <1>1, MessageLong, BlockSizes
<1>3. Long(d, n + k)
  BY <1>2, JoinLong
<1> HIDE DEF init, p, midstate, m, more
<1>4. /\ again = HasherRaw(Squeezed, Stirred, type, midstate, d)
      /\ type = "SHA2D" => again = ShaOf(Squeezed, InitialState(Sha256), ShaOf(Squeezed, InitialState(Sha256), d, 0, 8), 0, 8)
      /\ type = "SHA2_TAPSIGHASH" => again = ShaOf(Squeezed, midstate, d, 8 * BlockLength, 8)
      /\ type = "SHA3K" => again = SpongeOf(Stirred, Sha3_256_Init, d, 1)
  BY <1>1, <1>2, HasherAgain
<1> HIDE DEF again
<1>5. type = "SHA2_TAPSIGHASH" => again = HashOf(p \o m \o more)
  <2>1. p \o m \o more = p \o d
    BY <1>2, JoinsAssociate
  <2> HIDE DEF d
  <2>2. ShaOf(Squeezed, midstate, d, 8 * BlockLength, 8) = ShaOf(Squeezed, init, p \o d, 0, 8)
    BY <1>2, <1>3, BehindBlock DEF midstate
  <2> QED BY <1>4, <2>1, <2>2 DEF HashOf, init
<1>6. type = "SHA2D" => again = HashOf(HashOf(d))
  BY <1>4 DEF HashOf
<1> QED BY <1>4, <1>5, <1>6 DEF HasherReused, again, midstate, init, p, m, more, type, n, k, Squeeze

\* A hasher that is reset and used again gives what a fresh one gives, for every
\* type, every compression and permutation and data of any length; behind a
\* first block it hashes as if that block had come first.
THEOREM HashersResetHolds == Spec => HashersReset
<1>1. Asked => (End => HasherReused)
  BY AskedMeansReused
<1>2. Asked /\ [Next]_session => [End => HasherReused]_session
  BY <1>1
<1> QED BY <1>2, AskedAlways, PTL DEF Spec, HashersReset

LEMMA AskedMeansCut == Asked => AmountCut
<1> SUFFICES ASSUME Asked, session.of = "amount" PROVE AmountCut
  BY DEF AmountCut
<1> DEFINE dec == session.dec
           made == EthText(dec)
           text == made.text
<1>1. PICK l \in Nat \ {0} : Long(dec, l) /\ (\A i \in 1..l : dec[i] \in 0..9) /\ dec[1] # 0
  BY DEF Asked, WrittenOut
<1> HIDE DEF dec
<1>2. Len(dec) = l
  BY <1>1, LongIsSeq
<1>3. l <= 9 => U64Dec(Number(dec, 10)) = dec
  <2>1. ASSUME l <= 9 PROVE U64Dec(Number(dec, 10)) = dec
    <3>1. l \in 1..9
      BY <2>1
    <3> QED BY <1>1, <3>1, DigitsPrinted
  <2> QED BY <2>1
<1>4. Len(dec) <= 9 => U64Dec(Number(dec, 10)) = dec
  BY <1>2, <1>3
<1>5. made.ok = (Len(dec) < DecRoom)
  BY <1>1, <1>2, RoomForDigits
<1>6. CASE ~made.ok
  <2> HIDE DEF made
  <2> QED BY <1>4, <1>5, <1>6 DEF AmountCut, made, dec
<1>7. l < DecRoom \/ ~made.ok
  <2> HIDE DEF made
  <2> QED BY <1>2, <1>5
<1> SUFFICES ASSUME l < DecRoom PROVE AmountCut
  BY <1>6, <1>7
<1>8. Reads(dec, text) /\ \E h \in 5..23 : Long(text, h)
  BY <1>1, AmountReads
<1> HIDE DEF text
<1>9. PICK h \in 5..23 : Long(text, h)
  BY <1>8
<1> DEFINE shown == UpdateScreen(ReviewValue(text))
           n == Len(text)
<1>10. n = h /\ n \in Nat \ {0} /\ Long(text, n)
  <2>1. n = h
    BY <1>9, LongIsSeq
  <2> QED BY <1>9, <2>1
<1> HIDE DEF n
<1>11. /\ (\A i \in 1..n : AmountPixels(text, i) \subseteq shown) <=> n <= 10
       /\ \A i \in 1..n : AmountPixels(text, i) \cap Around = {}
       /\ shown \ Around \subseteq AmountArea(text, n)
  BY <1>10, AmountDrawn
<1> HIDE DEF shown
<1>12. (\A i \in 1..n : AmountPixels(text, i) \subseteq shown) = (n <= 10)
  <2> DEFINE all == \A i \in 1..n : AmountPixels(text, i) \subseteq shown
             short == n <= 10
  <2>1. all <=> short
    BY <1>11
  <2>2. all \in BOOLEAN /\ short \in BOOLEAN
    OBVIOUS
  <2> HIDE DEF all, short
  <2>3. all = short
    BY <2>1, <2>2
  <2> QED BY <2>3 DEF all, short
<1> QED BY <1>4, <1>5, <1>8, <1>11, <1>12 DEF AmountCut, Reads, AmountPixels, AmountArea, Around, shown, n, text, made, dec

\* Whatever the digits of an amount are, fmt_eth holds them exactly if there are
\* fewer than 80; it says nothing of an amount with more, which the parser does not
\* refuse and which overruns be_dec first (main.c:174).  What the text then holds
\* is the integer part as far as it fits and after it, if at all, a point or the
\* unit; where it fits the fraction is cut and never rounded; and the panel shows
\* all of the text, clear of title and hints, exactly up to ten characters.
THEOREM AmountCutHolds == Spec => []AmountCut
<1>1. Asked => AmountCut
  BY AskedMeansCut
<1> QED BY <1>1, AskedAlways, PTL

-----------------------------------------------------------------------------
(* The generator of nonces, request by request.                             *)

LEMMA MessageOctets ==
    ASSUME NEW i \in Nat, NEW n \in Nat, NEW a \in Pieces \cup KeyLengths \cup {9}, NEW b \in Pieces \cup {0}, i + n <= 100 + a + b
    PROVE  Octets(Message(i, n), n)
<1>1. a \in Nat /\ b \in Nat
  BY StreamsAssumption
<1>2. \A k \in 1..100 + a + b : MessageBytes[k] \in 0..255
  BY StreamsAssumption
<1>3. ASSUME NEW j \in 1..n PROVE Message(i, n)[j] \in 0..255
  <2>1. i + j \in 1..100 + a + b
    BY <1>1
  <2>2. Message(i, n)[j] = MessageBytes[i + j]
    BY MessageLong
  <2> QED BY <1>2, <2>1, <2>2
<1>4. Long(Message(i, n), n)
  BY MessageLong
<1> QED BY <1>3, <1>4 DEF Octets

LEMMA HmacHereIs ==
    ASSUME NEW key, NEW m
    PROVE  HmacHere(key, m) = HmacBy(Squeezed, key, m)
BY DEF HmacHere, HmacBy, HmacOf, HashOf, HashBy

LEMMA OutputHere ==
    ASSUME NEW kv, NEW len
    PROVE  DrbgOutputOf(HmacHere, kv, len) = DrbgOutputOf(LAMBDA k, m : HmacBy(Squeezed, k, m), kv, len)
BY DEF DrbgOutputOf, DrbgUpdateOf, HmacHere, HmacBy, HmacOf, HashOf, HashBy

LEMMA DrbgHere ==
    ASSUME NEW seed
    PROVE  DrbgOf(HmacHere, seed) = DrbgOf(LAMBDA k, m : HmacBy(Squeezed, k, m), seed)
BY DEF DrbgOf, DrbgUpdateOf, HmacHere, HmacBy, HmacOf, HashOf, HashBy

LEMMA OutputFields ==
    ASSUME NEW F, NEW s, NEW len
    PROVE  Output(F, s, len) = [kv |-> Output(F, s, len).kv, out |-> Output(F, s, len).out]
BY DEF Output, DrbgOutputOf

LEMMA OutputChained ==
    ASSUME NEW start, NEW asked, NEW n \in Nat, n = Len(asked)
    PROVE  Iterate(LAMBDA s, i : DrbgOutputOf(HmacHere, s.kv, asked[i]), [kv |-> start, out |-> <<>>], Len(asked)) = Chained("output", Squeezed, [kv |-> start, out |-> <<>>], asked, n)
<1> DEFINE Step(s, i) == DrbgOutputOf(HmacHere, s.kv, asked[i])
           l == Len(asked)
           size == IF l <= 36 THEN 6 ELSE IF l <= 144 THEN 12 ELSE 48
           m == (l + size - 1) \div size
           V(s, from, k, f) == f = [i \in 0..k |-> IF i = 0 THEN s ELSE CHOOSE r \in {Step(u, from + i) : u \in {f[i - 1]}} : TRUE]
           Inner(s, from, k) == (CHOOSE f : V(s, from, k, f))[k]
           Turn(s, t) == Inner(s, size * (t - 1), IF size * t <= l THEN size ELSE l - size * (t - 1))
           W(f) == f = [t \in 0..m |-> IF t = 0 THEN [kv |-> start, out |-> <<>>] ELSE CHOOSE r \in {Turn(s, 0 + t) : s \in {f[t - 1]}} : TRUE]
<1>1. Iterate(LAMBDA s, i : DrbgOutputOf(HmacHere, s.kv, asked[i]), [kv |-> start, out |-> <<>>], Len(asked)) = (CHOOSE f : W(f))[m]
  BY DEF Iterate, Loop
<1>2. l = n /\ l \in Nat
  OBVIOUS
<1>3. size \in {6, 12, 48}
  OBVIOUS
<1>4. ASSUME NEW s, NEW i PROVE Step(s, i) = Turned("output", Squeezed, s, asked[i])
  <2>1. Step(s, i) = Output(Squeezed, s, asked[i])
    BY OutputHere DEF Output
  <2> HIDE DEF Step
  <2> QED BY <2>1, TurnedIs
<1> HIDE DEF Step, l, size
<1>5. ASSUME NEW s, NEW from \in Nat, NEW k \in Nat
      PROVE  Inner(s, from, k) = Chained("output", Squeezed, s, After(asked, from), k)
  <2> DEFINE C == After(asked, from)
  <2>1. ASSUME NEW i \in 1..k PROVE C[i] = asked[from + i]
    BY DEF After
  <2> HIDE DEF C
  <2>2. ASSUME NEW f PROVE V(s, from, k, f) <=> Chain(f, "output", Squeezed, s, C, k)
    <3>1. ASSUME NEW i \in 1..k
          PROVE  (CHOOSE r \in {Step(u, from + i) : u \in {f[i - 1]}} : TRUE) = Turned("output", Squeezed, f[i - 1], C[i])
      <4>1. (CHOOSE r \in {Step(u, from + i) : u \in {f[i - 1]}} : TRUE) = Step(f[i - 1], from + i)
        OBVIOUS
      <4> QED BY <1>4, <2>1, <4>1
    <3> QED BY <3>1 DEF Chain
  <2> HIDE DEF V
  <2>3. (CHOOSE f : V(s, from, k, f)) = CHOOSE f : Chain(f, "output", Squeezed, s, C, k)
    BY <2>2
  <2> QED BY <2>3 DEF Chained, C
<1> HIDE DEF Inner
<1>6. m \in Nat
  BY <1>2, <1>3
<1>7. ASSUME NEW s, NEW t \in 1..m PROVE Turn(s, t) = Turns("output", Squeezed, asked, size, l, s, t)
  <2> DEFINE k == Stint(size, l, t)
             from == size * (t - 1)
  <2>1. k \in Nat /\ from \in Nat /\ Turn(s, t) = Inner(s, from, k)
    <3> USE <1>3
    <3> QED BY <1>2, <1>6 DEF Stint
  <2> HIDE DEF k, from
  <2> QED BY <1>5, <2>1 DEF Turns, from, k
<1> HIDE DEF Turn
<1>8. ASSUME NEW f PROVE W(f) <=> Outer(f, "output", Squeezed, [kv |-> start, out |-> <<>>], asked, size, l, m)
  <2> HIDE DEF m
  <2>1. ASSUME NEW t \in 1..m
        PROVE  (CHOOSE r \in {Turn(s, 0 + t) : s \in {f[t - 1]}} : TRUE) = Turns("output", Squeezed, asked, size, l, f[t - 1], t)
    <3>1. (CHOOSE r \in {Turn(s, 0 + t) : s \in {f[t - 1]}} : TRUE) = Turn(f[t - 1], t)
      BY <1>6
    <3> QED BY <1>7, <3>1
  <2> QED BY <1>6, <2>1 DEF Outer
<1>9. m = (l + size - 1) \div size
  OBVIOUS
<1> HIDE DEF W, m
<1>10. (CHOOSE f : W(f)) = CHOOSE f : Outer(f, "output", Squeezed, [kv |-> start, out |-> <<>>], asked, size, l, m)
  BY <1>8
<1>11. OuterEnd("output", Squeezed, [kv |-> start, out |-> <<>>], asked, size, l, m) = Chained("output", Squeezed, [kv |-> start, out |-> <<>>], asked, l)
  BY <1>2, <1>3, <1>6, <1>9, OuterIs
<1> QED BY <1>1, <1>2, <1>10, <1>11 DEF OuterEnd

\* What the generator and its definition keep after the same requests.
DrbgSession(asked, ctx, out) == [of |-> "drbg", asked |-> asked, ctx |-> ctx, out |-> out]
Defined(asked) == Chained("output", Squeezed, [kv |-> DrbgOf(HmacHere, Message(0, 8)), out |-> <<>>], asked, Len(asked))

Generating(s) ==
    \E asked \in Seq(Nat) : \E key : \E v \in Eight : \E out :
        /\ Octets(key, DigestLength)
        /\ s = DrbgSession(asked, Drbg(Squeezed, key, v), out)
        /\ Defined(asked) = [kv |-> KV(key, v), out |-> out]

GeneratorKept == "of" \in DOMAIN session /\ (session.of = "drbg" => Generating(session))

Requested(s, n, ctx, out) == [s EXCEPT !.asked = Append(@, n), !.ctx = ctx, !.out = out]

LEMMA SessionAsked ==
    ASSUME NEW asked, NEW ctx, NEW out, NEW n, NEW c, NEW o
    PROVE  Requested(DrbgSession(asked, ctx, out), n, c, o) = DrbgSession(Append(asked, n), c, o)
<1> DEFINE a == Append(asked, n)
           s == [DrbgSession(asked, ctx, out) EXCEPT !.asked = a, !.ctx = c, !.out = o]
<1>1. Requested(DrbgSession(asked, ctx, out), n, c, o) = s
  BY DEF Requested, DrbgSession
<1> HIDE DEF a
<1>2. /\ DOMAIN s = {"of", "asked", "ctx", "out"} /\ s = [i \in DOMAIN s |-> s[i]]
      /\ s.of = "drbg" /\ s.asked = a /\ s.ctx = c /\ s.out = o
  BY DEF DrbgSession
<1> HIDE DEF s
<1>3. s = DrbgSession(a, c, o)
  BY <1>2 DEF DrbgSession
<1> QED BY <1>1, <1>3 DEF a

LEMMA DefinedOnward ==
    ASSUME NEW asked \in Seq(Nat), NEW n \in Nat
    PROVE  Defined(Append(asked, n)) = Output(Squeezed, Defined(asked), n) /\ Append(asked, n) \in Seq(Nat)
<1> DEFINE s0 == [kv |-> DrbgOf(HmacHere, Message(0, 8)), out |-> <<>>]
           l == Len(asked)
           more == Append(asked, n)
<1>1. l \in Nat /\ Len(more) = l + 1 /\ more \in Seq(Nat) /\ more[l + 1] = n /\ \A i \in 1..l : asked[i] = more[i]
  OBVIOUS
<1>2. Defined(more) = Chained("output", Squeezed, s0, more, Len(more)) /\ Defined(asked) = Chained("output", Squeezed, s0, asked, l)
  BY DEF Defined
<1> HIDE DEF s0, l, more
<1>3. Chained("output", Squeezed, s0, more, l + 1) = Turned("output", Squeezed, Chained("output", Squeezed, s0, more, l), more[l + 1])
  BY <1>1, ChainedOnce
<1>4. Chained("output", Squeezed, s0, more, l) = Chained("output", Squeezed, s0, asked, l)
  BY <1>1, ChainedAgree
<1>5. Turned("output", Squeezed, Defined(asked), n) = Output(Squeezed, Defined(asked), n)
  BY TurnedIs
<1> QED BY <1>1, <1>2, <1>3, <1>4, <1>5 DEF more

LEMMA GeneratingFromSeed == Compresses(Squeezed) /\ Seed => Generating(session')
<1> SUFFICES ASSUME Compresses(Squeezed), Seed PROVE Generating(session')
  OBVIOUS
<1> DEFINE priv == Message(0, 4)
           hash == Message(4, 4)
           s0 == [kv |-> DrbgOf(HmacHere, Message(0, 8)), out |-> <<>>]
           nil == <<>>
           four == 4
<1>1. Octets(priv, four) /\ Octets(hash, four) /\ four \in Nat \ {0}
  <2>1. 9 \in Pieces \cup KeyLengths \cup {9} /\ 0 \in Pieces \cup {0} /\ 0 + 4 <= 100 + 9 + 0 /\ 4 + 4 <= 100 + 9 + 0
    OBVIOUS
  <2>2. Octets(Message(0, 4), 4)
    BY <2>1, MessageOctets
  <2>3. Octets(Message(4, 4), 4)
    BY <2>1, MessageOctets
  <2> QED BY <2>2, <2>3
<1>2. priv \o hash = Message(0, 8)
  <2>1. Message(0, 4) \o Message(0 + 4, 4) = Message(0, 4 + 4)
    BY MessageJoins
  <2> QED BY <2>1
<1>3. hash \in Seq(Nat)
  <2>1. hash = [j \in 1..4 |-> hash[j]] /\ \A j \in 1..4 : hash[j] \in 0..255
    BY <1>1 DEF Octets, Long
  <2> HIDE DEF hash
  <2>2. hash \in [1..4 -> Nat]
    <3>1. \A j \in 1..4 : hash[j] \in Nat
      BY <2>1
    <3> QED BY <2>1, <3>1
  <2> QED BY <2>2, SeqDef
<1>4. session' = DrbgSession(<<>>, HmacDrbgInit(Squeezed, priv, hash), <<>>)
  <2>1. [h \in Seq(Nat) |-> h][hash] = hash
    BY <1>3
  <2>2. InitRfc6979(Squeezed, priv, hash, [h \in Seq(Nat) |-> h]) = HmacDrbgInit(Squeezed, priv, hash)
    BY <2>1 DEF InitRfc6979
  <2>3. session' = DrbgSession(<<>>, InitRfc6979(Squeezed, priv, hash, [h \in Seq(Nat) |-> h]), <<>>)
    BY DEF Seed, DrbgSession
  <2> QED BY <2>2, <2>3
<1> HIDE DEF priv, hash, four
<1>5. PICK new : \E w \in Eight :
          /\ Octets(new, DigestLength)
          /\ HmacDrbgInit(Squeezed, priv, hash) = Drbg(Squeezed, new, w)
          /\ Seeded(Squeezed, priv \o hash) = KV(new, w)
  BY <1>1, DrbgInitIs
<1>6. PICK w \in Eight :
          /\ Octets(new, DigestLength)
          /\ HmacDrbgInit(Squeezed, priv, hash) = Drbg(Squeezed, new, w)
          /\ Seeded(Squeezed, priv \o hash) = KV(new, w)
  BY <1>5
<1>7. DrbgOf(HmacHere, Message(0, 8)) = KV(new, w)
  BY <1>2, <1>6, DrbgHere DEF Seeded
<1>8. Defined(nil) = s0
  <2>1. Chained("output", Squeezed, s0, nil, 0) = s0
    BY ChainedNone
  <2>2. Len(nil) = 0
    OBVIOUS
  <2> QED BY <2>1, <2>2 DEF Defined
<1>9. Defined(nil) = [kv |-> KV(new, w), out |-> nil]
  BY <1>7, <1>8
<1>10. session' = DrbgSession(nil, Drbg(Squeezed, new, w), nil) /\ nil \in Seq(Nat)
  <2>1. session' = DrbgSession(nil, Drbg(Squeezed, new, w), nil)
    BY <1>4, <1>6
  <2>2. nil \in Seq(Nat)
    OBVIOUS
  <2> QED BY <2>1, <2>2
<1> HIDE DEF nil
<1> QED BY <1>6, <1>9, <1>10 DEF Generating

LEMMA GeneratingOnward ==
    ASSUME Compresses(Squeezed), "of" \in DOMAIN session, Generating(session), NEW n \in Nat, Generate(n)
    PROVE  Generating(session')
<1> PICK asked \in Seq(Nat) : \E key : \E v \in Eight : \E out :
        /\ Octets(key, DigestLength)
        /\ session = DrbgSession(asked, Drbg(Squeezed, key, v), out)
        /\ Defined(asked) = [kv |-> KV(key, v), out |-> out]
  BY DEF Generating
<1> PICK key : \E v \in Eight : \E out :
        /\ Octets(key, DigestLength)
        /\ session = DrbgSession(asked, Drbg(Squeezed, key, v), out)
        /\ Defined(asked) = [kv |-> KV(key, v), out |-> out]
  OBVIOUS
<1> PICK v \in Eight : \E out :
        /\ Octets(key, DigestLength)
        /\ session = DrbgSession(asked, Drbg(Squeezed, key, v), out)
        /\ Defined(asked) = [kv |-> KV(key, v), out |-> out]
  OBVIOUS
<1> PICK out :
        /\ Octets(key, DigestLength)
        /\ session = DrbgSession(asked, Drbg(Squeezed, key, v), out)
        /\ Defined(asked) = [kv |-> KV(key, v), out |-> out]
  OBVIOUS
<1> DEFINE ctx == Drbg(Squeezed, key, v)
           made == HmacDrbgGenerate(Squeezed, ctx, n)
           defined == DrbgOutputOf(LAMBDA k, d : HmacBy(Squeezed, k, d), KV(key, v), n)
           more == Append(asked, n)
<1>1. GenerateRight(Squeezed, key, v, n)
  BY GenerateIs
<1>2. made.out = defined.out /\ \E new : \E w \in Eight : Octets(new, DigestLength) /\ made.ctx = Drbg(Squeezed, new, w) /\ defined.kv = KV(new, w)
  BY <1>1 DEF GenerateRight
<1>3. Defined(more) = Output(Squeezed, Defined(asked), n) /\ more \in Seq(Nat)
  BY DefinedOnward
<1>4. Defined(asked).kv = KV(key, v)
  OBVIOUS
<1>5. Output(Squeezed, Defined(asked), n) = defined
  BY <1>4 DEF Output
<1>6. Defined(more) = [kv |-> defined.kv, out |-> defined.out]
  BY <1>3, <1>5, OutputFields
<1>7. session' = DrbgSession(more, made.ctx, made.out)
  <2>1. session.ctx = ctx
    BY DEF DrbgSession
  <2>2. GenerateRfc6979(Squeezed, session.ctx, n) = made
    BY <2>1 DEF GenerateRfc6979
  <2>3. session' = Requested(session, n, made.ctx, made.out)
    <3> HIDE DEF made
    <3> QED BY <2>2 DEF Generate, Requested
  <2> HIDE DEF made, ctx
  <2> QED BY <2>3, SessionAsked DEF ctx
<1> HIDE DEF made, defined, more, ctx
<1> PICK new : \E w \in Eight : Octets(new, DigestLength) /\ made.ctx = Drbg(Squeezed, new, w) /\ defined.kv = KV(new, w)
  BY <1>2
<1> PICK w \in Eight : Octets(new, DigestLength) /\ made.ctx = Drbg(Squeezed, new, w) /\ defined.kv = KV(new, w)
  OBVIOUS
<1>8. session' = DrbgSession(more, Drbg(Squeezed, new, w), made.out) /\ Defined(more) = [kv |-> KV(new, w), out |-> made.out]
  BY <1>2, <1>6, <1>7
<1> QED BY <1>3, <1>8 DEF Generating

LEMMA GeneratorFromStart == Compresses(Squeezed) /\ Start => GeneratorKept'
<1> SUFFICES ASSUME Compresses(Squeezed), Start PROVE GeneratorKept'
  OBVIOUS
<1> DEFINE Other == "of" \in DOMAIN session' /\ session'.of # "drbg"
<1>1. Other => GeneratorKept'
  BY DEF GeneratorKept
<1>2. Numeric \/ Scale \/ Sign => Other
  BY DEF Numeric, Scale, Sign
<1>3. StreamSha \/ StreamSha3 \/ Rounds => Other
  <2>1. StreamSha => Other
    BY DEF StreamSha
  <2>2. StreamSha3 => Other
    BY DEF StreamSha3
  <2>3. Rounds => Other
    BY DEF Rounds
  <2> QED BY <2>1, <2>2, <2>3
<1>4. Authenticate \/ Derive \/ Use => Other
  BY DEF Authenticate, Derive, Use
<1>5. WriteSignature \/ WritePayload => Other
  BY DEF WriteSignature, WritePayload
<1>6. Propose \/ ShowAmount => Other
  BY DEF Propose, ShowAmount
<1>7. DeriveChild \/ MakePhrase => Other
  BY DEF DeriveChild, MakePhrase
<1>8. KeepNodes \/ KeepSeeds => Other
  BY DEF KeepNodes, KeepSeeds
<1> HIDE DEF Other
<1>9. Seed => GeneratorKept'
  <2>1. Seed => "of" \in DOMAIN session'
    BY DEF Seed
  <2> QED BY <2>1, GeneratingFromSeed DEF GeneratorKept
<1> QED BY <1>1, <1>2, <1>3, <1>4, <1>5, <1>6, <1>7, <1>8, <1>9 DEF Start

LEMMA GeneratorFromContinue == Compresses(Squeezed) /\ GeneratorKept /\ Continue => GeneratorKept'
<1> SUFFICES ASSUME Compresses(Squeezed), GeneratorKept, Continue PROVE GeneratorKept'
  OBVIOUS
<1> DEFINE Other == session'.of = session.of /\ DOMAIN session' = DOMAIN session /\ session.of # "drbg"
<1>1. Other => GeneratorKept'
  BY DEF GeneratorKept
<1>2. ASSUME NEW n \in Pieces, Feed(n) PROVE Other
  BY <1>2 DEF Feed, GeneratorKept
<1>3. ASSUME NEW n \in Amounts, Generate(n) PROVE GeneratorKept'
  <2>1. session.of = "drbg" /\ session'.of = session.of /\ DOMAIN session' = DOMAIN session
    BY <1>3 DEF Generate, GeneratorKept
  <2>2. n \in Nat
    BY StreamsAssumption
  <2>3. Generating(session) /\ "of" \in DOMAIN session
    BY <2>1 DEF GeneratorKept
  <2>4. Generating(session')
    BY <1>3, <2>2, <2>3, GeneratingOnward
  <2> QED BY <2>1, <2>3, <2>4 DEF GeneratorKept
<1>4. ASSUME NEW root \in Roots, NEW path \in Paths, DerivePath(root, path) PROVE Other
  BY <1>4 DEF DerivePath, GeneratorKept
<1>5. ASSUME NEW mnemonic \in Phrases, NEW passphrase \in Phrases, MakeSeed(mnemonic, passphrase) PROVE Other
  BY <1>5 DEF MakeSeed, GeneratorKept
<1>6. ASSUME ClearCache PROVE Other
  BY <1>6 DEF ClearCache, GeneratorKept
<1> HIDE DEF Other
<1> QED BY <1>1, <1>2, <1>3, <1>4, <1>5, <1>6 DEF Continue

LEMMA KeptMeansNonces == GeneratorKept => NoncesAsDefined
<1> SUFFICES ASSUME GeneratorKept, session.of = "drbg", session.asked # <<>>
             PROVE  LET start == DrbgOf(HmacHere, Message(0, 8))
                        end == Iterate(LAMBDA s, i : DrbgOutputOf(HmacHere, s.kv, session.asked[i]),
                                       [kv |-> start, out |-> <<>>], Len(session.asked))
                    IN session.out = end.out
  BY DEF NoncesAsDefined
<1> DEFINE start == DrbgOf(HmacHere, Message(0, 8))
<1>1. PICK asked \in Seq(Nat) : \E key : \E v \in Eight : \E out :
        session = DrbgSession(asked, Drbg(Squeezed, key, v), out) /\ Defined(asked) = [kv |-> KV(key, v), out |-> out]
  BY DEF GeneratorKept, Generating
<1>2. PICK key : \E v \in Eight : \E out :
        session = DrbgSession(asked, Drbg(Squeezed, key, v), out) /\ Defined(asked) = [kv |-> KV(key, v), out |-> out]
  BY <1>1
<1>3. PICK v \in Eight : \E out :
        session = DrbgSession(asked, Drbg(Squeezed, key, v), out) /\ Defined(asked) = [kv |-> KV(key, v), out |-> out]
  BY <1>2
<1>4. session.asked = asked /\ session.out = Defined(asked).out
  BY <1>3 DEF DrbgSession
<1>5. Len(session.asked) \in Nat
  BY <1>4
<1>6. Iterate(LAMBDA s, i : DrbgOutputOf(HmacHere, s.kv, session.asked[i]), [kv |-> start, out |-> <<>>], Len(session.asked))
        = Chained("output", Squeezed, [kv |-> start, out |-> <<>>], session.asked, Len(session.asked))
  <2> HIDE DEF start
  <2> QED BY <1>5, OutputChained
<1>7. Defined(session.asked) = Chained("output", Squeezed, [kv |-> start, out |-> <<>>], session.asked, Len(session.asked))
  BY DEF Defined
<1>8. session.out = Defined(session.asked).out
  BY <1>4
<1> QED BY <1>6, <1>7, <1>8

\* For every compression of words, and requests of any length, the generator of
\* nonces gives what HMAC_DRBG over HMAC of whole messages gives, from the same
\* seed and after the same requests.
THEOREM NoncesAsDefinedHolds ==
    ASSUME Compresses(Squeezed)
    PROVE  Spec => []NoncesAsDefined
<1>1. Init => GeneratorKept
  BY DEF Init, GeneratorKept, Idle
<1>2. GeneratorKept /\ [Next]_session => GeneratorKept'
  <2> SUFFICES ASSUME GeneratorKept, [Next]_session PROVE GeneratorKept'
    OBVIOUS
  <2>1. CASE End
    BY <2>1 DEF End, Idle, GeneratorKept
  <2>2. CASE UNCHANGED session
    BY <2>2 DEF GeneratorKept
  <2> QED BY <2>1, <2>2, GeneratorFromStart, GeneratorFromContinue DEF Next
<1>3. GeneratorKept => NoncesAsDefined
  BY KeptMeansNonces
<1> QED BY <1>1, <1>2, <1>3, PTL DEF Spec

-----------------------------------------------------------------------------
(* Message authentication codes.                                            *)

LEMMA AskedMeansMacs == Compresses(Squeezed) /\ Asked => MacsComputed
<1> SUFFICES ASSUME Compresses(Squeezed), Asked, session.of = "mac" PROVE MacsComputed
  BY DEF MacsComputed
<1> DEFINE n == session.m
           l == session.more
           k == session.key
           key == Message(100, k)
           m == Message(0, n)
           more == Message(n, l)
           d == m \o more
           Continued(state, data) == ShaFinal(Squeezed, ShaUpdate(Squeezed, Resumed(state, BlockLength), data), 8)
           prepared == HmacSha256Prepare(Squeezed, key)
<1>1. k \in KeyLengths /\ k \in Nat /\ n \in Nat /\ l \in Nat
  BY StreamsAssumption DEF Asked
<1> HIDE DEF n, l, k
<1>2. Octets(key, k) /\ Long(key, k)
  <2>1. k \in Pieces \cup KeyLengths \cup {9} /\ 0 \in Pieces \cup {0} /\ 100 + k <= 100 + k + 0
    BY <1>1
  <2>2. Octets(key, k)
    BY <1>1, <2>1, MessageOctets
  <2> QED BY <2>2 DEF Octets
<1>3. Long(m, n) /\ Long(more, l)
  BY <1>1, MessageLong
<1>4. Long(d, n + l)
  BY <1>3, JoinLong
<1> HIDE DEF key, m, more
<1>5. HmacFinal(Squeezed, Sha256Init, HmacUpdate(Squeezed, HmacUpdate(Squeezed, HmacInit(Squeezed, Sha256Init, key), m), more)) = HmacHere(key, d)
  BY <1>2, <1>3, HmacFed, HmacHereIs
<1> DEFINE e == n + l
<1> HIDE DEF d, e
<1>6. Long(d, e)
  BY <1>4 DEF e
<1>7. HmacSha256(Squeezed, key, d) = HmacHere(key, d)
  BY <1>2, <1>6, HmacOnce, HmacHereIs DEF HmacSha256
<1>8. HmacSha512(Squeezed, key, d) = HmacHere(key, d)
  <2>1. Sha512Init = Sha256Init
    <3>1. Sha512.lanes = 8 /\ Sha256.lanes = 8
      BY DEF Sha512, Sha256
    <3>2. InitialState(Sha512) = InitialState(Sha256)
      BY <3>1 DEF InitialState
    <3> QED BY <3>2 DEF Sha512Init, Sha256Init
  <2> QED BY <1>2, <1>6, <2>1, HmacOnce, HmacHereIs DEF HmacSha512
<1>9. prepared.odig = KeyedState(Squeezed, key, OuterPad) /\ prepared.idig = KeyedState(Squeezed, key, InnerPad)
  <2>1. prepared = [odig |-> KeyedState(Squeezed, key, OuterPad), idig |-> KeyedState(Squeezed, key, InnerPad)]
    BY <1>2, PreparedIs DEF HmacSha256Prepare
  <2> QED BY <2>1
<1> HIDE DEF prepared
<1>10. Continued(prepared.odig, Continued(prepared.idig, d)) = HmacHere(key, d)
  BY <1>2, <1>6, <1>9, HmacResumed, HmacHereIs
<1> QED BY <1>5, <1>7, <1>8, <1>10 DEF MacsComputed, prepared, d, key, m, more, n, l, k

\* HMAC fed in two pieces, at once, and continued from its prepared states is
\* HMAC of the whole message, for every compression of words and every length
\* of key and pieces.
THEOREM MacsRightHolds ==
    ASSUME Compresses(Squeezed)
    PROVE  Spec => MacsRight
<1>1. Asked => (End => MacsComputed)
  BY AskedMeansMacs
<1>2. Asked /\ [Next]_session => [End => MacsComputed]_session
  BY <1>1
<1> QED BY <1>2, AskedAlways, PTL DEF Spec, MacsRight

-----------------------------------------------------------------------------
(* Key derivation.                                                          *)

LEMMA PbkdfHere ==
    ASSUME NEW pass, NEW salt, NEW iterations, NEW len
    PROVE  Pbkdf2Of(HmacHere, pass, salt, iterations, len) = PbkdfBy(Squeezed, pass, salt, iterations, len)
BY DEF PbkdfBy, Pbkdf2Of, HmacHere, HmacBy, HmacOf, HashOf, HashBy

LEMMA SpreadChained ==
    ASSUME NEW begun, NEW n, NEW B, B = [i \in Nat |-> n], NEW three \in Nat, three = 3
    PROVE  Iterate(LAMBDA s, i : Pbkdf2Update(Squeezed, s, n), begun, 3) = Chained("spread", Squeezed, begun, B, three)
<1> DEFINE Step(s, i) == Pbkdf2Update(Squeezed, s, n)
           l == 3
           size == IF l <= 36 THEN 6 ELSE IF l <= 144 THEN 12 ELSE 48
           m == (l + size - 1) \div size
           V(s, from, k, f) == f = [i \in 0..k |-> IF i = 0 THEN s ELSE CHOOSE r \in {Step(u, from + i) : u \in {f[i - 1]}} : TRUE]
           Inner(s, from, k) == (CHOOSE f : V(s, from, k, f))[k]
           Turn(s, t) == Inner(s, size * (t - 1), IF size * t <= l THEN size ELSE l - size * (t - 1))
           W(f) == f = [t \in 0..m |-> IF t = 0 THEN begun ELSE CHOOSE r \in {Turn(s, 0 + t) : s \in {f[t - 1]}} : TRUE]
<1>1. Iterate(LAMBDA s, i : Pbkdf2Update(Squeezed, s, n), begun, 3) = (CHOOSE f : W(f))[m]
  BY DEF Iterate, Loop
<1>2. l = three /\ l \in Nat
  OBVIOUS
<1>3. size \in {6, 12, 48}
  OBVIOUS
<1>4. ASSUME NEW s, NEW i \in Nat PROVE Step(s, i) = Turned("spread", Squeezed, s, B[i])
  <2>1. B[i] = n
    OBVIOUS
  <2> QED BY <2>1, TurnedIs
<1> HIDE DEF Step, l, size
<1>5. ASSUME NEW s, NEW from \in Nat, NEW k \in Nat
      PROVE  Inner(s, from, k) = Chained("spread", Squeezed, s, After(B, from), k)
  <2> DEFINE C == After(B, from)
  <2>1. ASSUME NEW i \in 1..k PROVE C[i] = B[from + i]
    BY DEF After
  <2> HIDE DEF C
  <2>2. ASSUME NEW f PROVE V(s, from, k, f) <=> Chain(f, "spread", Squeezed, s, C, k)
    <3>1. ASSUME NEW i \in 1..k
          PROVE  (CHOOSE r \in {Step(u, from + i) : u \in {f[i - 1]}} : TRUE) = Turned("spread", Squeezed, f[i - 1], C[i])
      <4>1. (CHOOSE r \in {Step(u, from + i) : u \in {f[i - 1]}} : TRUE) = Step(f[i - 1], from + i)
        OBVIOUS
      <4> QED BY <1>4, <2>1, <4>1
    <3> QED BY <3>1 DEF Chain
  <2> HIDE DEF V
  <2>3. (CHOOSE f : V(s, from, k, f)) = CHOOSE f : Chain(f, "spread", Squeezed, s, C, k)
    BY <2>2
  <2> QED BY <2>3 DEF Chained, C
<1> HIDE DEF Inner
<1>6. m \in Nat
  BY <1>2, <1>3
<1>7. ASSUME NEW s, NEW t \in 1..m PROVE Turn(s, t) = Turns("spread", Squeezed, B, size, l, s, t)
  <2> DEFINE k == Stint(size, l, t)
             from == size * (t - 1)
  <2>1. k \in Nat /\ from \in Nat /\ Turn(s, t) = Inner(s, from, k)
    <3> USE <1>3
    <3> QED BY <1>2, <1>6 DEF Stint
  <2> HIDE DEF k, from
  <2> QED BY <1>5, <2>1 DEF Turns, from, k
<1> HIDE DEF Turn
<1>8. ASSUME NEW f PROVE W(f) <=> Outer(f, "spread", Squeezed, begun, B, size, l, m)
  <2> HIDE DEF m
  <2>1. ASSUME NEW t \in 1..m
        PROVE  (CHOOSE r \in {Turn(s, 0 + t) : s \in {f[t - 1]}} : TRUE) = Turns("spread", Squeezed, B, size, l, f[t - 1], t)
    <3>1. (CHOOSE r \in {Turn(s, 0 + t) : s \in {f[t - 1]}} : TRUE) = Turn(f[t - 1], t)
      BY <1>6
    <3> QED BY <1>7, <3>1
  <2> QED BY <1>6, <2>1 DEF Outer
<1>9. m = (l + size - 1) \div size
  OBVIOUS
<1> HIDE DEF W, m
<1>10. (CHOOSE f : W(f)) = CHOOSE f : Outer(f, "spread", Squeezed, begun, B, size, l, m)
  BY <1>8
<1>11. OuterEnd("spread", Squeezed, begun, B, size, l, m) = Chained("spread", Squeezed, begun, B, l)
  BY <1>2, <1>3, <1>6, <1>9, OuterIs
<1> QED BY <1>1, <1>2, <1>10, <1>11 DEF OuterEnd

LEMMA AskedMeansDerived == Compresses(Squeezed) /\ Asked => KeyDerived
<1> SUFFICES ASSUME Compresses(Squeezed), Asked, session.of = "pbkdf2" PROVE KeyDerived
  BY DEF KeyDerived
<1> DEFINE nine == 9
           k == session.salt
           len == session.len
           n == session.iterations
           pass == Message(100, nine)
           salt == Message(50, k)
           F == Squeezed
           prepared == HmacPrepare(F, Sha256Init, pass)
           begun == Pbkdf2Init(F, HmacSha512Prepare(F, pass), salt, 1)
           spread == Iterate(LAMBDA s, i : Pbkdf2Update(Squeezed, s, n), begun, 3)
<1>1. k \in Pieces /\ k \in Nat /\ n \in Nat \ {0} /\ len \in Nat
  BY StreamsAssumption DEF Asked
<1> HIDE DEF n, len, k
<1>2. Octets(pass, nine)
  <2>1. nine \in Pieces \cup KeyLengths \cup {9} /\ 0 \in Pieces \cup {0} /\ 100 + nine <= 100 + nine + 0 /\ nine \in Nat
    OBVIOUS
  <2> HIDE DEF nine
  <2> QED BY <2>1, MessageOctets
<1>3. Octets(salt, k)
  <2>1. k \in Pieces \cup KeyLengths \cup {9} /\ 0 \in Pieces \cup {0} /\ 50 + k <= 100 + k + 0
    BY <1>1
  <2> QED BY <1>1, <2>1, MessageOctets
<1> HIDE DEF pass, salt, nine
<1>4. HmacSha256Prepare(F, pass) = prepared /\ HmacSha512Prepare(F, pass) = prepared
  <2>1. Sha512Init = Sha256Init
    <3>1. Sha512.lanes = 8 /\ Sha256.lanes = 8
      BY DEF Sha512, Sha256
    <3>2. InitialState(Sha512) = InitialState(Sha256)
      BY <3>1 DEF InitialState
    <3> QED BY <3>2 DEF Sha512Init, Sha256Init
  <2> QED BY <2>1 DEF HmacSha256Prepare, HmacSha512Prepare
<1> HIDE DEF prepared
<1>5. Pbkdf2(F, prepared, salt, n, len) = PbkdfBy(F, pass, salt, n, len)
  BY <1>1, <1>2, <1>3, Pbkdf2Is DEF prepared
<1>6. Pbkdf2HmacSha256(F, pass, salt, n, len) = Pbkdf2Of(HmacHere, pass, salt, n, len)
      /\ Pbkdf2HmacSha512(F, pass, salt, n, len) = Pbkdf2Of(HmacHere, pass, salt, n, len)
  BY <1>4, <1>5, PbkdfHere DEF Pbkdf2HmacSha256, Pbkdf2HmacSha512
<1>7. Pbkdf2Final(spread) = Pbkdf2Of(HmacHere, pass, salt, 3 * n, DigestLength)
  <2> DEFINE B == [i \in Nat |-> n]
             three == 3
             e == three * n
             one == 1
             total == e - one
             start == SumStart(F, pass, salt, one)
  <2>1. Kneading(F, pass, begun, start, 1)
    <3>1. one \in Nat
      OBVIOUS
    <3>2. Kneading(F, pass, Pbkdf2Init(F, prepared, salt, one), start, 1)
      <4> HIDE DEF one
      <4> QED BY <1>2, <1>3, <3>1, StartKneading DEF prepared
    <3> QED BY <1>4, <3>2
  <2>2. spread = Chained("spread", F, begun, B, 3)
    <3> HIDE DEF begun
    <3> QED BY SpreadChained
  <2> HIDE DEF begun
  <2>3. total = 3 * n - 1 /\ e \in Nat \ {0} /\ total \in Nat /\ total = e - 1
    BY <1>1
  <2> HIDE DEF total, start
  <2>4. Pbkdf2Final(Chained("spread", F, begun, B, 3)) = SumBy(F, pass, start, total).t
    BY <1>1, <1>2, <2>1, <2>3, SpreadIs
  <2>5. Long(SumBy(F, pass, start, total).t, DigestLength)
    <3>1. one \in Nat /\ e \in Nat \ {0}
      BY <2>3
    <3>2. Long(SumBy(F, pass, SumStart(F, pass, salt, one), e - 1).t, DigestLength)
      <4> HIDE DEF e, one
      <4> QED BY <1>2, <1>3, <3>1, BlockIs
    <3> QED BY <2>3, <3>2 DEF start
  <2> HIDE DEF e
  <2>6. PbkdfBy(F, pass, salt, e, DigestLength) = SumBy(F, pass, start, total).t
    BY <2>3, <2>5, OneDigest DEF start
  <2>7. Pbkdf2Of(HmacHere, pass, salt, e, DigestLength) = SumBy(F, pass, start, total).t
    BY <2>6, PbkdfHere
  <2> QED BY <2>2, <2>4, <2>7 DEF e
<1> QED BY <1>6, <1>7 DEF KeyDerived, spread, begun, pass, salt, n, len, k, nine

\* PBKDF2, in one call or with its iterations spread over three, is the
\* definition's, for every compression of words, every length of salt and key
\* and every number of iterations.
THEOREM KeysDerivedHolds ==
    ASSUME Compresses(Squeezed)
    PROVE  Spec => KeysDerived
<1>1. Asked => (End => KeyDerived)
  BY AskedMeansDerived
<1>2. Asked /\ [Next]_session => [End => KeyDerived]_session
  BY <1>1
<1> QED BY <1>2, AskedAlways, PTL DEF Spec, KeysDerived
=============================================================================

----------------------------- MODULE MCLibrary -----------------------------
EXTENDS Library

MCPrime == 1048423

\* Two curves of prime order over that field, with a = 0 and with a = -3.
Curve(a, b, y, n) ==
    LET c == [prime |-> LimbsOf(MCPrime), G |-> Point(LimbsOf(1), LimbsOf(y)), a |-> a, b |-> LimbsOf(b),
              order |-> LimbsOf(n), order_half |-> LimbsOf(n \div 2)]
    IN [field \in DOMAIN c \cup {"cp"} |-> IF field = "cp" THEN Precomputed(c) ELSE c[field]]

MCCurves == <<Curve(0, 6, 997607, 1046701), Curve(-3, 21, 137717, 1047961)>>

MCNumbers == {0, 1, 2, 255, 256, 257, 65535, 65536, 524287, 524288, 1048422, 1048423, 1048424, 1048575, 1048576, 2096845}
               \cup {(n * 100901 + 17) % 2096846 : n \in 1..16}
MCScalars == 0..10 \cup {1046700, 1046701, 1047960, 1047961} \cup {(n * 100901 + 17) % 1046701 : n \in 1..14}

MCHalves == {<<0, 0>>, <<0, 1>>, <<0, 128>>, <<1, 0>>, <<127, 255>>, <<128, 0>>, <<255, 255>>}
MCNonces256 == {<<>>, <<0>>, <<1>>, <<127>>, <<128>>, <<0, 5>>, <<1, 0>>, [i \in 1..12 |-> 255 - i],
                 [i \in 1..32 |-> 255], [i \in 1..40 |-> IF i < 8 THEN 0 ELSE i]}
MCChains == {<<>>, <<0>>, <<1>>, <<26>>, <<27>>, <<28>>, <<34>>, <<35>>, <<37>>, <<38>>, <<0, 55>>, <<1, 3>>,
             <<255, 255, 255>>, <<0, 0, 0, 37>>}
MCPayloads == UNION {[1..n -> {0, 1, 255}] : n \in 0..3} \cup {<<57>>, <<58>>, <<0, 0, 0, 0, 7>>, [i \in 1..12 |-> 255 - i]}

\* Cheap ones, as good as the real ones where only the bookkeeping is compared.
MCSqueezed[s \in Seq(Nat), w \in Seq(Nat)] ==
    LET sum == Iterate(LAMBDA a, i : (7 * a + w[i]) % Lane, 3, 16)
    IN [i \in 1..8 |-> (5 * s[i] + s[(i % 8) + 1] + sum * i + i) % Lane]
MCStirred[A \in Seq(Nat)] ==
    [i \in 1..25 |-> IF i = 1 THEN Iterate(LAMBDA a, j : (7 * a + A[j] * j) % 2^KeccakBits, 3, 25)
                     ELSE (5 * A[i] + i) % 2^KeccakBits]
MCMessageBytes == [j \in Nat |-> (37 * j + j \div 7) % 256]

\* A hash small enough that it falls outside of the curve, now and then.
MCMixed[key \in Nat, data \in Seq(Nat)] ==
    LET n == Iterate(LAMBDA a, i : (49 * a + 9 * data[i] + i) % 251, 3 + 5 * key, Len(data))
    IN [left |-> n % 16, right |-> (n \div 16 + 11 * n) % 241]

MCHdCurves == [name \in {"secp256k1", "nist256p1", "ed25519", "curve25519"} |->
                 [ecdsa |-> name \in {"secp256k1", "nist256p1"}, montgomery |-> name = "curve25519",
                  order |-> IF name = "nist256p1" THEN 13 ELSE 11]]
MCPaths == {<<>>, <<0>>, <<0, 1>>, <<128, 1>>, <<0, 1, 1>>, <<0, 128, 2>>, <<0, 1, 1, 0>>}
MCPhrases == {<<1>>, <<1, 2>>, <<9, 9, 9, 9, 9, 9>>}
MCEntropies == {[i \in 1..n |-> (k * i + k) % 256] : n \in {12, 16, 18, 20, 24, 28, 32, 36}, k \in {0, 1, 37, 255}}
MCWordList == <<<<1>>, <<1, 2, 2>>, <<1, 2, 3>>, <<1, 2, 3, 1>>, <<2>>, <<3, 4>>>>
=============================================================================

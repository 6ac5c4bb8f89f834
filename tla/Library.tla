------------------------------ MODULE Library ------------------------------
(***************************************************************************)
(* The functions the wallet takes from lib/trezor-crypto, its parser and   *)
(* its formatting, called with inputs of every kind that their code tells  *)
(* apart, and fed piece by piece where they keep a context or a cache.  A  *)
(* session is one use of one of them; the properties, stated beside the    *)
(* sessions, compare what the code computes with what it should, most of   *)
(* them as the session ends.                                               *)
(***************************************************************************)
EXTENDS Arithmetic, Keys

Start ==
    /\ session = Idle
    /\ \/ Numeric \/ Scale \/ Sign
       \/ StreamSha \/ StreamSha3 \/ Rounds \/ Authenticate \/ Derive \/ Seed \/ Use
       \/ WriteSignature \/ Propose \/ ShowAmount \/ WritePayload
       \/ DeriveChild \/ KeepNodes \/ KeepSeeds \/ MakePhrase

Continue ==
    \/ \E n \in Pieces : Feed(n)
    \/ \E n \in Amounts : Generate(n)
    \/ \E root \in Roots, path \in Paths : DerivePath(root, path)
    \/ \E mnemonic \in Phrases, passphrase \in Phrases : MakeSeed(mnemonic, passphrase)
    \/ ClearCache

Init == session = Idle

Next == Start \/ Continue \/ End

Spec == Init /\ [][Next]_session
=============================================================================

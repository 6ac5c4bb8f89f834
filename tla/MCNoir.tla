------------------------------- MODULE MCNoir -------------------------------
(* Instances of Noir for TLC. *)
EXTENDS Noir, TLC

OneIndex == {0}
TwoIndices == {0, 1}

\* Every instruction of the APDU table, or only those that reach a handler.
AllRequests == {"GET_CONFIG", "MALFORMED", "UNKNOWN", "GET_PUBKEY", "SIGN_TX"}
HandlerRequests == {"GET_PUBKEY", "SIGN_TX"}
SignRequests == {"SIGN_TX"}
NoRequests == {}

\* Transactions differ only in which pieces they are made of.
PieceSymmetry == Permutations(Heads) \cup Permutations(Tails)
=============================================================================

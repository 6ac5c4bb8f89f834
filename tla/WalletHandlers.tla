--------------------------- MODULE WalletHandlers ---------------------------
(***************************************************************************)
(* src/src/app/wallet_handlers.c: the GET_PUBLIC_KEY and SIGN_TX handlers, *)
(* the accumulation of a transaction over several SIGN_TX chunks, and the  *)
(* approval that is deferred until the user decides.                       *)
(*                                                                         *)
(* A transaction is two pieces: its head (type, chain and recipient, which *)
(* eth_tx_parse copies) and its tail (amount and the rest, to which the    *)
(* parsed transaction only points, inside raw).  RLP is prefix-free, so an *)
(* accumulated buffer parses exactly when it is one head and one tail.     *)
(***************************************************************************)
EXTENDS WalletState, Sequences

CONSTANTS
    Heads,      \* first pieces of transactions
    Tails,      \* second pieces of transactions
    NoPiece,    \* zeroed memory
    RawMax      \* ETH_TX_MAX_LEN, in pieces

ASSUME HandlersAssumption ==
    /\ Heads \cap Tails = {}
    /\ NoPiece \notin Heads \cup Tails
    /\ RawMax \in Nat
    /\ RawMax >= 2

VARIABLES
    pending,    \* what waits for the user's decision
    pTx,        \* the head p_tx holds
    pSighash,   \* the hash to be signed, as the pieces it was computed from
    pIndex,     \* account index of the pending request
    pAddr,      \* address to be confirmed
    raw,        \* the accumulation buffer
    rawLen,     \* how much of it is valid
    txIndex     \* history: the account index the accumulated transaction came with

handlerVars == <<pending, pTx, pSighash, pIndex, pAddr, raw, rawLen, txIndex>>

Pieces      == Heads \cup Tails
PieceOrNone == Pieces \cup {NoPiece}
IndexOrNone == Indices \cup {NoIndex}
Hash        == [head : PieceOrNone, tail : PieceOrNone]
Signatures  == [seed : Seeds, index : Indices, hash : Hash, v : PieceOrNone]

NoHash == [head |-> NoPiece, tail |-> NoPiece]

\* What one SIGN_TX APDU carries.
Chunks == {<<>>} \cup {<<p>> : p \in Pieces} \cup {<<h, t>> : h \in Heads, t \in Tails}

\* memcpy(raw + at, chunk, n).
Copied(at, chunk) ==
    [k \in 1..RawMax |-> IF k - at \in DOMAIN chunk THEN chunk[k - at] ELSE raw[k]]

\* eth_tx_parse succeeds on the first `len` pieces of `buffer`.
Parses(buffer, len) == len = 2 /\ buffer[1] \in Heads /\ buffer[2] \in Tails

-----------------------------------------------------------------------------
WhReset ==
    /\ pending' = "IDLE"
    /\ rawLen' = 0
    /\ pSighash' = NoHash
    /\ pAddr' = NoAddress
    /\ raw' = [k \in 1..RawMax |-> NoPiece]
    /\ txIndex' = NoIndex
    /\ UNCHANGED <<pTx, pIndex>>

\* GET_PUBLIC_KEY with P1 bit 0 set: the answer waits for the user.
WhGetPubkeyConfirm(index) ==
    /\ WalletUnlocked
    /\ pending' = "CONFIRM_ADDR"
    /\ pIndex' = index
    /\ pAddr' = Address(gSeed, index)
    /\ UNCHANGED <<pTx, pSighash, raw, rawLen, txIndex>>

\* Fault: the reviewed transaction is not the one just parsed.
AccumulateKeepsTx(buffer, len) ==
    /\ raw' = buffer
    /\ rawLen' = len
    /\ IF Parses(buffer, len)
       THEN /\ pSighash' = [head |-> buffer[1], tail |-> buffer[2]]
            /\ pending' = "REVIEW_TX"
       ELSE UNCHANGED <<pSighash, pending>>
    /\ UNCHANGED pTx

\* The end of wh_sign_tx: look for a whole transaction in raw.  (eth_tx_sighash
\* fails for no transaction that eth_tx_parse returns.)
Accumulate(buffer, len) ==
    /\ raw' = buffer
    /\ rawLen' = len
    /\ IF Parses(buffer, len)
       THEN /\ pSighash' = [head |-> buffer[1], tail |-> buffer[2]]
            /\ pTx' = buffer[1]
            /\ pending' = "REVIEW_TX"
       ELSE UNCHANGED <<pSighash, pTx, pending>>

\* SIGN_TX with P1 = 0x00: the path, then the first bytes of the transaction.
WhSignTxFirst(index, chunk) ==
    /\ pIndex' = index
    /\ txIndex' = index
    /\ Accumulate(Copied(0, chunk), Len(chunk))
    /\ UNCHANGED pAddr

\* SIGN_TX with P1 = 0x80: more bytes of the transaction.
WhSignTxMore(chunk) ==
    /\ rawLen + Len(chunk) <= RawMax
    /\ Accumulate(Copied(rawLen, chunk), rawLen + Len(chunk))
    /\ UNCHANGED <<pIndex, txIndex, pAddr>>

\* The same when raw would overflow: the accumulation is dropped.
WhSignTxOverflow(chunk) ==
    /\ rawLen + Len(chunk) > RawMax
    /\ rawLen' = 0
    /\ txIndex' = NoIndex
    /\ UNCHANGED <<pending, pTx, pSighash, pIndex, pAddr, raw>>

\* wh_approve and wh_reject leave everything but pending as it is.
WhDecided ==
    /\ pending' = "IDLE"
    /\ UNCHANGED <<pTx, pSighash, pIndex, pAddr, raw, rawLen, txIndex>>

-----------------------------------------------------------------------------
WhInit ==
    /\ gSeed = NoSeed
    /\ pending = "IDLE"
    /\ pTx = NoPiece
    /\ pSighash = NoHash
    /\ pIndex = 0
    /\ pAddr = NoAddress
    /\ raw = [k \in 1..RawMax |-> NoPiece]
    /\ rawLen = 0
    /\ txIndex = NoIndex

WhTypeOK ==
    /\ gSeed \in SeedOrNone
    /\ pending \in {"IDLE", "CONFIRM_ADDR", "REVIEW_TX"}
    /\ pTx \in PieceOrNone
    /\ pSighash \in Hash
    /\ pIndex \in Indices
    /\ pAddr \in AddressType
    /\ raw \in [1..RawMax -> PieceOrNone]
    /\ rawLen \in 0..RawMax
    /\ txIndex \in IndexOrNone
=============================================================================

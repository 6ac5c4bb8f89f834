------------------------------- MODULE Wallet -------------------------------
(***************************************************************************)
(* src/src/crypto/wallet.c: the pure functions that turn a stored seed     *)
(* into account keys.  Keys are abstract values: an account address is the *)
(* pair of the seed and the account index it was derived from, and a       *)
(* signature is the record of everything that went into it.  Entropy,      *)
(* mnemonic and BIP-39 seed determine each other, so one value stands for  *)
(* all three.                                                              *)
(***************************************************************************)
EXTENDS Integers

CONSTANTS
    Seeds,      \* the seeds the random source can produce
    NoSeed,     \* no seed: an erased record, or cleared RAM
    Indices,    \* the account indices a host asks for (m/44'/60'/0'/0/index)
    NoIndex     \* no account index

ASSUME WalletAssumption ==
    /\ NoSeed \notin Seeds
    /\ NoIndex \notin Indices
    /\ 0 \in Indices

SeedOrNone == Seeds \cup {NoSeed}

\* wallet_derive_eth: the address (and public key) of an account.
Address(seed, index) == [seed |-> seed, index |-> index]

AddressType == [seed : SeedOrNone, index : Indices \cup {NoIndex}]

NoAddress == Address(NoSeed, NoIndex)

\* wallet_sign over the key wallet_derive_eth yields; the v byte of the
\* answer is computed from the parsed transaction and not from the hash.
Signature(seed, index, hash, tx) ==
    [seed |-> seed, index |-> index, hash |-> hash, v |-> tx]
=============================================================================

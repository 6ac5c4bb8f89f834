---------------------------- MODULE WalletState ----------------------------
(***************************************************************************)
(* src/src/crypto/wallet_state.c: the cache of the unlocked seed.          *)
(* g_unlocked is TRUE exactly when a seed is held, so one variable stands  *)
(* for g_seed and g_unlocked.                                              *)
(***************************************************************************)
EXTENDS Wallet

VARIABLE gSeed

WalletStateSetSeed(seed) == gSeed' = seed

WalletStateClear == gSeed' = NoSeed

\* wallet_state_derive and wallet_state_sign refuse when this is FALSE.
WalletUnlocked == gSeed # NoSeed
=============================================================================

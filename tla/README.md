# NOIR wallet: specifications, model checking and proofs

NOIR is the firmware of a small hardware wallet (STM32F401, five buttons, a
128x64 display, an ATECC608B as random source, USB HID with the Ledger Ethereum
protocol). This directory holds TLA+ specifications of its own logic, the TLC
configurations that check them and TLAPS proofs about them. Paths are relative
to `src/` of the repository unless they start with another directory of it.

## 1. Inventory of the system

One super loop (`main.c:529`) runs everything; there is no RTOS and no handler
that changes application state from an interrupt. Concurrency comes from three
environments that move between the stages of the loop: the host (USB reports
are dispatched inside `tud_task`), the user (buttons are polled at the end of a
turn) and the power supply (flash writes take time and can be cut).

| component | state | operations | hard behaviours | correct when |
|---|---|---|---|---|
| main loop, UI (`main.c`, `ui/screens.c`) | `state`, `page`, `pin_mode`, `first_pin`, `wseed` and the keys and words derived from it, the display | one turn: dispatch, pump, pending check, button; setup, unlock, lock, review | requests arriving on any screen, decisions taken later than they are caused, handlers blocked on flash | lock gate, seed cache and screen agree; what is approved is what is displayed; the backup is completed |
| flash storage (`app/storage.c`) | PIN record (sector 5), seed record (sector 4) | `storage_set_pin`, `storage_check_pin`, `storage_seed_set/get/exists`, `storage_fail_count`, wipe | erase-then-program is not atomic; `uint32_t` count in erased flash | a seed stays reachable with its PIN until the lockout; the lockout comes after the maximum |
| wallet handlers (`app/wallet_handlers.c`) | `pending`, `p_tx`, `p_sighash`, `p_index`, `p_addr`, `raw`, `raw_len` | `wh_get_pubkey`, `wh_sign_tx`, `wh_approve`, `wh_reject`, `wh_reset` | accumulation over requests, deferred decision, buffers aliased by the screen | the transaction signed is the one parsed and shown, with the account its path names |
| seed cache, derivation (`crypto/wallet_state.c`, `crypto/wallet.c`) | `g_seed`, `g_unlocked` | set, clear, derive, sign | second copy of what `main.c` keeps | one wallet at a time, none while locked |
| APDU dispatch (`protocol/apdu.c`) | `locked`, route table | `apdu_dispatch`, `apdu_set_locked` | which requests pass the gate | closed whenever the wallet is closed |
| HID application (`usb/hid_callbacks.c`) | `resp`, `tx_frames`, `tx_nframes`, `tx_idx` | receive callback, `hid_app_task`, approve, reject, set locked | answers held back and sent later, one buffer for all | every request is answered once, by its own answer |
| HID framing (`protocol/hid_frame.c`) | `rx_total`, `rx_len`, `rx_seq`, buffer | `hid_frame_rx`, `hid_frame_tx` | lost, repeated, foreign reports; a report names its place, not its APDU | what arrives in order comes out whole, and nothing is joined that the receiver could tell apart |
| transaction parser (`protocol/eth_tx.c`) | scratch buffers | `eth_tx_parse`, `eth_tx_sighash` | lengths and widths of RLP items | what is accepted is of a supported form; hash covers what was parsed |
| PIN wheel (`app/pin.c`) | `digits`, `len`, `pos`, `confirmed` | `pin_reset`, `pin_event` | length limits, backspace | a confirmed PIN is what was dialled |
| buttons (`drivers/buttons.c`) | `stable`, `count`, `press_tick`, `long_fired` | `buttons_poll` | debouncing, one event a turn, tick wrap | each press reported once, long press once |
| secure element (`drivers/atecc.c`, `platform/hw_rng.c`) | none kept | random, self-test | I2C failures | data or a failure |
| display driver (`drivers/ssd1306_min.c`) | frame buffer | pixels, lines, text, update | clipping, amounts wider than the panel or its buffer | what the review page prints is on the panel, or visibly cut |
| numbers, curves, signatures (`lib/trezor-crypto/bignum.c`, `ecdsa.c`) | none kept | modular arithmetic, points, signing, recovery, shared secrets | partly reduced numbers, carries and borrows without branches, wrap of 32 and 64 bits | every result is the number it is for, whatever the limbs |
| hashes and what is built on them (`sha2.c`, `sha3.c`, `hasher.c`, `hmac.c`, `pbkdf2.c`, `hmac_drbg.c`, `rfc6979.c`) | contexts, prepared states | init, update, final, reset | block borders, bit counts that carry, states resumed past a block, two builds of the rounds | the digest of the whole message however it is cut |
| encodings (`der.c`, `buffer.c`, `base58.c`) | a reader's position | read, write | lengths that wrap, second encodings of one value | one text for one value, both ways |
| HD keys and phrases (`bip32.c`, `bip39.c`) | caches of nodes and of seeds, a global mnemonic buffer | derive, serialise, to and from words | keys out of range, entries that go stale or match in part | a key is what its path says, cached or not |
| USB setup and descriptors, fault handlers, `main_working.c.bak` | - | - | - | outside the models |

How they interact: `tud_task` calls `tud_hid_set_report_cb`, which reassembles
(`hid_frame_rx`), dispatches (`apdu_dispatch`), lets a handler set `pending`,
and queues the answer only if nothing is pending. The loop then pumps frames
(`hid_app_task`), looks at `pending` and puts the approval screen up, and hands
one button event to the state machine, which may approve, reject, unlock, lock,
or block on `storage.c`. `main.c` tells `apdu.c` (lock gate) and
`wallet_state.c` (seed) separately when the wallet opens and closes.

The edges below that do not know of each other: a complete APDU, a button
event, a confirmed PIN and a filled random buffer are the only things the loop
sees of framing, debouncing, the wheel and the I2C bus. The library is called
from one place at a time and keeps state only in the contexts its callers own
and in the two caches.

The hazards that follow from this, each at its line, are the list `hazards` of
PROJECT.json; the properties below are aimed at them.

## 2. Modules

Three compositions, each with one MC module; an indented module extends the one
above it.

The wallet as a whole:

    Wallet            keys, addresses and signatures as symbolic values
      WalletState     wallet_state.c: the cached seed
        WalletHandlers  wallet_handlers.c: accumulation, pending approval
          HidApp        hid_callbacks.c + apdu.c, and the external host
      Storage         storage.c: the two records, flash writes step by step
            Noir      main.c: the loop, the screens, the PIN flow; composes all
              MCNoir        constants for TLC
              NoirProofs    type correctness, lock agreement, page range
                StorageProofs   what the flash holds; the fail count and Vault,
                                without power cuts
                ReviewProofs    approval and Signer
      Signer          abstract: what a waiting host is promised
                      (Promise == INSTANCE Signer WITH ... in Noir)
      Vault           abstract: what a PIN is worth
                      (Keeping == INSTANCE Vault WITH ... in Noir)

Its edges, which share no state, so that a behaviour exercises one of them
(`side`):

    Transport         abstract: whole messages, one at a time
    HidFrame          hid_frame.c and the reports of a disorderly host
                      (Abstract == INSTANCE Transport WITH phase <- Phase,
                      begun <- Begun)
      FrameProofs     bounds, and the refinement for every size
    Apdu              apdu.c byte by byte: routes, lock, dispatch, answers
    Buttons           buttons.c: debounce, one event a poll, long press, tick
    PinEntry          pin.c: the wheel and its digits
    Atecc             atecc.c, hw_rng.c: commands over a noisy bus, random buffers
      ElementProofs   what a caller gets was drawn for it
    Edges             extends these five; MCEdges has the constants for TLC
      EdgeProofs      requests, the wheel, buttons, and the composition
                      (uses FrameProofs and ElementProofs)

The library and the bytes, functions of their arguments, checked against
independent definitions:

    Words             loops, digits and words that all of these share
      Bignum          bignum.c
        Points        ecdsa.c: points, multiplication by signed digits
          Ecdsa       ecdsa.c: keys, signatures, recovery, masks
      Sha2, Sha3      sha2.c, sha3.c
        Mac           hmac.c, pbkdf2.c, hmac_drbg.c, rfc6979.c, hasher.c
          Bip39       bip39.c
      Der             buffer.c, der.c
      EthTx           eth_tx.c and the v byte of wallet_handlers.c
      Display         be_dec and the amount (main.c), text of ssd1306_min.c
      Base58          base58.c and the addresses of ecdsa.c
        Bip32         bip32.c
    Textbook          extends Ecdsa, Mac: what they promise, in the terms of the
                      standards (numbers, double-and-add, a message padded whole)
      HashProofs      contexts, HMAC, PBKDF2 and the generator against it
      Session         one use of one function, or of one context or cache
        Arithmetic, Streams, Formats, Keys    sessions and their properties
          Library     composes all of them; MCLibrary has the constants for TLC
            LibraryProofs   sessions of hashes, codes, keys, nonces and hashers,
                            the caches, and the amount (uses HashProofs)

`HidApp` and `Apdu`, `WalletHandlers` and `EthTx` describe the same code at two
levels: the first of each pair by kinds of request and of transaction, where
what matters is the order in which things happen; the second by bytes, where
what matters is what they contain.

`Signer` and `Vault` are the two promises of the wallet, each with nothing of
the firmware in it, and `Noir` is shown to implement both:

* `Signer` has a request, at most one question to the user and one answer. The
  question is an address, or the head and the tail of a transaction; the display
  shows a part of it, and only while it does can it be decided. What a decision
  answers is made of what was asked, by the wallet that is open then. The
  mapping: `wallet` is the seed cache, `request` is `host`, `asked` is read from
  the buffers behind `pending` (`pAddr`, or `pTx` and what `raw` holds now, so a
  buffer that changed under a review would be a question that changed), `seen` is
  what was read when the screen was drawn, `reply` the queued answer until its
  last frame is taken. A request without an answer of its own, an answer to
  another request, a decision behind a screen that shows something else or a
  wallet that closes under a question has no counterpart.
* `Vault` keeps a seed with its PIN and counts. A seed is made only where there
  is none, its PIN opens it and no other does, the `MaxFails`-th wrong one in a
  row destroys it and nothing else does. The mapping takes the verdict on a PIN
  from the point at which the blocked handler goes on, so that the writes in
  between stutter; the count it compares is what the user was told (`misses`),
  and the record in the flash has to agree with it.

Operators keep the names of the C functions where the language allows it
(`storage_set_pin` is `StorageSetPin`). An operator whose comment starts with
"Fault:" is a variant of the definition that follows, with one plausible mistake
in it. No specification uses it; it is there to show that the property named
after it in PROJECT.json ("mutants") can fail.

### How state and actions correspond to the code

* `pc` is the stage of the loop: `tud`, `task`, `pend`, `btn`, and `flash` for a
  button handler that is blocked on a flash write. `after` says where such a
  handler goes on. The stages are the finest places where host, user and power
  can interleave: within one, the code runs without looking at any of them.
* `TudReport` is one complete APDU in `tud_task`, from the callback to the
  queue; it may happen any number of times in a stage. `HidTask`,
  `PendingCheck` and the `Button` actions are the other three stages. A turn in
  which nothing happens is `TudDone`, `HidTask`, `PendingCheck`, `NoPress`.
* A storage operation computes `flashOps`, the sequence of contents the sectors
  pass through; `FlashStep` performs one, and `PowerCut` can fall between any
  two. The PIN record goes through erase, magic, version, salt and verifier,
  fail count, CRC: five fields because the code reads them separately (magic
  and version decide whether it is readable, the verifier whether it matches,
  the count whether it wipes). Programming is word by word in the code; words
  inside one field make no difference to any reader. A seed record is either
  whole or no seed, since every reader checks its CRC.
* `wseed` stands for itself and for `wpriv`, `wpub65`, `waddr` and the words,
  which are derived from it in the same call. `gSeed` stands for `g_seed` and
  `g_unlocked`.
* A transaction is a head and a tail: `eth_tx_parse` copies type, chain and
  recipient (the head) and leaves a pointer into `raw` for the amount (the
  tail). So `pTx` is a copy and the second page of the review reads `raw[2]`.
  RLP is prefix-free, hence a buffer parses exactly when it is one head and one
  tail.
* `shown` is what the display holds, with the piece or address that was read
  when it was drawn. It changes only where the code calls `render`.
* `out` is the queued answer with the frames not yet taken; `host` is the
  request the host waits for.
* The CENTER button has a level (`up`, `down`, `held` once its long press
  fired), because hold-to-sign depends on it; of the others only presses matter.
* History variables, read by no action: `misses`, `seedPin` (Storage), `txIndex`
  (WalletHandlers), `holdOn`, `backedUp` (Noir).

* `HidFrame`: `SendReport` is the next report of the message into
  `hid_frame_rx`; `RepeatReport`, `SkipReport` (any report but the last, the
  first one too), `ForeignReport`, `ShortReport` and `BadLengthReport` are the
  disorder, and `StartMessage` may give up a message in its middle. The sender
  frames with `hid_frame_tx`, so both directions are exercised. `clean` records
  whether the message was disturbed after it began and `headless` whether its
  first report was lost; only the refinement mapping reads them.
* `Buttons`: `Poll` is one call of `buttons_poll` and ends at the first event,
  as the code does; buttons later in the table are not sampled. `Toggle` is a
  finger or a bounce. `age`, `fresh` and `booted` are history.
* `Atecc`: one action per transfer of `atecc_cmd` (`Transmit`, `ReceiveCount`,
  `ReceiveRest`, each with its failure), and the element's own steps between
  them: it answers (`Execute`) or falls asleep. The bus can turn up to two bits
  of a packet.
* `Apdu`: `ApduRegister` keeps the table of `apdu_register` and, as history, the
  map from instructions to handlers that it is meant to be; `ApduDispatch` is one
  call of `apdu_dispatch`, whose handler returns as it likes. `exchange` is the
  last one, for the property to look at.
* `Library`: `Start` chooses a function and its inputs, `Continue` feeds a
  context or asks a cache once more, `End` closes the session. What a session
  computes is compared as it ends, or, where a context is fed, after each piece.

### What is abstracted, and what is left out

In `Noir`: the wheel with which a PIN is dialled (a confirmed PIN is one input);
words and derivation (a seed value stands for entropy, words and seed); reports
(a whole APDU arrives at once); the bytes of answers other than whose signature
or address they carry; layout. These are the subject of the other two
compositions. Errors of the flash HAL, which the code ignores, and failing I2C
to the display are not modelled. A random source that fails and a key that
cannot be derived are modelled, as failures the caller sees.

In `Edges`: a message whose last report is lost is one that the host gives up
in its middle, and one program talks on a channel: the code has no means to keep apart the reports of two
programs that use the same channel number, and they could mix. More turned bits than two could make a wrong packet fit its checksum by
coincidence; that is outside the model (`ChecksumTells`). What `mix_entropy`
makes of the clocks is a key, any member of `Keys`, since nothing depends on how
it is made. While the element is dead, random
buffers are zeros, from which `generate_k_random` of `ecdsa.c` would draw for
ever; in `Points` its draws are given and one of them is in range.

In `Library`: sizes are small and keep the proportions the code depends on, so
that the same carries, masks, borders and table positions occur: numbers of
three limbs of 8 bits (9 of 29 in the code) over a prime just below 2^20 with
two curves of prime order, one with a = 0 and one with a = -3; lanes of two
bytes (4 or 8); hash constants that only differ from each other. Contexts take
the compression function as an argument. Where only their bookkeeping is in
question it is a constant (`Squeezed`, `Stirred`, and `Mixed` for the hash of a
derivation), for which `MCLibrary` has cheap functions; the real rounds are
compared by themselves (`BuildsAgree`). Where the source compiles to two variants (the precomputed
table of the generator, the unrolled transforms) both are modelled; the firmware
uses `USE_BIP32_25519_CURVES=0`, the host tests 1, and both are covered.
`Bip32` writes points as their logarithms, since `Ecdsa` has the arithmetic, and
has curve orders small enough that a hash falls out of range now and then. A
depth is one byte and wraps after 255. Caches hold two entries, so they are full
and replace entries early. The word into which `rlp_decode` reads a length has
`LengthBytes = 2` bytes for four: still far more than the longest transaction, so
that a length wraps or is negative where it does in the code, with one byte more
than the word or with its top bit set.

What the models of the library record and a reader may not expect:

* `eth_tx_parse` reads transactions of nine and of twelve fields with their
  signature fields. An unsigned EIP-155 transaction with v below 35 is refused,
  and v = 35 or 36 gives chain 0, which is signed as a transaction without a
  chain. A list is accepted where a string is expected.
* `eth_tx.h:5` says that any malformation is a hard reject. `rlp_decode` keeps the
  last four bytes of a length and compares it as an int (`eth_tx.c:34`, `:35`, `:36`):
  a length with a byte too many is accepted, and so is one that is negative, as
  long as the item takes no less than nothing. In r and s, which are not signed,
  that changes nothing that is; a signed field is then taken to be almost 2^32
  bytes long and ends far behind the transaction (`tx.inside` is false), and of
  what is hashed then nothing can be said. `SighashCommits` states which is which.
* `eth_tx_parse` does not bound the value of a transaction, but `fmt_eth` has
  buffers: `be_dec` copies it to `tmp[32]` (`main.c:174`), and the digits go to
  `dec[80]` (`main.c:211`). 32 bytes make at most 78 digits, which fit; a longer
  value overruns the first buffer, and 80 digits would the second. The models
  say `Overrun` there, and nothing of what happens after it.
* A report that continues a message names its place in it but not the message
  (`hid_frame.c:44`). If a message is given up and the next one loses its first
  report, its later ones end the earlier message, and the APDU handed over begins
  with bytes of one and ends with bytes of the other, or with padding.
  `Transport` says so (`Join`), and that every byte is still in its place. A
  report that is too short does not reset the reassembly, although
  `hid_frame.h:34` says of that error "state reset".
* `mnemonic_check` accepts 12, 18 and 24 words; phrases of 15 and 21 words, which
  the generator can make, do not pass it.
* A curve25519 key of a peer must start with 0x40; the library's own public keys
  for that curve do not.
* Of an amount wider than ten characters the panel shows only a part, and of more
  than 41 digits not even the buffer of 24 characters holds the integer part;
  amounts below a millionth of an ETH show as `0.000000 ETH` (`AmountCut` says so
  of the digits; what `be_dec` makes of the bytes is `AmountInDecimal`).
* `mix_entropy` loses nothing of what the element drew: its inverse is itself.
* `apdu.h:14` names 0x6982 for a locked device where the code answers 0x5515, and
  P1 = 0x01 for an address to confirm where the code tests the lowest bit only;
  the models follow the code.

## 3. Runs

The first nine are instances of `MCNoir`.

| run | environment | checks | verdict |
|---|---|---|---|
| `noir_patient` | host waits for answers; 2 heads, 2 tails, 2 accounts, chunks of 0 to 2 pieces | `TypeOK`, `SignedAsReviewed`, `AnswerFitsRequest`, `AnswersNotCut`, `SignerSpec` | holds |
| `noir_live` | the same host, every instruction, fair loop and user | `RequestAnswered` | holds |
| `noir_pin` | no host, no power cut; 2 seeds, 2 PINs, 3 tries | `SeedReachable`, `LockoutAfterMaxFails`, `TriesLeftAccurate`, `VaultSpec` | holds |
| `noir_power` | power cut at any step, host sends without waiting; 2 PINs, 2 tries | `LockAgreement`, `OneWallet`, `PageInRange`, `PendingOnScreen`, `SeedKeepsItsPin`, `SeedOnlyWiped` | holds |
| `retry_review` | host sends again while it waits | `SignedAsReviewed` | violated |
| `early_hold` | host waits | `HoldStartsOnReview` | violated |
| `stale_account` | host waits, two accounts | `AccountAsRequested` | violated |
| `interrupted_backup` | host waits | `HomeOnlyAfterBackup` | violated |
| `power_cut_pin` | power cuts, no host | `SeedReachable` | violated |
| `edges` (`MCEdges`) | reports repeated, lost, foreign, short, malformed, messages abandoned; handlers registered in any order, requests cut, whole, too long; bouncing buttons and a tick that wraps; any wheel events; a noisy bus | `BuffersHold`, `TransportSpec`, `ApduAnswered`, `LongMeansHeld`, `PressSeen`, `PinAsDialled`, `RandomAsDrawn` | holds |
| `library` (`MCLibrary`) | inputs at and around every border of the code, in pieces, through caches | 17 properties, below | holds |
| `amount_display` (`MCLibrary`) | amounts as big-endian bytes | `AmountInDecimal` | violated |

What `edges` shows:

* `TransportSpec`: framing implements the abstract transport. A message whose
  reports arrive in order is received once and whole, whatever came before; one
  that was disturbed after its first report is received whole or not at all. Two
  messages are joined only where the second lost its first report after the
  first was given up.
* `BuffersHold`: reassembly stays in its buffer with any declared length, and a
  longest answer needs no more frames than the queue has.
* `ApduAnswered`: exactly the well-formed requests of the wallet with a handler
  reach one, while locked the configuration alone; it is the handler registered
  last for the instruction, in whatever order they came and though the table was
  full, and it is given all of the data. Its answer goes back whole or not at
  all; every other request is refused for a reason that holds.
* `LongMeansHeld`: one long press per press, and not before the threshold, across
  the wrap of the tick. `PressSeen`: a finger that stays is noticed, although a
  poll returns at its first event and starves the buttons behind it.
* `PinAsDialled`: a confirmed PIN is what was dialled and not taken back.
* `RandomAsDrawn`: the random bytes a caller gets with success were drawn by the
  element for this call, never a stale or disturbed answer.

What `library` shows; those that are action properties compare as the session
ends:

| property | of | says |
|---|---|---|
| `NumbersRight` | `Bignum` | every operation gives its number, reduced as far as the next expects |
| `ScalarsRight` | `Points` | blinded multiplication by signed odd digits is multiplication, with the table and without |
| `SignaturesVerify`, `KeysAgree` | `Ecdsa` | a signature verifies under its own key only, is the low one and recovers it; both sides of an exchange agree, masks come off |
| `HashesStreamed` | `Sha2`, `Sha3` | the digest does not depend on how the message is cut |
| `BuildsAgree` | `Sha2`, `Sha3` | the fast and the compact build of the rounds, and the standard, agree |
| `MacsRight`, `KeysDerived`, `NoncesAsDefined`, `HashersReset` | `Mac` | HMAC, PBKDF2 and the nonce generator are the standard's although they resume stored states; a reset hasher is a fresh one |
| `DerStrict` | `Der` | one encoding of a signature; what is near to it is refused or is another signature's; lengths that wrap read nothing outside |
| `SighashCommits` | `EthTx` | the signed bytes are the one encoding of what was parsed, however loosely it was written; v gives the parity back; which malformed transactions are refused, which accepted, and which values `fmt_eth` has room for |
| `AmountCut`, `AmountInDecimal` | `Display` | of up to 79 digits of an amount as much of the integer part as fits, then the fraction, cut and never rounded, all of it on the panel up to ten characters; its digits are its own |
| `Base58RoundTrip` | `Base58` | one text for one sequence of bytes, under its own version |
| `DerivationsCommute`, `CachesTransparent` | `Bip32`, `Bip39` | public and private derivation agree; a cache changes nothing |
| `MnemonicsRead` | `Bip39` | words hold entropy and checksum, and only such words are accepted |

The six violated properties are what a comment or a plan of the repository
says of the program and the code does not do; `findings` in PROJECT.json quotes
the line and describes the behaviour. In short:

1. A request that arrives while a review is up replaces the pending transaction
   and is not drawn until a page is turned (`main.c:535`).
2. A CENTER press that began on another screen counts as the hold on a review
   that comes up while it is down (`main.c:546`).
3. `p_index` is shared between address confirmation and accumulation, and a
   decision does not reset the accumulation (`wallet_handlers.c:88`).
4. A request during the backup takes the screen and the user ends at HOME; the
   words cannot be shown again (`main.c:537`).
5. Power lost while the PIN record is rewritten leaves a seed no PIN opens, and
   setup is not offered either (`storage.c:113`). The count goes with the
   verifier, so `LockoutAfterMaxFails` and `TriesLeftAccurate` need power that
   lasts as well.
6. `be_dec` takes the end of the last byte of a quotient that is not zero for its
   length and so cuts zero bytes off: 2560 wei are shown as 10, and 1 ETH as
   "0.000015 ETH" on the review screen (`main.c:185`).

### Bounds and why they are enough

* Two heads and two tails are the least with which one transaction can be
  mistaken for another in either part; `RawMax = 2` pieces makes every overflow
  of the buffer reachable, since a third piece never fits. `noir_patient`
  treats pieces as symmetric, which is sound because they occur only in
  equalities and no temporal property with fairness is checked there.
* Two accounts are needed for one to be taken for the other, and two PINs for a
  wrong one. Two seeds (`noir_pin`) let a second setup follow a lockout.
* `MaxFails` is 2 or 3 in place of 10: the code compares the count only with 0
  and with the maximum, so one value below the last suffices, and `noir_pin`
  has two. `CountMod = 8` stands for 2^32: it is larger than any count reached
  by counting, and the erased value `CountMod - 1` wraps to 0 as 0xFFFFFFFF does.
* `misses` stops at `MaxFails`, where its invariant is already broken.
* `edges`: reports of 11 bytes carry 4 bytes of a first and 6 of a later one, so
  lengths 2, 4, 5, 10 and 15 lie at and beside the borders of one, two and three
  reports; three messages let a disturbed one follow and precede a clean one.
  Two buttons are the least where one starves the other; a tick of 6 wraps
  within two long presses. A wheel of two digits and a PIN of one or two have
  every limit; two attempts and two disturbed bits, every retry. Two routes are full after two
  of the three instructions that are registered; `MaxResp = 19` is what the
  longest answer of the dispatcher itself needs (it is the least `ApduAssumption`
  allows, and a handler's 18 bytes have no room in it); requests lie at and next
  to every length the code compares.
* `library`: about 12,000 states, each with a computation of its own behind it.
  Amounts have 1 to 80 digits, at and next to the eighteen decimals, the six of
  them that are shown, the 31 digits from which the text cuts the unit off, the 41
  that fill it with the integer part, the 78 that 32 bytes can make and the 79
  that `dec[80]` holds; values of transactions have up to 40 bytes, 32 among them.
  Numbers are chosen at and next to 0, the limb borders, the prime and its
  double, and spread between; lengths of pieces let a message end on both sides of a block and of the place
  where its padding needs one more; counts start just below the carry of their
  low word.
* The theorems below do not depend on any of these values.

### Fairness

`edges` assumes weak fairness of `PollStep`, since the main loop polls the
buttons on every turn; `PressSeen` says that a button kept down is taken as pressed whatever the others
do, and that its long press fires once all of them rest. Without rest, another
button that bounces in step with the wrap of the tick can hide a long press for
as long as it does so.

`noir_live` assumes weak fairness of each stage of the loop and of a handler
that resumes after the flash (the processor runs on and flash operations end),
strong fairness of `SendSome` (a USB host polls the interrupt endpoint at its
interval, so a queued frame is taken again and again as long as it is offered)
and strong fairness of `Decide` (a user who is asked decides). `TudReport` has
none: a host need not send anything. Without `Decide` a request with a deferred
answer would wait for the user for ever, which is what the device is meant to do.

## 4. Theorems

All hold for every value of the constants, under the named assumptions of the
modules, which TLC evaluates in the runs: constants are distinct, `MaxFails` is
positive and at most half of `CountMod` since `storage_fail_count` returns the
count as a signed number, `RawMax` is at least 2, account 0 exists; a report has
room for its header and a byte, and the queue for the longest message; a response
for the application's name; the loop never takes so long that the tick goes round
within a long press; the limits of a PIN are in order; a random number is longer
than a status; paths are sequences of numbers and the roots are keys of their
curve; a lane has at least two bytes (`LaneAssumption`, `MacAssumption`) and
counts the bits of two blocks; what is counted before a message is whole blocks,
and what is authenticated, derived from or seeds a generator consists of bytes
(`StreamsAssumption`); an amount has a digit (`FormatsAssumption`); a word for lengths has at least two
bytes (`LengthAssumption`). Three of them
are facts about numbers that the proofs of the element rest on and that a prover
would have to compute: `ChecksumTells` (an answer whose bits the bus turned, read
from any byte on, fits its checksum and the length the caller expects only if it
is the answer that was sent), `WakeChecksum` and `XorTwice`. TLC computes the
first for every answer of the instance, the third for all bytes.

Three theorems have a hypothesis about the compression of SHA-2, `Compresses`: of
eight numbers and a block of sixteen it makes eight words of a lane. The one of
the code does, since it ends in additions of lanes, and so does the constant the
run uses. It quantifies over all states and blocks, so it cannot be an assumption
that TLC evaluates. `HashesStreamedHolds` does without it.

| theorem | says | along |
|---|---|---|
| `TypeCorrect` | `Spec => []TypeOK` | one lemma per operation of each component, then per action |
| `LockAgreementHolds` | `Spec => []LockAgreement` | `LockInv` |
| `PageInRangeHolds` | `Spec => []PageInRange` | `PageInv` |
| `SeedOnlyWipedHolds` | `Spec => SeedOnlyWiped` | `FlashInv` |
| `OneWalletHolds` | `Spec => []OneWallet` | `FlashInv` |
| `SeedKeepsItsPinHolds` | `Spec => []SeedKeepsItsPin` | `FlashInv`, `PinInv` |
| `PendingOnScreenHolds` | `Spec => []PendingOnScreen` | `PendingInv` |
| `SignedAsReviewedHolds` | `~HostMayTimeOut` implies `Spec => []SignedAsReviewed` | `PatientInv` |
| `AnswerFitsRequestHolds` | the same for `AnswerFitsRequest` | `PatientInv` |
| `AnswersNotCutHolds` | the same for the action property `AnswersNotCut` | `PatientInv` |
| `SignerImplemented` | `~HostMayTimeOut` implies `Spec => SignerSpec` | `PatientInv`, `ReplyInv` |
| `LockoutAfterMaxFailsHolds` | `~PowerCuts` implies `Spec => []LockoutAfterMaxFails` | `CountInv` |
| `TriesLeftAccurateHolds` | the same for `TriesLeftAccurate` | `CountInv` |
| `SeedReachableHolds` | the same for `SeedReachable` | `CountInv`, `PinInv` |
| `VaultImplemented` | `~PowerCuts` implies `Spec => VaultSpec` | `CountInv`, `FlashInv`, `PinInv` |
| `BuffersHoldAlways` | `FrameSpec => []BuffersHold` | `BoundsInv`, the arithmetic of frames |
| `TransportImplemented` | `FrameSpec => TransportSpec` | `RefineInv`: `BoundsInv`, `HeldInv`, `OlderInv`, `MiddleInv` |
| `RandomAsDrawnHolds` | `AteccSpec => []RandomAsDrawn` | `DrawInv` |
| `ApduAnsweredHolds` | `ApduSpec => []ApduAnswered` | `ApduInv` |
| `PinAsDialledHolds` | `PinEntrySpec => []PinAsDialled` | `DialInv` |
| `LongMeansHeldHolds` | `ButtonsSpec => LongMeansHeld` | `HoldInv` |
| `CachesTransparentHolds` | `Spec => CachesTransparent`, of `Library` | `CachesKept` |
| `HashesStreamedHolds` | `Spec => []HashesStreamed` | `HashesFed` |
| `HashersResetHolds` | `Spec => HashersReset` | `Asked`, the contexts after a reset |
| `MacsRightHolds` | `Compresses(Squeezed)` implies `Spec => MacsRight` | `Asked`, `HmacIs`, `HmacResumed` |
| `KeysDerivedHolds` | the same for `KeysDerived` | `Asked`, `Kneading` |
| `NoncesAsDefinedHolds` | the same for `[]NoncesAsDefined` | `GeneratorKept`, `InStep` |
| `AmountCutHolds` | `Spec => []AmountCut` | `Asked`, the room for digits, the pixels of a text |
| `EdgesHold` | the six from `BuffersHold` to `LongMeansHeld`, of the composition `EdgesSpec` that the run checks | it implements each of its sides |

The strengthenings, and why each is needed:

* `LockInv`. A handler blocked on the flash opens the wallet when it resumes;
  the invariant adds that it can only be running on the PIN screen (where the
  wallet is closed) and that a setup past `storage_seed_set` has a seed.
* `PageInv`. The page is not reset on every screen change; what saves the code
  is that RECEIVE, the one unpaged screen that returns to a paged one with the
  page it had, was entered on page 0.
* `FlashInv`. Says which writes can be outstanding at each point of a handler,
  and that a PIN screen in setup mode implies that no seed is stored. The second
  part carries a fact established when the splash screen was left over several
  presses, a salt, and six flash writes; without it a setup could replace a seed.
* `PinInv`. Every PIN image still to be written carries the seed's own verifier
  or none, and at the end of `storage_set_pin` the sector carries the new one.
* `PendingInv`. Something pending without its screen exists only before the
  pending check of the same turn.
* `PatientInv`. For a host that waits: while something is pending the host waits
  and the queue is empty, hence no request can move the buffers behind the
  screen; the hash is that of `p_tx` and of what `raw` holds now.
* `ReplyInv`. An answer with no frame left is gone and one on its way says
  something; without it a delivery in `Noir` could be none in `Signer`.
* `CountInv`. The record, or the last of the writes under way to it, counts what
  the user was told; each point of a handler says by how much it may differ. A
  PIN is asked for only when there is a seed, and then there is a whole record,
  so no count is ever read from erased flash. With what each point of a handler
  says of the last record to be written, it gives the verdict of `Vault`: the
  comparison is of the PIN the seed was made with, and the wipe comes exactly
  when one more miss would reach the maximum.
* `RefineInv`: `BoundsInv`, `HeldInv`, `OlderInv`, `MiddleInv`. What the receiver
  holds are whole reports with each byte in its place, begun by one message and
  continued by it or by later ones (`HeldInv`); until the first report of the
  message being sent has arrived, they were begun by an older one (`OlderInv`);
  after it, the receiver is idle or holds reports of this message alone, and all
  of them if nothing went wrong (`MiddleInv`). Hence every step of the receiver is
  a step of `Transport` or a stutter: what completes is this message whole, or a
  mixture that only a lost first report allows.
* `RoutesInv` (in `ApduInv`). The table has one entry for each instruction of the
  history map and no other, with its handler, so it is full exactly when the map
  has `MaxRoutes` instructions and the first match is the only one. The entry
  that is replaced when it exists is what keeps it; `RegisteredBehind` breaks it.
* `DrawInv`. A busy call holds whole chunks, of commands of its own in ascending
  order, each in its place; what is on the bus is the answer to the last command
  or what is left of it from any byte on, because a wrong count leaves the rest
  to be polled as if it were an answer; a call that ended has as much as it
  wanted, or an error and zeros behind its last chunk.
* `DialInv`. The buffer holds the history digit by digit up to `len`, and the
  wheel stands where the last event left it.
* `HoldInv`. Until a button's long press has fired, its press tick is its own and
  the difference of ticks shows its age, with at most one wrap; a press that
  began before `buttons_init` is excepted, because its tick is 0.

* `CachesKept`. An entry holds what its path derives from the root the cache is
  for, or what PBKDF2 makes of its phrase, whatever slot it was put in and
  whatever it replaced; a failed derivation keeps nothing. That a hit and the
  last step from it are the derivation without a cache then needs two facts about
  derivation itself: a path is walked step by step, so what its beginning derives
  can be taken from elsewhere (`AlongStep`, by an induction over the path), and a
  public key that was filled in for the fingerprint changes no child
  (`FilledBefore`), for any hash and any curve.

* `HashesFed`. A context of SHA-2 is the end of a chain of states, one for each
  block of what it was fed, with the rest of the message in its buffer and the
  count of bits in two words (`WasFed`, from any whole number of blocks counted
  before); one of SHA-3 the same with stretches of its rate, which are taken into
  the state (`WasSoaked`). An update keeps it wherever the piece begins and ends in
  a block (`FedOnward`, `SoakedOnward`), and from it follows what the end gives
  (`FedFinal`, `SoakedFinal`): the last chain of the message padded whole, with
  one block more where the length no longer fits.
* `Asked`. A session still holds what it was asked: lengths, a kind of hasher that
  exists, a number written in digits without leading zeros (`WrittenOut`).
* `GeneratorKept`. There are a key K and words V for which the context is what
  `hmac_drbg.c` makes of them (`Drbg`: K as the two states behind its pads, V with
  its padding), and the generator of the standard holds the same K and V after the
  same requests. K is nowhere in the context, so it cannot be read from it; that a
  block completed by hand (`MarkAfterDomain`) is the last one of
  `K pad || V || 0` is what each step comes down to (`InnerHashIs`, `UpdateKIs`).
* `InStep`, `Kneading`. As many turns of the loop in the code and of the one in the
  definition hold the same bytes, the code's as words. For PBKDF2 these are the
  digest made last and the exclusive or of all, which is the same taken of words
  and of bytes (`XorDigests`); calls of the code that share the iterations then
  add up to one loop of the definition (`UpdateKneads`, `SumSplits`).

What `HashProofs` has for all of these: the loops of the models, which TLC nests,
are chains that can be followed turn by turn (`OuterIs` and one lemma for each
loop); words and bytes turn into each other and back (`DigestOctets`,
`OctetsBack`); HMAC of the standard is one compression from a keyed state where
the message is a digest (`ChainedTwice`). The amount needs its own: text that is
drawn into a buffer and cut by the edge of the panel, and the digits of a 64-bit
number printed one by one.

Only model-checked: `RequestAnswered` and `PressSeen`, because liveness is out of
the prover's reach; and of the library `NumbersRight`, `ScalarsRight`,
`SignaturesVerify`, `KeysAgree`, `BuildsAgree`, `DerStrict`, `SighashCommits`,
`Base58RoundTrip`, `DerivationsCommute` and `MnemonicsRead`. The arithmetic of
`Bignum` and what rests on it shifts by limbs of a width that is a constant: the
provers know nothing of a power with a variable exponent, and the facts about
curves (that additions of points associate) are no exercise for them. The parsers
and encoders walk over bytes as they find them; their loops are functions like
those above, so the same way is open. Every invariant that a passing run checks
has a theorem.

To repeat: `tlc -config X.cfg M` for each run and the MC module of its table
row, `tlapm M.tla` for each of `NoirProofs`, `StorageProofs`, `ReviewProofs`,
`FrameProofs`, `ElementProofs`, `EdgeProofs`, `HashProofs`, `LibraryProofs` (the
last two take several minutes each).

## 5. Not modelled, and what is left

* USB setup and descriptors: constant tables and peripheral initialisation; no
  state of theirs changes after boot. Fault handlers: they display and stop.
  `main_working.c.bak`: no build file compiles it.
* Display: I2C output, bitmaps, and the layout of the screens other than the
  review; glyphs are solid blocks.
* Errors of the flash HAL, which the code ignores; `storage_wipe`, which nothing
  calls.
* In the library: what the firmware does not compile or call (`aes`,
  `ed25519-donna`, BLAKE, Groestl, NEM, Cardano), the word lists and the
  constants of curves and hashes. `address.c` and the constructors of BLAKE,
  Groestl and RIPEMD appear only as external functions.

Worth doing next, in this order:

1. `DerStrict` and `Base58RoundTrip` for any input, from the lemmas about digits.
2. `BuildsAgree`: the rounds of the two builds, register by register.
3. `PinEntry` as a refinement of the one confirmed input that `Noir` takes, and
   `Transport` as the environment of `HidApp`, so that the compositions join.

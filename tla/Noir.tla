-------------------------------- MODULE Noir --------------------------------
(***************************************************************************)
(* src/src/main.c: the wallet as a whole.  One loop runs everything:       *)
(*                                                                         *)
(*   "tud"    tud_task: complete APDUs are dispatched                      *)
(*   "task"   hid_app_task: queued frames are sent                         *)
(*   "pend"   a pending approval puts its review screen up                 *)
(*   "btn"    buttons_poll, and the state machine on the event it returns  *)
(*   "flash"  a storage write the button handler is blocked on             *)
(*                                                                         *)
(* so the places where the host, the user and a power cut interleave are   *)
(* the borders between these stages and between two flash writes.          *)
(***************************************************************************)
EXTENDS HidApp, Storage

CONSTANTS
    PowerCuts       \* TRUE: power may be lost at any step

ASSUME NoirAssumption == PowerCuts \in BOOLEAN

VARIABLES
    pc,         \* stage of the main loop
    after,      \* what the handler that waits for the flash does next
    state,      \* state_t state
    page,       \* backup page, menu cursor or review page
    pinMode,    \* pin_mode
    firstPin,   \* first_pin
    entropy,    \* the local of provision()
    wseed,      \* wseed, and with it wpriv, wpub65 and waddr
    shown,      \* what the display shows
    center,     \* CENTER: "up", "down", or "held" once its long press fired
    holdOn,     \* history: CENTER is down since this review is on the display
    backedUp    \* history: the user has gone through the words of the seed

uiVars == <<state, page, shown>>
keyVars == <<gSeed, wseed>>
pinVars == <<pinMode, firstPin, entropy>>
userVars == <<center, holdOn>>

vars == <<storageVars, handlerVars, hidVars, gSeed, pc, after, state, page,
          pinMode, firstPin, entropy, wseed, shown, center, holdOn, backedUp>>

States == {"SPLASH", "PIN", "PIN_FAIL", "PIN_WIPED", "BACKUP", "READY", "HOME",
           "RECEIVE", "CONFIRM_ADDR", "REVIEW", "ERROR"}

Buttons == {"UP", "DOWN", "LEFT", "RIGHT", "CENTER"}

\* Fault: one page more than there are words for.
LastPageOneMore(st) == IF st = "BACKUP" THEN 6 ELSE 1

\* The last page UP and DOWN reach.
LastPage(st) == IF st = "BACKUP" THEN 5 ELSE 1

Paged == {"BACKUP", "HOME", "REVIEW"}

\* The states before a PIN has opened the wallet, and after a failure.
LockedStates == {"SPLASH", "PIN", "PIN_FAIL", "PIN_WIPED", "ERROR"}

-----------------------------------------------------------------------------
(* Screens.  The review shows the head of the transaction on page 0 and    *)
(* the amount, read through the pointer into raw, on page 1.               *)

ScreenItem(st, pg) ==
    CASE st = "REVIEW" /\ pg = 0   -> pTx
      [] st = "REVIEW" /\ pg # 0   -> raw[2]
      [] st = "CONFIRM_ADDR"       -> pAddr
      [] OTHER                     -> NoPiece

Screen(st, pg) == [screen |-> st, page |-> pg, item |-> ScreenItem(st, pg)]

\* render(): render_review draws nothing when no transaction is pending.
Render(st, pg) ==
    shown' = IF st = "REVIEW" /\ pending # "REVIEW_TX" THEN shown ELSE Screen(st, pg)

GoTo(st, pg) ==
    /\ state' = st
    /\ page' = pg
    /\ Render(st, pg)

-----------------------------------------------------------------------------
(* The stages before the buttons.                                          *)

TudReport ==
    /\ pc = "tud"
    /\ ReceiveApdu
    /\ UNCHANGED <<storageVars, pc, after, uiVars, pinVars, wseed, userVars, backedUp>>

TudDone ==
    /\ pc = "tud"
    /\ pc' = "task"
    /\ UNCHANGED <<storageVars, handlerVars, hidVars, gSeed, after, uiVars, pinVars,
                   wseed, userVars, backedUp>>

HidTask ==
    /\ pc = "task"
    /\ \E sent \in 0..out.left : HidAppTask(sent)
    /\ pc' = "pend"
    /\ UNCHANGED <<storageVars, after, uiVars, pinVars, wseed, userVars, backedUp>>

\* Fault: the page of the previous screen is kept.
PendingCheckKeepsPage ==
    /\ pc = "pend"
    /\ IF pending # "IDLE" /\ state \notin {"REVIEW", "CONFIRM_ADDR"}
       THEN GoTo(IF pending = "REVIEW_TX" THEN "REVIEW" ELSE "CONFIRM_ADDR", page) /\ holdOn' = FALSE
       ELSE UNCHANGED <<uiVars, holdOn>>
    /\ pc' = "btn"
    /\ UNCHANGED <<storageVars, handlerVars, hidVars, gSeed, after, pinVars, wseed,
                   center, backedUp>>

\* Fault: only HOME gives way to an approval.
PendingCheckAtHome ==
    /\ pc = "pend"
    /\ IF pending # "IDLE" /\ state = "HOME"
       THEN GoTo(IF pending = "REVIEW_TX" THEN "REVIEW" ELSE "CONFIRM_ADDR", 0) /\ holdOn' = FALSE
       ELSE UNCHANGED <<uiVars, holdOn>>
    /\ pc' = "btn"
    /\ UNCHANGED <<storageVars, handlerVars, hidVars, gSeed, after, pinVars, wseed,
                   center, backedUp>>


PendingCheck ==
    /\ pc = "pend"
    /\ IF pending # "IDLE" /\ state \notin {"REVIEW", "CONFIRM_ADDR"}
       THEN GoTo(IF pending = "REVIEW_TX" THEN "REVIEW" ELSE "CONFIRM_ADDR", 0) /\ holdOn' = FALSE
       ELSE UNCHANGED <<uiVars, holdOn>>
    /\ pc' = "btn"
    /\ UNCHANGED <<storageVars, handlerVars, hidVars, gSeed, after, pinVars, wseed,
                   center, backedUp>>

-----------------------------------------------------------------------------
(* Button events.  buttons_poll returns at most one per turn of the loop.  *)

Press(button) ==
    /\ pc = "btn"
    /\ IF button = "CENTER"
       THEN center = "up" /\ center' = "down" /\ holdOn' = (state = "REVIEW")
       ELSE UNCHANGED userVars

NextTurn == pc' = "tud" /\ UNCHANGED after

HostUntouched == UNCHANGED <<handlerVars, hidVars, gSeed>>

\* No event, or one the loop ignores: a release, or a long press anywhere
\* but on the review.
NoPress ==
    /\ pc = "btn"
    /\ \/ UNCHANGED userVars
       \/ center # "up" /\ center' = "up" /\ holdOn' = FALSE
       \/ center = "down" /\ state # "REVIEW" /\ center' = "held" /\ holdOn' = FALSE
    /\ NextTurn
    /\ HostUntouched
    /\ UNCHANGED <<storageVars, uiVars, pinVars, wseed, backedUp>>

\* CENTER held for LONG_PRESS_MS on the review: hold-to-sign.
LongPressSigns ==
    /\ pc = "btn"
    /\ center = "down"
    /\ state = "REVIEW"
    /\ center' = "held"
    /\ holdOn' = FALSE
    /\ HidAppApprove
    /\ GoTo("HOME", 0)
    /\ NextTurn
    /\ UNCHANGED <<storageVars, pinVars, wseed, backedUp>>

\* Fault: LEFT always starts a setup.
SplashLeftAlwaysSetup ==
    /\ state = "SPLASH"
    /\ Press("LEFT")
    /\ pinMode' = "SET1"
    /\ GoTo("PIN", page)
    /\ NextTurn
    /\ HostUntouched
    /\ UNCHANGED <<storageVars, firstPin, entropy, wseed, backedUp>>

\* Fault: the PIN record, and not the seed, says whether there is a wallet.
SplashLeftByPinRecord ==
    /\ state = "SPLASH"
    /\ Press("LEFT")
    /\ pinMode' = IF StorageProvisioned THEN "ENTER" ELSE "SET1"
    /\ GoTo("PIN", page)
    /\ NextTurn
    /\ HostUntouched
    /\ UNCHANGED <<storageVars, firstPin, entropy, wseed, backedUp>>


SplashLeft ==
    /\ state = "SPLASH"
    /\ Press("LEFT")
    /\ pinMode' = IF SeedExists THEN "ENTER" ELSE "SET1"
    /\ GoTo("PIN", page)
    /\ NextTurn
    /\ HostUntouched
    /\ UNCHANGED <<storageVars, firstPin, entropy, wseed, backedUp>>

\* Presses that only move between screens: (state, button) -> next state.
Moves == { <<"PIN", "RIGHT", "SPLASH">>, <<"READY", "CENTER", "HOME">>,
           <<"RECEIVE", "LEFT", "HOME">>, <<"ERROR", "CENTER", "SPLASH">> }
         \cup {<<"PIN_FAIL", b, "PIN">> : b \in Buttons}
         \cup {<<"PIN_WIPED", b, "SPLASH">> : b \in Buttons}

Move ==
    /\ \E m \in Moves :
         /\ state = m[1]
         /\ Press(m[2])
         /\ GoTo(m[3], IF state = "READY" THEN 0 ELSE page)
    /\ NextTurn
    /\ HostUntouched
    /\ UNCHANGED <<storageVars, pinVars, wseed, backedUp>>

TurnPage ==
    /\ state \in Paged
    /\ \/ Press("UP") /\ page > 0 /\ GoTo(state, page - 1)
       \/ Press("DOWN") /\ page < LastPage(state) /\ GoTo(state, page + 1)
    /\ NextTurn
    /\ HostUntouched
    /\ UNCHANGED <<storageVars, pinVars, wseed, backedUp>>

BackupDone ==
    /\ state = "BACKUP"
    /\ Press("CENTER")
    /\ backedUp' = TRUE
    /\ GoTo("READY", page)
    /\ NextTurn
    /\ HostUntouched
    /\ UNCHANGED <<storageVars, pinVars, wseed>>

HomeReceive ==
    /\ state = "HOME"
    /\ page = 0
    /\ Press("CENTER")
    /\ GoTo("RECEIVE", page)
    /\ NextTurn
    /\ HostUntouched
    /\ UNCHANGED <<storageVars, pinVars, wseed, backedUp>>

\* Fault: the cached seed survives the lock.
HomeLockKeepsSeed ==
    /\ state = "HOME"
    /\ page # 0
    /\ Press("CENTER")
    /\ wseed' = NoSeed
    /\ UNCHANGED gSeed
    /\ locked' = TRUE
    /\ WhReset
    /\ GoTo("SPLASH", page)
    /\ NextTurn
    /\ UNCHANGED <<storageVars, out, host, pinVars, backedUp>>

\* lock_wallet and hid_app_set_locked(true), which drops pending work.
HomeLock ==
    /\ state = "HOME"
    /\ page # 0
    /\ Press("CENTER")
    /\ wseed' = NoSeed
    /\ WalletStateClear
    /\ locked' = TRUE
    /\ WhReset
    /\ GoTo("SPLASH", page)
    /\ NextTurn
    /\ UNCHANGED <<storageVars, out, host, pinVars, backedUp>>

ConfirmPress ==
    /\ state = "CONFIRM_ADDR"
    /\ \/ Press("CENTER") /\ HidAppApprove
       \/ Press("LEFT") /\ HidAppReject
    /\ GoTo("HOME", 0)
    /\ NextTurn
    /\ UNCHANGED <<storageVars, pinVars, wseed, backedUp>>

ReviewReject ==
    /\ state = "REVIEW"
    /\ Press("LEFT")
    /\ HidAppReject
    /\ GoTo("HOME", 0)
    /\ NextTurn
    /\ UNCHANGED <<storageVars, pinVars, wseed, backedUp>>

\* The (state, button) pairs the switch acts on; in ST_PIN the wheel moves
\* without being part of this model (see EnterPin).
Handled(button) ==
    \/ state = "SPLASH" /\ button = "LEFT"
    \/ state = "PIN" /\ button = "RIGHT"
    \/ state \in {"PIN_FAIL", "PIN_WIPED"}
    \/ state \in Paged /\ button = "UP" /\ page > 0
    \/ state \in Paged /\ button = "DOWN" /\ page < LastPage(state)
    \/ state \in {"BACKUP", "READY", "HOME", "CONFIRM_ADDR", "ERROR"} /\ button = "CENTER"
    \/ state \in {"RECEIVE", "CONFIRM_ADDR", "REVIEW"} /\ button = "LEFT"

OtherPress ==
    /\ \E button \in Buttons : ~Handled(button) /\ Press(button)
    /\ NextTurn
    /\ HostUntouched
    /\ UNCHANGED <<storageVars, uiVars, pinVars, wseed, backedUp>>

-----------------------------------------------------------------------------
(* ST_PIN, on the CENTER press that confirms the digits entered so far.    *)

EnterPin(mode) ==
    /\ state = "PIN"
    /\ pinMode = mode
    /\ Press("CENTER")
    /\ HostUntouched

\* The handler is blocked on storage and goes on at `next`.
AwaitFlash(next) == pc' = "flash" /\ after' = next

CheckPin(pin) ==
    /\ EnterPin("ENTER")
    /\ \/ CheckPinMatch(pin)    /\ AwaitFlash("match")
       \/ CheckPinMismatch(pin) /\ AwaitFlash("mismatch")
       \/ CheckPinUnreadable    /\ AwaitFlash("mismatch")
       \/ CheckPinLockout(pin)  /\ AwaitFlash("wiped")
    /\ UNCHANGED <<uiVars, pinVars, wseed, backedUp>>

ChoosePin(pin) ==
    /\ EnterPin("SET1")
    /\ firstPin' = pin
    /\ pinMode' = "SET2"
    /\ GoTo("PIN", page)
    /\ NextTurn
    /\ UNCHANGED <<storageVars, entropy, wseed, backedUp>>

\* The salt may be unavailable: get_salt fails with the secure element.
RepeatPin(pin) ==
    /\ EnterPin("SET2")
    /\ IF pin = firstPin
       THEN /\ UNCHANGED pinMode
            /\ \/ StorageSetPin(pin) /\ AwaitFlash("pinset") /\ UNCHANGED uiVars
               \/ GoTo("ERROR", page) /\ NextTurn /\ UNCHANGED storageVars
       ELSE /\ pinMode' = "SET1"
            /\ GoTo("PIN_FAIL", page)
            /\ NextTurn
            /\ UNCHANGED storageVars
    /\ UNCHANGED <<firstPin, entropy, wseed, backedUp>>

-----------------------------------------------------------------------------
(* What the handler does once its flash writes are done.                   *)

Flash ==
    /\ pc = "flash"
    /\ FlashStep
    /\ HostUntouched
    /\ UNCHANGED <<pc, after, uiVars, pinVars, wseed, userVars, backedUp>>

Resume(next) ==
    /\ pc = "flash"
    /\ after = next
    /\ flashOps = <<>>
    /\ UNCHANGED userVars

Done == pc' = "tud" /\ after' = "none"

\* Fault: the displayed account is not derived anew.
UnlockKeepsKeys ==
    /\ Resume("match")
    /\ ForgetMisses
    /\ UNCHANGED wseed
    /\ \/ /\ SeedExists
          /\ WalletStateSetSeed(seedSector)
          /\ locked' = FALSE
          /\ GoTo("HOME", 0)
       \/ /\ GoTo("ERROR", page)
          /\ UNCHANGED <<gSeed, locked>>
    /\ Done
    /\ UNCHANGED <<flashVars, seedPin, handlerVars, out, host, pinVars, backedUp>>

\* unlock_wallet, then hid_app_set_locked(false).  A key that cannot be
\* derived leaves wseed behind and the wallet locked.
Unlock ==
    /\ Resume("match")
    /\ ForgetMisses
    /\ wseed' = IF SeedExists THEN seedSector ELSE wseed
    /\ \/ /\ SeedExists
          /\ WalletStateSetSeed(seedSector)
          /\ locked' = FALSE
          /\ GoTo("HOME", 0)
       \/ /\ GoTo("ERROR", page)
          /\ UNCHANGED <<gSeed, locked>>
    /\ Done
    /\ UNCHANGED <<flashVars, seedPin, handlerVars, out, host, pinVars, backedUp>>

WrongPin ==
    /\ Resume("mismatch")
    /\ ReportMismatch
    /\ GoTo("PIN_FAIL", page)
    /\ Done
    /\ HostUntouched
    /\ UNCHANGED <<flashVars, seedPin, pinVars, wseed, backedUp>>

Wiped ==
    /\ Resume("wiped")
    /\ ForgetMisses
    /\ GoTo("PIN_WIPED", page)
    /\ Done
    /\ HostUntouched
    /\ UNCHANGED <<flashVars, seedPin, pinVars, wseed, backedUp>>

\* provision(), up to storage_seed_set; the random source may fail.
Provision ==
    /\ Resume("pinset")
    /\ \/ \E seed \in Seeds :
            /\ entropy' = seed
            /\ StorageSeedSet(seed, firstPin)
            /\ backedUp' = FALSE
            /\ AwaitFlash("seedset")
            /\ shown' = [screen |-> "GENERATING", page |-> page, item |-> NoPiece]
            /\ UNCHANGED <<state, page>>
       \/ /\ GoTo("ERROR", page)
          /\ Done
          /\ UNCHANGED <<storageVars, entropy, backedUp>>
    /\ HostUntouched
    /\ UNCHANGED <<pinMode, firstPin, wseed>>

\* The rest of provision(): derive the keys, unlock, and show the words.
Provisioned ==
    /\ Resume("seedset")
    /\ wseed' = entropy
    /\ entropy' = NoSeed
    /\ \/ /\ WalletStateSetSeed(entropy)
          /\ locked' = FALSE
          /\ GoTo("BACKUP", 0)
       \/ /\ GoTo("ERROR", page)
          /\ UNCHANGED <<gSeed, locked>>
    /\ Done
    /\ UNCHANGED <<storageVars, handlerVars, out, host, pinMode, firstPin, backedUp>>

-----------------------------------------------------------------------------
\* Power is lost and comes back: RAM is as at boot, the sectors keep what
\* they hold, and the host has lost its device.  CENTER may be held at boot.
PowerCut ==
    /\ PowerCuts
    /\ flashOps' = <<>>
    /\ UNCHANGED <<pinSector, seedSector, misses, seedPin>>
    /\ gSeed' = NoSeed
    /\ pending' = "IDLE" /\ pTx' = NoPiece /\ pSighash' = NoHash /\ pIndex' = 0
    /\ pAddr' = NoAddress /\ raw' = [k \in 1..RawMax |-> NoPiece] /\ rawLen' = 0
    /\ txIndex' = NoIndex
    /\ locked' = TRUE /\ out' = NothingQueued /\ host' = NoRequest
    /\ pc' = "tud" /\ after' = "none"
    /\ state' = "SPLASH" /\ page' = 0
    /\ shown' = [screen |-> "SPLASH", page |-> 0, item |-> NoPiece]
    /\ pinMode' = "ENTER" /\ firstPin' = NoPin /\ entropy' = NoSeed /\ wseed' = NoSeed
    /\ center' \in {"up", "down"}
    /\ holdOn' = FALSE
    /\ UNCHANGED backedUp

Init ==
    /\ StorageInit
    /\ HidInit
    /\ pc = "tud" /\ after = "none"
    /\ state = "SPLASH" /\ page = 0
    /\ shown = [screen |-> "SPLASH", page |-> 0, item |-> NoPiece]
    /\ pinMode = "ENTER" /\ firstPin = NoPin /\ entropy = NoSeed /\ wseed = NoSeed
    /\ center = "up"
    /\ holdOn = FALSE
    /\ backedUp = FALSE

Button ==
    \/ NoPress \/ LongPressSigns \/ SplashLeft \/ Move \/ TurnPage \/ BackupDone
    \/ HomeReceive \/ HomeLock \/ ConfirmPress \/ ReviewReject \/ OtherPress
    \/ \E pin \in Pins : CheckPin(pin) \/ ChoosePin(pin) \/ RepeatPin(pin)

Continue == Flash \/ Unlock \/ WrongPin \/ Wiped \/ Provision \/ Provisioned

Next ==
    \/ TudReport \/ TudDone \/ HidTask \/ PendingCheck
    \/ Button
    \/ Continue
    \/ PowerCut

Spec == Init /\ [][Next]_vars

-----------------------------------------------------------------------------
(* Type invariant.                                                         *)

Afters == {"none", "match", "mismatch", "wiped", "pinset", "seedset"}

\* The ranges of the variables.
TypeOK ==
    /\ StorageTypeOK
    /\ HidTypeOK
    /\ pc \in {"tud", "task", "pend", "btn", "flash"}
    /\ after \in Afters
    /\ state \in States
    /\ page \in 0..5
    /\ pinMode \in {"ENTER", "SET1", "SET2"}
    /\ firstPin \in Pins \cup {NoPin}
    /\ entropy \in SeedOrNone
    /\ wseed \in SeedOrNone
    /\ shown \in [screen : States \cup {"GENERATING"}, page : 0..5,
                  item : PieceOrNone \cup AddressType]
    /\ center \in {"up", "down", "held"}
    /\ holdOn \in BOOLEAN
    /\ backedUp \in BOOLEAN

-----------------------------------------------------------------------------
(* Safety.                                                                 *)

\* The three places that know whether the wallet is open agree at every step:
\* the lock gate of apdu.c, the seed cache of wallet_state.c and the screen
\* main.c is in.  Nothing waits for approval while the wallet is locked.
LockAgreement ==
    /\ locked <=> state \in LockedStates
    /\ locked <=> gSeed = NoSeed
    /\ locked => pending = "IDLE"

\* While the wallet is open, the address main.c shows (from wseed), the key
\* wallet_state.c signs with and the seed in flash are one wallet.
OneWallet == ~locked => wseed = gSeed /\ seedSector = gSeed

\* words[] and the menus are indexed by a page that is left over from other
\* screens: it is in range whenever a paged screen is up.
PageInRange == state \in Paged => page <= LastPage(state)

\* When a button event is handled, an approval is pending exactly when one of
\* the two approval screens is up.
PendingOnScreen ==
    pc = "btn" => (pending # "IDLE" <=> state \in {"REVIEW", "CONFIRM_ADDR"})

\* What hold-to-sign signs is what the display shows: the piece of the
\* transaction on the screen is the one that was hashed, the v byte comes from
\* the same transaction, and a confirmed address is the one displayed.
SignedAsReviewed ==
    pc = "btn" =>
        /\ state = "REVIEW" =>
             /\ pending = "REVIEW_TX"
             /\ shown.screen = "REVIEW"
             /\ shown.item = IF shown.page = 0 THEN pSighash.head ELSE pSighash.tail
             /\ pTx = pSighash.head
        /\ state = "CONFIRM_ADDR" =>
             /\ pending = "CONFIRM_ADDR"
             /\ shown.screen = "CONFIRM_ADDR"
             /\ shown.item = pAddr

\* An answer that leaves the device belongs to the request the host waits for:
\* a signature to SIGN_TX, an address to the GET_PUBLIC_KEY of its account.
AnswerFitsRequest ==
    out.left > 0 =>
        /\ out.answer.body \in Signatures => host.ins = "SIGN_TX"
        /\ out.answer.body \in AddressType =>
             /\ host.ins = "GET_PUBKEY"
             /\ host.index = out.answer.body.index

\* An answer of which frames are still queued is sent to its end: no other
\* answer takes its place half-way.
AnswersNotCut ==
    [][out.left > 0 =>
         \/ out' = NothingQueued
         \/ out'.answer = out.answer /\ out'.left <= out.left]_vars

\* A wallet's seed leaves the flash only when storage_check_pin wipes it: no
\* setup, failure or power cut erases or replaces it.
SeedOnlyWiped ==
    [][SeedExists /\ seedSector' # seedSector => after = "wiped"]_vars

\* A stored seed opens with the PIN chosen when it was made, or with none.
SeedKeepsItsPin == SeedExists => pinSector.verifier \in {NoPin, seedPin}

\* "power-cycling never loses state": between two writes, a stored seed can be
\* unlocked with its PIN.
SeedReachable ==
    SeedExists /\ flashOps = <<>> => PinReadable /\ Verifies(seedPin)

\* The user is never told MaxFails times in a row that the PIN was wrong: the
\* last of these attempts wipes the device instead.
LockoutAfterMaxFails == misses < MaxFails

\* The tries left that the WRONG PIN screen shows are the ones there are.
TriesLeftAccurate == state = "PIN_FAIL" => StorageFailCount = misses

\* HOME is reached only after the user went through the words of the seed.
HomeOnlyAfterBackup == state = "HOME" => backedUp

\* A hold that is about to sign began on the review it signs.
HoldStartsOnReview ==
    pc = "btn" /\ state = "REVIEW" /\ center = "down" => holdOn

\* A transaction under review is signed by the account named in the path of
\* its own first chunk.
AccountAsRequested ==
    pending = "REVIEW_TX" /\ txIndex # NoIndex => pIndex = txIndex

-----------------------------------------------------------------------------
(* Refinement.                                                             *)

\* What waits for the user, and what of it the display holds.
Asked == CASE pending = "CONFIRM_ADDR" -> <<pAddr>>
           [] pending = "REVIEW_TX"    -> <<pTx, raw[2]>>
           [] OTHER                    -> <<>>
Seen == IF state \in {"REVIEW", "CONFIRM_ADDR"} THEN <<shown.item>> ELSE <<>>

Promise == INSTANCE Signer WITH
    wallet <- gSeed, request <- host, named <- pIndex, asked <- Asked, seen <- Seen, reply <- out.answer

\* To a host that waits for its answers the wallet, with its loop, buffers,
\* frames and pages, is an implementation of Signer.
SignerSpec == Promise!Spec

\* What came of the PIN just entered, until the wallet has acted on it.
Verdict == CASE after = "match"                  -> "right"
             [] after = "mismatch"               -> "wrong"
             [] after = "wiped" /\ SeedExists    -> "last"
             [] after = "seedset" /\ SeedExists  -> "new"
             [] OTHER                            -> "none"

Keeping == INSTANCE Vault WITH
    kept <- seedSector, key <- IF SeedExists THEN seedPin ELSE NoPin,
    missed <- IF SeedExists THEN misses ELSE 0, verdict <- Verdict, open <- gSeed

\* As long as power is not cut, screens, records and flash writes implement Vault.
VaultSpec == Keeping!Spec

-----------------------------------------------------------------------------
(* Liveness.  The loop never stops; the host keeps polling the endpoint;   *)
(* the user sooner or later decides on what a review screen asks.          *)

SendSome ==
    /\ HidTask
    /\ out.left > 0
    /\ out'.left < out.left

Decide == LongPressSigns \/ ConfirmPress \/ ReviewReject

Fairness ==
    /\ WF_vars(TudDone)
    /\ WF_vars(HidTask)
    /\ WF_vars(PendingCheck)
    /\ WF_vars(Button)
    /\ WF_vars(Continue)
    /\ SF_vars(SendSome)
    /\ SF_vars(Decide)

FairSpec == Spec /\ Fairness

\* A host that waits for an answer gets one.
RequestAnswered == host # NoRequest ~> host = NoRequest
=============================================================================

--------------------------- MODULE StorageProofs ---------------------------
(***************************************************************************)
(* What the flash holds, proved for every value of the constants and with  *)
(* power cuts at any step: a seed is only ever erased by the lockout, it   *)
(* keeps the PIN it was made with, and an open wallet is the stored one.   *)
(***************************************************************************)
EXTENDS NoirProofs

SeedOp(seed) == [sector |-> "seed", to |-> seed]

PinOps(ops) == \A k \in 1..Len(ops) : ops[k].sector = "pin"

Erases(ops) == \A k \in 1..Len(ops) : ops[k] \in {ErasePin, EraseSeed}

(* Which writes can be under way.  A setup writes a seed only where there  *)
(* is none: the PIN screen it runs on was opened when storage_seed_exists  *)
(* was FALSE, and nothing since has written one.                           *)
FlashInv ==
    /\ after # "none" => pc = "flash"
    /\ flashOps # <<>> => pc = "flash" /\ after # "none"
    /\ after \in {"match", "mismatch", "pinset"} => PinOps(flashOps)
    /\ after = "wiped" => Erases(flashOps) /\ pinMode = "ENTER"
    /\ after = "pinset" => pinMode = "SET2"
    /\ after = "seedset" =>
         \/ flashOps = <<EraseSeed, SeedOp(entropy)>> /\ seedSector = NoSeed
         \/ flashOps = <<SeedOp(entropy)>> /\ seedSector = NoSeed
         \/ flashOps = <<>> /\ seedSector = entropy
    /\ after # "seedset" /\ state \in {"PIN", "PIN_FAIL"} /\ pinMode # "ENTER" =>
         seedSector = NoSeed

(* The PIN record of a stored seed, and what is being written to it.       *)
PinInv ==
    /\ SeedKeepsItsPin
    /\ SeedExists =>
         \A k \in 1..Len(flashOps) :
             flashOps[k].sector = "pin" => flashOps[k].to.verifier \in {NoPin, seedPin}
    /\ after = "pinset" =>
         IF flashOps = <<>> THEN pinSector.verifier = firstPin
                            ELSE flashOps[Len(flashOps)].to.verifier = firstPin
    /\ after = "seedset" => pinSector.verifier = seedPin

-----------------------------------------------------------------------------
(* The writes of one operation.                                            *)

\* flash_write of a PIN record: only PIN sector contents, each with the new
\* verifier or none, the last with the new one.
LEMMA WritePinOps ==
    ASSUME NEW verifier, NEW fails
    PROVE  /\ Len(WritePin(verifier, fails)) = 6
           /\ PinOps(WritePin(verifier, fails))
           /\ WritePin(verifier, fails) # <<>>
           /\ \A k \in 1..6 : WritePin(verifier, fails)[k].to.verifier \in {NoPin, verifier}
           /\ WritePin(verifier, fails)[6].to.verifier = verifier
<1>1. \A k \in 1..6 : /\ WritePin(verifier, fails)[k].sector = "pin"
                      /\ WritePin(verifier, fails)[k].to = PinImage(k - 1, verifier, fails)
  BY DEF WritePin
<1>2. DOMAIN WritePin(verifier, fails) = 1..6
  BY DEF WritePin
<1>3. WritePin(verifier, fails) \in Seq({WritePin(verifier, fails)[k] : k \in 1..6})
  <2>1. WritePin(verifier, fails) \in [1..6 -> {WritePin(verifier, fails)[k] : k \in 1..6}]
    BY DEF WritePin
  <2> QED BY <2>1, SeqDef
<1>4. Len(WritePin(verifier, fails)) = 6
  BY <1>2, <1>3
<1>5. \A k \in 1..6 : /\ PinImage(k - 1, verifier, fails).verifier \in {NoPin, verifier}
                      /\ k = 6 => PinImage(k - 1, verifier, fails).verifier = verifier
  BY DEF PinImage
<1>6. WritePin(verifier, fails) # <<>>
  BY <1>4
<1> QED BY <1>1, <1>4, <1>5, <1>6 DEF PinOps

\* One step of a flash write: its first content goes to the sector it names.
LEMMA FlashStepEffect ==
    ASSUME flashOps \in Seq(FlashOp), FlashStep
    PROVE  /\ Len(flashOps) \in Nat \ {0}
           /\ Len(flashOps') = Len(flashOps) - 1
           /\ \A k \in 1..Len(flashOps') : flashOps'[k] = flashOps[k + 1]
           /\ flashOps[1].sector = "pin" =>
                pinSector' = flashOps[1].to /\ UNCHANGED seedSector
           /\ flashOps[1].sector # "pin" =>
                seedSector' = flashOps[1].to /\ UNCHANGED pinSector
           /\ flashOps' = <<>> <=> Len(flashOps) = 1
           /\ UNCHANGED seedPin
<1>1. flashOps # <<>> /\ flashOps' = Tail(flashOps) /\ Head(flashOps) = flashOps[1]
  BY DEF FlashStep
<1>2. Len(flashOps) \in Nat \ {0}
  BY <1>1
<1>3. /\ flashOps' \in Seq(FlashOp)
      /\ Len(flashOps') = Len(flashOps) - 1
      /\ \A k \in 1..Len(flashOps') : flashOps'[k] = flashOps[k + 1]
  BY <1>1, HeadTailProperties
<1>4. flashOps' = <<>> <=> Len(flashOps) = 1
  BY <1>2, <1>3
<1> QED BY <1>1, <1>2, <1>3, <1>4 DEF FlashStep

-----------------------------------------------------------------------------
(* FlashInv.                                                               *)

LEMMA FlashInit == Init => FlashInv
BY DEF Init, StorageInit, FlashInv

\* Only handlers of the PIN screen and the flash touch what FlashInv is about.
LEMMA FlashUnchanged ==
    ASSUME FlashInv, after = "none", after' = "none",
           UNCHANGED <<flashOps, seedSector, pinMode>>,
           state' \in {"PIN", "PIN_FAIL"} => state \in {"PIN", "PIN_FAIL"}
    PROVE  FlashInv'
BY DEF FlashInv

\* Every button event.
LEMMA FlashButton ==
    ASSUME TypeOK, LockInv, FlashInv, Button
    PROVE  FlashInv'
<1>1. pc = "btn" /\ after = "none" /\ flashOps = <<>>
  <2>1. pc = "btn"
    BY DEF Button, NoPress, LongPressSigns, SplashLeft, Move, TurnPage, BackupDone, HomeReceive,
           HomeLock, ConfirmPress, ReviewReject, OtherPress, CheckPin, ChoosePin, RepeatPin,
           EnterPin, Press
  <2> QED BY <2>1 DEF FlashInv
<1> USE DEF NextTurn, storageVars, pinVars, uiVars, GoTo
<1>2. CASE NoPress \/ LongPressSigns \/ TurnPage \/ BackupDone \/ HomeReceive \/ HomeLock
           \/ ConfirmPress \/ ReviewReject \/ OtherPress
  BY <1>1, <1>2, FlashUnchanged
     DEF NoPress, LongPressSigns, TurnPage, BackupDone, HomeReceive, HomeLock,
         ConfirmPress, ReviewReject, OtherPress
<1>3. CASE Move
  <2>1. PICK m \in Moves : state = m[1] /\ state' = m[3]
    BY <1>3 DEF Move
  <2>2. state' \in {"PIN", "PIN_FAIL"} => state \in {"PIN", "PIN_FAIL"}
    BY <2>1 DEF Moves
  <2> QED BY <1>1, <1>3, <2>2, FlashUnchanged DEF Move
<1>4. CASE SplashLeft
  BY <1>1, <1>4 DEF SplashLeft, SeedExists, FlashInv
<1>5. ASSUME NEW pin \in Pins, CheckPin(pin)
      PROVE  FlashInv'
  <2>1. /\ state' = "PIN" /\ pinMode' = "ENTER" /\ pc' = "flash"
        /\ after' \in {"match", "mismatch", "wiped"}
    BY <1>5 DEF CheckPin, EnterPin, AwaitFlash
  <2>2. PinOps(<<>>)
    BY DEF PinOps
  <2>3. after' \in {"match", "mismatch"} => PinOps(flashOps')
    BY <1>1, <1>5, <2>2, WritePinOps
       DEF CheckPin, CheckPinMatch, CheckPinMismatch, CheckPinUnreadable, CheckPinLockout,
           AwaitFlash
  <2>4. after' = "wiped" => Erases(flashOps')
    <3>1. Erases(<<ErasePin, EraseSeed>>)
      BY DEF Erases
    <3> QED BY <1>5, <3>1 DEF CheckPin, CheckPinLockout, AwaitFlash
  <2> QED BY <2>1, <2>3, <2>4 DEF FlashInv
<1>6. ASSUME NEW pin \in Pins, ChoosePin(pin)
      PROVE  FlashInv'
  BY <1>1, <1>6 DEF ChoosePin, EnterPin, FlashInv
<1>7. ASSUME NEW pin \in Pins, RepeatPin(pin)
      PROVE  FlashInv'
  <2>1. seedSector = NoSeed /\ UNCHANGED seedSector
    BY <1>1, <1>7 DEF RepeatPin, EnterPin, FlashInv, StorageSetPin
  <2>2. CASE StorageSetPin(pin) /\ AwaitFlash("pinset") /\ UNCHANGED pinMode
    <3>1. PinOps(flashOps') /\ after' = "pinset" /\ pc' = "flash" /\ pinMode' = "SET2"
      BY <1>7, <2>2, WritePinOps DEF StorageSetPin, AwaitFlash, RepeatPin, EnterPin
    <3> QED BY <2>1, <3>1 DEF FlashInv
  <2>3. CASE UNCHANGED <<flashOps, after>>
    BY <1>1, <2>1, <2>3 DEF FlashInv
  <2> QED BY <1>7, <2>2, <2>3 DEF RepeatPin
<1> QED BY <1>2, <1>3, <1>4, <1>5, <1>6, <1>7 DEF Button

\* Every way a handler goes on after its flash writes, and the writes.
LEMMA FlashContinue ==
    ASSUME TypeOK, LockInv, FlashInv, Continue
    PROVE  FlashInv'
<1>1. pc = "flash" /\ state = "PIN"
  BY DEF Continue, Flash, Unlock, WrongPin, Wiped, Provision, Provisioned, Resume, LockInv
<1> USE DEF Resume, Done, storageVars, flashVars, pinVars, GoTo, SeedExists
<1>2. CASE Flash
  <2>1. flashOps \in Seq(FlashOp) /\ FlashStep /\ flashOps # <<>> /\ after # "none"
    BY <1>2 DEF TypeOK, StorageTypeOK, Flash, FlashStep, FlashInv
  <2>2. UNCHANGED <<pc, after, state, pinMode, entropy>>
    BY <1>2 DEF Flash, uiVars
  <2>3. CASE after \in {"match", "mismatch", "pinset"}
    <3>1. flashOps[1].sector = "pin" /\ PinOps(flashOps')
      BY <2>1, <2>3, FlashStepEffect DEF FlashInv, PinOps
    <3>2. UNCHANGED seedSector
      BY <2>1, <3>1, FlashStepEffect
    <3> QED BY <1>1, <2>2, <2>3, <3>1, <3>2 DEF FlashInv
  <2>4. CASE after = "wiped"
    <3>1. Erases(flashOps')
      BY <2>1, <2>4, FlashStepEffect DEF FlashInv, Erases
    <3> QED BY <1>1, <2>2, <2>4, <3>1 DEF FlashInv
  <2>5. CASE after = "seedset"
    <3>1. CASE flashOps = <<EraseSeed, SeedOp(entropy)>>
      <4>1. flashOps' = <<SeedOp(entropy)>> /\ seedSector' = NoSeed
        BY <2>1, <3>1 DEF FlashStep, EraseSeed
      <4> QED BY <1>1, <2>2, <2>5, <4>1 DEF FlashInv
    <3>2. CASE flashOps = <<SeedOp(entropy)>>
      <4>1. Len(flashOps) = 1 /\ flashOps[1].sector = "seed" /\ flashOps[1].to = entropy
        BY <3>2 DEF SeedOp
      <4>2. flashOps' = <<>> /\ seedSector' = entropy
        BY <2>1, <4>1, FlashStepEffect
      <4> QED BY <1>1, <2>2, <2>5, <4>2 DEF FlashInv
    <3> QED BY <2>1, <2>5, <3>1, <3>2 DEF FlashInv
  <2> QED BY <2>1, <2>3, <2>4, <2>5 DEF TypeOK, Afters
<1>3. CASE Unlock
  BY <1>3 DEF Unlock, FlashInv
<1>4. CASE Wiped
  BY <1>4 DEF Wiped, FlashInv
<1>5. CASE WrongPin
  BY <1>1, <1>5 DEF WrongPin, FlashInv
<1>6. CASE Provision
  <2>1. seedSector = NoSeed /\ UNCHANGED seedSector
    BY <1>1, <1>6 DEF Provision, FlashInv, StorageSeedSet
  <2>2. flashOps = <<>>
    BY <1>6 DEF Provision
  <2>3. CASE state' = "ERROR" /\ after' = "none" /\ UNCHANGED <<flashOps, seedSector>>
    BY <2>2, <2>3 DEF FlashInv
  <2>4. ASSUME NEW seed \in Seeds, entropy' = seed, StorageSeedSet(seed, firstPin),
               AwaitFlash("seedset")
        PROVE  FlashInv'
    <3>1. flashOps' = <<EraseSeed, SeedOp(entropy')>>
      BY <2>4 DEF StorageSeedSet, WriteSeed, SeedOp
    <3> QED BY <2>1, <2>4, <3>1 DEF FlashInv, AwaitFlash
  <2> QED BY <1>6, <2>3, <2>4 DEF Provision
<1>7. CASE Provisioned
  BY <1>7 DEF Provisioned, FlashInv
<1> QED BY <1>2, <1>3, <1>4, <1>5, <1>6, <1>7 DEF Continue

LEMMA FlashInvStep ==
    ASSUME TypeOK, LockInv, FlashInv, [Next]_vars
    PROVE  FlashInv'
<1> USE DEF storageVars, uiVars, pinVars
<1>1. CASE TudReport \/ TudDone \/ HidTask
  <2>1. UNCHANGED <<flashOps, seedSector, after, state, pinMode, entropy>> /\ pc \in {"tud", "task"}
    BY <1>1 DEF TudReport, TudDone, HidTask
  <2> QED BY <2>1 DEF FlashInv
<1>2. CASE PendingCheck
  BY <1>2 DEF PendingCheck, GoTo, FlashInv
<1>3. CASE PowerCut
  BY <1>3 DEF PowerCut, FlashInv
<1>4. CASE UNCHANGED vars
  BY <1>4 DEF vars, FlashInv
<1> QED BY <1>1, <1>2, <1>3, <1>4, FlashButton, FlashContinue DEF Next

-----------------------------------------------------------------------------
(* The theorems.                                                           *)

\* The seed sector changes only in a flash write, and between two of them
\* FlashInv says which: the erase and the write of a setup that found no seed,
\* or the erase of the lockout.
LEMMA SeedSectorStep ==
    ASSUME TypeOK, FlashInv, [Next]_vars
    PROVE  /\ seedSector' # seedSector => pc = "flash" /\ Flash
           /\ SeedExists /\ seedSector' # seedSector => after = "wiped"
<1> USE DEF storageVars, flashVars
<1>1. seedSector' # seedSector => Flash
  <2>1. CASE TudReport \/ TudDone \/ HidTask \/ PendingCheck \/ PowerCut
    BY <2>1 DEF TudReport, TudDone, HidTask, PendingCheck, PowerCut
  <2>2. CASE Button
    BY <2>2 DEF Button, NoPress, LongPressSigns, SplashLeft, Move, TurnPage, BackupDone,
                HomeReceive, HomeLock, ConfirmPress, ReviewReject, OtherPress, CheckPin,
                CheckPinMatch, CheckPinMismatch, CheckPinUnreadable, CheckPinLockout, ChoosePin,
                RepeatPin, StorageSetPin
  <2>3. CASE Continue
    BY <2>3 DEF Continue, Unlock, WrongPin, Wiped, Provision, StorageSeedSet, Provisioned
  <2>4. CASE UNCHANGED vars
    BY <2>4 DEF vars
  <2> QED BY <2>1, <2>2, <2>3, <2>4 DEF Next
<1>2. ASSUME Flash, SeedExists, seedSector' # seedSector
      PROVE  after = "wiped"
  <2>1. flashOps \in Seq(FlashOp) /\ FlashStep /\ after # "none"
    BY <1>2 DEF TypeOK, StorageTypeOK, Flash, FlashStep, FlashInv
  <2>2. Len(flashOps) \in Nat \ {0} /\ flashOps[1].sector # "pin"
    BY <1>2, <2>1, FlashStepEffect
  <2>3. ~PinOps(flashOps)
    BY <2>2 DEF PinOps
  <2>4. flashOps # <<>>
    BY <2>1 DEF FlashStep
  <2> QED BY <1>2, <2>1, <2>3, <2>4 DEF FlashInv, SeedExists, TypeOK, Afters
<1> QED BY <1>1, <1>2 DEF Flash

FlashAll == TypeOK /\ LockInv /\ FlashInv

LEMMA FlashInvariant == Spec => []FlashAll
<1>1. Init => FlashAll
  BY InitType, LockInit, FlashInit DEF FlashAll
<1>2. FlashAll /\ [Next]_vars => FlashAll'
  BY NextType, LockStep, FlashInvStep DEF FlashAll
<1> QED BY <1>1, <1>2, PTL DEF Spec

\* A stored seed leaves the flash only when too many wrong PINs wipe it: no
\* setup, failure or power cut, at any point of any write, erases or replaces it.
THEOREM SeedOnlyWipedHolds == Spec => SeedOnlyWiped
<1>1. FlashAll /\ [Next]_vars => [SeedExists /\ seedSector' # seedSector => after = "wiped"]_vars
  BY SeedSectorStep DEF FlashAll
<1> QED BY <1>1, FlashInvariant, PTL DEF Spec, SeedOnlyWiped

-----------------------------------------------------------------------------
(* One wallet.                                                             *)

LEMMA OneWalletStep ==
    ASSUME FlashAll, OneWallet, [Next]_vars
    PROVE  OneWallet'
<1> USE DEF FlashAll, OneWallet
<1>1. locked \in BOOLEAN /\ (locked <=> state \in LockedStates) /\ (pc = "flash" => locked)
  BY DEF LockInv, LockAgreement, LockedStates
<1>2. CASE UNCHANGED <<locked, wseed, gSeed>>
  <2>1. CASE locked
    BY <1>2, <2>1
  <2>2. CASE ~locked
    BY <1>1, <1>2, <2>2, SeedSectorStep
  <2> QED BY <2>1, <2>2
<1>3. CASE HomeLock \/ PowerCut
  BY <1>3 DEF HomeLock, PowerCut
<1>4. CASE Unlock
  <2>1. locked /\ UNCHANGED seedSector
    BY <1>1, <1>4 DEF Unlock, Resume, flashVars
  <2>2. \/ SeedExists /\ gSeed' = seedSector /\ wseed' = seedSector
        \/ UNCHANGED locked
    BY <1>4 DEF Unlock, WalletStateSetSeed
  <2> QED BY <2>1, <2>2
<1>5. CASE Provisioned
  <2>1. seedSector = entropy /\ UNCHANGED seedSector
    BY <1>5 DEF Provisioned, Resume, FlashInv, storageVars
  <2>2. locked /\ wseed' = entropy /\ (gSeed' = entropy \/ UNCHANGED locked)
    BY <1>1, <1>5 DEF Provisioned, WalletStateSetSeed, Resume
  <2> QED BY <2>1, <2>2
<1>6. CASE TudReport \/ TudDone \/ HidTask \/ PendingCheck
  <2>1. UNCHANGED <<locked, wseed, gSeed>>
    BY <1>6, ReceiveApduLock DEF TudReport, TudDone, HidTask, HidAppTask, PendingCheck, hidVars
  <2> QED BY <1>2, <2>1
<1>7. CASE Button
  <2>1. HomeLock \/ UNCHANGED <<locked, wseed, gSeed>>
    BY <1>7, DecisionLock
       DEF Button, NoPress, LongPressSigns, SplashLeft, Move, TurnPage, BackupDone, HomeReceive,
           ConfirmPress, ReviewReject, OtherPress, CheckPin, ChoosePin, RepeatPin, EnterPin,
           HostUntouched, hidVars
  <2> QED BY <1>2, <1>3, <2>1
<1>8. CASE Continue
  <2>1. Unlock \/ Provisioned \/ UNCHANGED <<locked, wseed, gSeed>>
    BY <1>8 DEF Continue, Flash, WrongPin, Wiped, Provision, HostUntouched, hidVars
  <2> QED BY <1>2, <1>4, <1>5, <2>1
<1>9. CASE UNCHANGED vars
  BY <1>2, <1>9 DEF vars, hidVars
<1> QED BY <1>3, <1>6, <1>7, <1>8, <1>9 DEF Next

\* While the wallet is open, the seed behind the displayed address, the seed
\* that signs and the seed in flash are the same.
THEOREM OneWalletHolds == Spec => []OneWallet
<1>1. Init => OneWallet
  BY DEF Init, HidInit, OneWallet
<1>2. FlashAll /\ OneWallet /\ [Next]_vars => OneWallet'
  BY OneWalletStep
<1> QED BY <1>1, <1>2, FlashInvariant, PTL DEF Spec

-----------------------------------------------------------------------------
(* The PIN of a stored seed.                                               *)

LEMMA PinInvInit == Init => PinInv
BY DEF Init, StorageInit, PinInv, SeedKeepsItsPin, SeedExists

\* Steps that touch neither the flash nor what is to be written to it.
LEMMA PinUnchanged ==
    ASSUME PinInv, UNCHANGED <<pinSector, seedSector, seedPin>>, after' = "none",
           flashOps' = <<>>
    PROVE  PinInv'
<1>1. Len(flashOps') = 0
  OBVIOUS
<1> QED BY <1>1 DEF PinInv, SeedKeepsItsPin, SeedExists

\* storage_check_pin writes the verifier back that it read.
LEMMA PinChecked ==
    ASSUME FlashAll, PinInv, NEW pin \in Pins, CheckPin(pin)
    PROVE  PinInv'
<1>1. /\ flashOps = <<>> /\ UNCHANGED <<pinSector, seedSector, seedPin>>
      /\ after' \in {"match", "mismatch", "wiped"}
  BY DEF FlashAll, FlashInv, CheckPin, EnterPin, Press, AwaitFlash, CheckPinMatch,
         CheckPinMismatch, CheckPinUnreadable, CheckPinLockout, storageVars
<1>2. \/ flashOps' = <<>>
      \/ \E fails : flashOps' = WritePin(pinSector.verifier, fails)
      \/ flashOps' = <<ErasePin, EraseSeed>>
  BY <1>1 DEF CheckPin, CheckPinMatch, CheckPinMismatch, CheckPinUnreadable, CheckPinLockout,
              storageVars
<1>3. ErasePin.to.verifier = NoPin /\ EraseSeed.sector # "pin"
  BY DEF ErasePin, ErasedPin, PinImage, EraseSeed
<1>4. \A k \in 1..Len(flashOps') :
        flashOps'[k].sector = "pin" => flashOps'[k].to.verifier \in {NoPin, pinSector.verifier}
  <2>1. CASE flashOps' = <<>>
    BY <2>1
  <2>2. ASSUME NEW fails, flashOps' = WritePin(pinSector.verifier, fails)
        PROVE  \A k \in 1..Len(flashOps') :
                 flashOps'[k].to.verifier \in {NoPin, pinSector.verifier}
    BY <2>2, WritePinOps
  <2>3. CASE flashOps' = <<ErasePin, EraseSeed>>
    BY <1>3, <2>3
  <2> QED BY <1>2, <2>1, <2>2, <2>3
<1> QED BY <1>1, <1>4 DEF PinInv, SeedKeepsItsPin, SeedExists

\* One step of a flash write.
LEMMA PinFlash ==
    ASSUME FlashAll, PinInv, Flash
    PROVE  PinInv'
<1>1. flashOps \in Seq(FlashOp) /\ FlashStep /\ flashOps # <<>> /\ after # "none"
  BY DEF FlashAll, TypeOK, StorageTypeOK, Flash, FlashStep, FlashInv
<1>2. UNCHANGED <<after, firstPin>>
  BY DEF Flash, pinVars
<1>3. /\ Len(flashOps) \in Nat \ {0} /\ Len(flashOps') = Len(flashOps) - 1
      /\ \A k \in 1..Len(flashOps') : flashOps'[k] = flashOps[k + 1]
      /\ flashOps' = <<>> <=> Len(flashOps) = 1
      /\ UNCHANGED seedPin
  BY <1>1, FlashStepEffect
<1>4. CASE after = "seedset"
  <2>1. PICK k \in {1, 2} : Len(flashOps) = k /\ \A j \in 1..k : flashOps[j].sector = "seed"
    <3>1. flashOps = <<EraseSeed, SeedOp(entropy)>> \/ flashOps = <<SeedOp(entropy)>>
      BY <1>1, <1>4 DEF FlashAll, FlashInv
    <3> QED BY <3>1 DEF EraseSeed, SeedOp
  <2>2. UNCHANGED pinSector /\ \A j \in 1..Len(flashOps') : flashOps'[j].sector = "seed"
    BY <1>1, <1>3, <2>1, FlashStepEffect
  <2> QED BY <1>2, <1>3, <1>4, <2>2 DEF PinInv, SeedKeepsItsPin
<1>5. CASE after # "seedset"
  <2>1. SeedExists' => SeedExists /\ UNCHANGED seedSector
    <3>1. CASE after = "wiped"
      <4>1. flashOps[1].sector # "pin" => flashOps[1].to = NoSeed
        BY <1>3, <3>1 DEF FlashAll, FlashInv, Erases, ErasePin, EraseSeed
      <4> QED BY <1>1, <4>1, FlashStepEffect DEF SeedExists
    <3>2. CASE after \in {"match", "mismatch", "pinset"}
      <4>1. flashOps[1].sector = "pin"
        BY <1>3, <3>2 DEF FlashAll, FlashInv, PinOps
      <4> QED BY <1>1, <4>1, FlashStepEffect DEF SeedExists
    <3> QED BY <1>1, <1>5, <3>1, <3>2 DEF FlashAll, TypeOK, Afters
  <2>2. SeedExists' => pinSector'.verifier \in {NoPin, seedPin}
    BY <1>1, <1>3, <2>1, FlashStepEffect DEF PinInv, SeedKeepsItsPin
  <2>3. SeedExists' =>
          \A k \in 1..Len(flashOps') :
            flashOps'[k].sector = "pin" => flashOps'[k].to.verifier \in {NoPin, seedPin}
    BY <1>3, <2>1 DEF PinInv
  <2>4. ASSUME after = "pinset"
        PROVE  IF flashOps' = <<>> THEN pinSector'.verifier = firstPin
                                   ELSE flashOps'[Len(flashOps')].to.verifier = firstPin
    <3>1. flashOps[Len(flashOps)].to.verifier = firstPin /\ flashOps[1].sector = "pin"
      BY <1>1, <1>3, <2>4 DEF PinInv, FlashAll, FlashInv, PinOps
    <3>2. CASE Len(flashOps) = 1
      BY <1>1, <1>3, <3>1, <3>2, FlashStepEffect
    <3>3. CASE Len(flashOps) # 1
      BY <1>3, <3>1, <3>3
    <3> QED BY <3>2, <3>3
  <2> QED BY <1>2, <1>3, <1>5, <2>2, <2>3, <2>4 DEF PinInv, SeedKeepsItsPin
<1> QED BY <1>4, <1>5

LEMMA PinInvStep ==
    ASSUME FlashAll, PinInv, [Next]_vars
    PROVE  PinInv'
<1> USE DEF storageVars, flashVars, pinVars
<1>1. CASE TudReport \/ TudDone \/ HidTask \/ PendingCheck
  <2>1. UNCHANGED <<pinSector, seedSector, seedPin, flashOps, after, firstPin>>
    BY <1>1 DEF TudReport, TudDone, HidTask, PendingCheck
  <2> QED BY <2>1 DEF PinInv, SeedKeepsItsPin, SeedExists
<1>2. CASE Button
  <2>1. after = "none" /\ flashOps = <<>>
    BY <1>2 DEF Button, NoPress, LongPressSigns, SplashLeft, Move, TurnPage, BackupDone,
                HomeReceive, HomeLock, ConfirmPress, ReviewReject, OtherPress, CheckPin,
                ChoosePin, RepeatPin, EnterPin, Press, FlashAll, FlashInv
  <2>2. CASE NoPress \/ LongPressSigns \/ SplashLeft \/ Move \/ TurnPage \/ BackupDone
             \/ HomeReceive \/ HomeLock \/ ConfirmPress \/ ReviewReject \/ OtherPress
    BY <2>1, <2>2, PinUnchanged
       DEF NoPress, LongPressSigns, SplashLeft, Move, TurnPage, BackupDone, HomeReceive,
           HomeLock, ConfirmPress, ReviewReject, OtherPress, NextTurn
  <2>3. ASSUME NEW pin \in Pins, CheckPin(pin) PROVE PinInv'
    BY <2>3, PinChecked
  <2>4. ASSUME NEW pin \in Pins, ChoosePin(pin) PROVE PinInv'
    BY <2>1, <2>4, PinUnchanged DEF ChoosePin, NextTurn
  <2>5. ASSUME NEW pin \in Pins, RepeatPin(pin) PROVE PinInv'
    <3>1. CASE UNCHANGED storageVars /\ after' = "none"
      BY <2>1, <3>1, PinUnchanged
    <3>2. CASE StorageSetPin(pin) /\ after' = "pinset" /\ pin = firstPin
      <4>1. ~SeedExists /\ UNCHANGED <<seedSector, firstPin>>
        BY <2>1, <2>5, <3>2
           DEF RepeatPin, EnterPin, StorageSetPin, SeedExists, FlashAll, FlashInv
      <4>2. flashOps' # <<>> /\ flashOps'[Len(flashOps')].to.verifier = firstPin
        BY <3>2, WritePinOps DEF StorageSetPin
      <4> QED BY <3>2, <4>1, <4>2 DEF PinInv, SeedKeepsItsPin, SeedExists
    <3> QED BY <2>1, <2>5, <3>1, <3>2 DEF RepeatPin, AwaitFlash, NextTurn
  <2> QED BY <1>2, <2>2, <2>3, <2>4, <2>5 DEF Button
<1>3. CASE Continue
  <2>1. CASE Flash
    BY <2>1, PinFlash
  <2>2. CASE Unlock \/ WrongPin \/ Wiped \/ Provisioned
    BY <2>2, PinUnchanged DEF Unlock, WrongPin, Wiped, Provisioned, Resume, Done
  <2>3. CASE Provision
    <3>1. flashOps = <<>> /\ pinSector.verifier = firstPin /\ ~SeedExists /\ UNCHANGED pinSector
      BY <2>3 DEF Provision, Resume, PinInv, FlashAll, LockInv, FlashInv, SeedExists,
                  StorageSeedSet
    <3>2. CASE UNCHANGED storageVars /\ Done
      BY <3>1, <3>2, PinUnchanged DEF Done
    <3>3. ASSUME NEW seed \in Seeds, StorageSeedSet(seed, firstPin), AwaitFlash("seedset")
          PROVE  PinInv'
      <4>1. seedPin' = firstPin /\ UNCHANGED seedSector /\ after' = "seedset"
        BY <3>3 DEF StorageSeedSet, AwaitFlash
      <4> QED BY <3>1, <4>1 DEF PinInv, SeedKeepsItsPin, SeedExists
    <3> QED BY <2>3, <3>2, <3>3 DEF Provision
  <2> QED BY <1>3, <2>1, <2>2, <2>3 DEF Continue
<1>4. CASE PowerCut
  BY <1>4, PinUnchanged DEF PowerCut
<1>5. CASE UNCHANGED vars
  BY <1>5 DEF vars, PinInv, SeedKeepsItsPin, SeedExists
<1> QED BY <1>1, <1>2, <1>3, <1>4, <1>5 DEF Next

\* The PIN record of a stored seed never holds the verifier of another PIN
\* than the one set when the seed was made: no setup that power cuts short and
\* no rewrite of the fail count gives a wallet a new PIN.
THEOREM SeedKeepsItsPinHolds == Spec => []SeedKeepsItsPin
<1>1. FlashAll /\ PinInv /\ [Next]_vars => PinInv'
  BY PinInvStep
<1>2. PinInv => SeedKeepsItsPin
  BY DEF PinInv
<1> QED BY <1>1, <1>2, PinInvInit, FlashInvariant, PTL DEF Spec

-----------------------------------------------------------------------------
(***************************************************************************)
(* The fail count, proved for every MaxFails and every number of seeds and *)
(* PINs, for a device whose power is never cut: it counts the wrong PINs,  *)
(* the last one wipes, and a stored seed opens with its PIN.  With power   *)
(* cuts none of the three holds (see the run power_cut_pin).               *)
(***************************************************************************)

\* A PIN record that was written to its end.
Whole(rec, fails) == rec.fields = 5 /\ rec.verifier # NoPin /\ rec.fails = fails

\* The PIN record once the writes under way are done, all to its sector.
Written == IF flashOps = <<>> THEN pinSector ELSE flashOps[Len(flashOps)].to

(* The record counts what the user was told, or is about to; a PIN is      *)
(* asked for only when there is a seed, and then there is a whole record.  *)
CountInv ==
    /\ misses \in Nat /\ misses < MaxFails
    /\ after = "none" => \/ Whole(pinSector, misses)
                         \/ pinSector = ErasedPin /\ misses = 0 /\ ~SeedExists
    /\ after = "match" => Whole(Written, 0)
    /\ after = "mismatch" => Whole(Written, misses + 1) /\ misses + 1 < MaxFails /\ SeedExists
    /\ after = "pinset" => Whole(Written, 0) /\ misses = 0
    /\ after = "seedset" => Whole(pinSector, misses) /\ misses = 0
    /\ after = "wiped" => \/ flashOps = <<ErasePin, EraseSeed>>
                          \/ flashOps = <<EraseSeed>> /\ pinSector = ErasedPin
                          \/ flashOps = <<>> /\ pinSector = ErasedPin /\ ~SeedExists
    /\ state \in {"PIN", "PIN_FAIL"} /\ pinMode = "ENTER" /\ after # "wiped" => SeedExists

CountAll == FlashAll /\ PinInv /\ CountInv

LEMMA CountInit == Init => CountInv
BY StorageAssumption DEF Init, StorageInit, CountInv, SeedExists

\* The record that flash_write ends with.
LEMMA WrittenAtEnd ==
    ASSUME NEW verifier \in Pins, NEW fails, flashOps' = WritePin(verifier, fails)
    PROVE  Whole(Written', fails)
<1>1. flashOps'[6].to = PinImage(5, verifier, fails)
  BY DEF WritePin
<1>2. Written' = PinImage(5, verifier, fails)
  BY <1>1, WritePinOps DEF Written
<1> QED BY <1>2, StorageAssumption DEF Whole, PinImage

\* A step of a write to the PIN sector leaves what it ends with.
LEMMA WrittenKept ==
    ASSUME flashOps \in Seq(FlashOp), FlashStep, PinOps(flashOps)
    PROVE  Written' = Written /\ UNCHANGED <<seedSector, misses>>
<1>1. /\ Len(flashOps) \in Nat \ {0} /\ Len(flashOps') = Len(flashOps) - 1
      /\ \A k \in 1..Len(flashOps') : flashOps'[k] = flashOps[k + 1]
      /\ flashOps' = <<>> <=> Len(flashOps) = 1
  BY FlashStepEffect
<1>2. flashOps[1].sector = "pin"
  BY <1>1 DEF PinOps
<1>3. pinSector' = flashOps[1].to /\ UNCHANGED seedSector
  BY <1>2, FlashStepEffect
<1>4. Written' = Written
  <2>1. CASE Len(flashOps) = 1
    BY <1>1, <1>3, <2>1 DEF Written, FlashStep
  <2>2. CASE Len(flashOps) # 1
    BY <1>1, <2>2 DEF Written, FlashStep
  <2> QED BY <2>1, <2>2
<1> QED BY <1>3, <1>4 DEF FlashStep

\* Steps outside the PIN handlers.
LEMMA CountUnchanged ==
    ASSUME CountInv, after = "none", after' = "none",
           UNCHANGED <<pinSector, seedSector, misses>>,
           state' \in {"PIN", "PIN_FAIL"} /\ pinMode' = "ENTER" => SeedExists
    PROVE  CountInv'
<1>1. UNCHANGED ErasedPin
  BY DEF ErasedPin, PinImage, ErasedCount
<1> QED BY <1>1 DEF CountInv, SeedExists, Whole

LEMMA CountChecked ==
    ASSUME CountAll, NEW pin \in Pins, CheckPin(pin)
    PROVE  CountInv'
<1>1. /\ after = "none" /\ flashOps = <<>> /\ state = "PIN" /\ pinMode = "ENTER"
      /\ UNCHANGED <<state, pinMode>>
  BY DEF CountAll, FlashAll, FlashInv, CheckPin, EnterPin, Press, uiVars, pinVars
<1>2. SeedExists /\ Whole(pinSector, misses) /\ misses \in Nat /\ misses < MaxFails
  BY <1>1 DEF CountAll, CountInv
<1>3. UNCHANGED <<pinSector, seedSector, misses>>
  BY DEF CheckPin, CheckPinMatch, CheckPinMismatch, CheckPinUnreadable, CheckPinLockout, storageVars
<1>4. pinSector.verifier \in Pins /\ pinSector.fails = misses /\ PinReadable
  BY <1>2 DEF CountAll, FlashAll, TypeOK, StorageTypeOK, PinRecord, Whole, PinReadable
<1>5. NextFails = misses + 1
  BY <1>2, <1>4, StorageAssumption DEF NextFails
<1>6. CASE CheckPinMatch(pin) /\ AwaitFlash("match")
  <2>1. after' = "match"
    BY <1>6 DEF AwaitFlash
  <2>2. CASE misses # 0
    <3>1. flashOps' = WritePin(pinSector.verifier, 0)
      BY <1>4, <1>6, <2>2 DEF CheckPinMatch
    <3>2. Whole(Written', 0)
      BY <1>4, <3>1, WrittenAtEnd
    <3> QED BY <1>1, <1>2, <1>3, <2>1, <3>2 DEF CountInv, SeedExists, Whole, Written
  <2>3. CASE misses = 0
    <3>1. flashOps' = <<>>
      BY <1>4, <1>6, <2>3 DEF CheckPinMatch
    <3> QED BY <1>1, <1>2, <1>3, <2>1, <2>3, <3>1 DEF CountInv, SeedExists, Whole, Written
  <2> QED BY <2>2, <2>3
<1>7. CASE CheckPinMismatch(pin) /\ AwaitFlash("mismatch")
  <2>1. flashOps' = WritePin(pinSector.verifier, misses + 1) /\ misses + 1 < MaxFails /\ after' = "mismatch"
    BY <1>5, <1>7 DEF CheckPinMismatch, AwaitFlash
  <2>2. Whole(Written', misses + 1)
    BY <1>4, <2>1, WrittenAtEnd
  <2> QED BY <1>1, <1>2, <1>3, <2>1, <2>2 DEF CountInv, SeedExists, Whole, Written
<1>8. CASE CheckPinLockout(pin) /\ AwaitFlash("wiped")
  <2>1. flashOps' = <<ErasePin, EraseSeed>> /\ after' = "wiped"
    BY <1>8 DEF CheckPinLockout, AwaitFlash
  <2>2. UNCHANGED <<ErasePin, EraseSeed>>
    BY DEF ErasePin, EraseSeed, ErasedPin, PinImage, ErasedCount
  <2> QED BY <1>2, <1>3, <2>1, <2>2 DEF CountInv
<1> QED BY <1>4, <1>6, <1>7, <1>8 DEF CheckPin, CheckPinUnreadable

LEMMA CountButton ==
    ASSUME CountAll, Button
    PROVE  CountInv'
<1>1. after = "none" /\ flashOps = <<>>
  BY DEF Button, NoPress, LongPressSigns, SplashLeft, Move, TurnPage, BackupDone, HomeReceive,
         HomeLock, ConfirmPress, ReviewReject, OtherPress, CheckPin, ChoosePin, RepeatPin,
         EnterPin, Press, CountAll, FlashAll, FlashInv
<1>2. CountInv /\ (state \in {"PIN", "PIN_FAIL"} /\ pinMode = "ENTER" => SeedExists)
  BY <1>1 DEF CountAll, CountInv
<1> USE DEF NextTurn, storageVars, pinVars, uiVars, GoTo
<1>3. CASE NoPress \/ LongPressSigns \/ TurnPage \/ BackupDone \/ HomeReceive \/ HomeLock
           \/ ConfirmPress \/ ReviewReject \/ OtherPress
  BY <1>1, <1>2, <1>3, CountUnchanged
     DEF NoPress, LongPressSigns, TurnPage, BackupDone, HomeReceive, HomeLock,
         ConfirmPress, ReviewReject, OtherPress
<1>4. CASE Move
  <2>1. PICK m \in Moves : state = m[1] /\ state' = m[3]
    BY <1>4 DEF Move
  <2>2. state' \in {"PIN", "PIN_FAIL"} => state \in {"PIN", "PIN_FAIL"}
    BY <2>1 DEF Moves
  <2> QED BY <1>1, <1>2, <1>4, <2>2, CountUnchanged DEF Move
<1>5. CASE SplashLeft
  <2>1. pinMode' = "ENTER" => SeedExists
    BY <1>5 DEF SplashLeft
  <2> QED BY <1>1, <1>2, <1>5, <2>1, CountUnchanged DEF SplashLeft
<1>6. ASSUME NEW pin \in Pins, CheckPin(pin) PROVE CountInv'
  BY <1>6, CountChecked
<1>7. ASSUME NEW pin \in Pins, ChoosePin(pin) PROVE CountInv'
  BY <1>1, <1>2, <1>7, CountUnchanged DEF ChoosePin
<1>8. ASSUME NEW pin \in Pins, RepeatPin(pin) PROVE CountInv'
  <2>1. pinMode' \in {"SET1", "SET2"}
    BY <1>8 DEF RepeatPin, EnterPin
  <2>2. CASE UNCHANGED storageVars /\ after' = after
    BY <1>1, <1>2, <2>1, <2>2, CountUnchanged
  <2>3. CASE StorageSetPin(pin) /\ AwaitFlash("pinset")
    <3>1. flashOps' = WritePin(pin, 0) /\ misses' = 0 /\ after' = "pinset"
      BY <2>3 DEF StorageSetPin, AwaitFlash
    <3>2. Whole(Written', 0)
      BY <3>1, WrittenAtEnd
    <3> QED BY <2>1, <3>1, <3>2, StorageAssumption DEF CountInv, Whole, Written
  <2> QED BY <1>8, <2>2, <2>3 DEF RepeatPin
<1> QED BY <1>3, <1>4, <1>5, <1>6, <1>7, <1>8 DEF Button

\* One step of a flash write.
LEMMA CountFlash ==
    ASSUME CountAll, Flash
    PROVE  CountInv'
<1>1. /\ flashOps \in Seq(FlashOp) /\ FlashStep /\ flashOps # <<>> /\ after # "none" /\ CountInv
      /\ UNCHANGED <<after, state, pinMode, misses>>
  BY DEF CountAll, FlashAll, TypeOK, StorageTypeOK, Flash, FlashStep, FlashInv, uiVars, pinVars
<1>2. CASE after \in {"match", "mismatch", "pinset"}
  <2>1. Written' = Written /\ UNCHANGED seedSector
    BY <1>1, <1>2, WrittenKept DEF CountAll, FlashAll, FlashInv
  <2>2. \A n : Whole(Written, n)' <=> Whole(Written', n)
    BY DEF Whole
  <2> QED BY <1>1, <1>2, <2>1 DEF CountInv, SeedExists, Whole
<1>3. CASE after = "wiped"
  <2>1. CASE flashOps = <<ErasePin, EraseSeed>>
    <3>1. flashOps' = <<EraseSeed>> /\ pinSector' = ErasedPin
      BY <1>1, <2>1 DEF FlashStep, ErasePin
    <3> QED BY <1>1, <1>3, <3>1 DEF CountInv, EraseSeed, ErasedPin, PinImage, ErasedCount
  <2>2. CASE flashOps = <<EraseSeed>> /\ pinSector = ErasedPin
    <3>1. flashOps' = <<>> /\ seedSector' = NoSeed /\ UNCHANGED pinSector
      BY <1>1, <2>2 DEF FlashStep, EraseSeed
    <3> QED BY <1>1, <1>3, <2>2, <3>1 DEF CountInv, SeedExists, ErasedPin, PinImage, ErasedCount
  <2> QED BY <1>1, <1>3, <2>1, <2>2 DEF CountInv
<1>4. CASE after = "seedset"
  <2>1. flashOps = <<EraseSeed, SeedOp(entropy)>> \/ flashOps = <<SeedOp(entropy)>>
    BY <1>1, <1>4 DEF CountAll, FlashAll, FlashInv
  <2>2. flashOps[1].sector = "seed"
    BY <2>1 DEF EraseSeed, SeedOp
  <2>3. UNCHANGED pinSector
    BY <1>1, <2>2, FlashStepEffect
  <2>4. state = "PIN" /\ seedSector = NoSeed
    BY <1>1, <1>4 DEF CountAll, FlashAll, FlashInv, LockInv, Flash
  <2>5. pinMode # "ENTER"
    BY <1>1, <1>4, <2>4 DEF CountInv, SeedExists
  <2> QED BY <1>1, <1>4, <2>3, <2>5 DEF CountInv, Whole
<1> QED BY <1>1, <1>2, <1>3, <1>4 DEF CountAll, FlashAll, TypeOK, Afters

LEMMA CountContinue ==
    ASSUME CountAll, Continue
    PROVE  CountInv'
<1>1. pc = "flash" /\ state = "PIN" /\ CountInv
  BY DEF Continue, Flash, Unlock, WrongPin, Wiped, Provision, Provisioned, Resume, LockInv,
         CountAll, FlashAll
<1> USE DEF Resume, Done, storageVars, flashVars, pinVars, GoTo
<1>2. CASE Flash
  BY <1>2, CountFlash
<1>3. CASE Unlock
  <2>1. Whole(pinSector, 0) /\ misses' = 0 /\ after' = "none" /\ state' \notin {"PIN", "PIN_FAIL"}
        /\ UNCHANGED pinSector
    BY <1>1, <1>3 DEF Unlock, ForgetMisses, CountInv, Written
  <2> QED BY <2>1, StorageAssumption DEF CountInv, Whole
<1>4. CASE WrongPin
  <2>1. Whole(pinSector, misses + 1) /\ misses + 1 < MaxFails /\ misses \in Nat
    BY <1>1, <1>4 DEF WrongPin, CountInv, Written
  <2>2. misses < MaxFails /\ misses' = misses + 1 /\ after' = "none" /\ UNCHANGED <<pinSector, seedSector, pinMode>>
    BY <1>1, <1>4 DEF WrongPin, ReportMismatch, CountInv
  <2>3. pinMode = "ENTER" => SeedExists
    BY <1>1, <1>4 DEF WrongPin, CountInv
  <2> QED BY <2>1, <2>2, <2>3 DEF CountInv, Whole, SeedExists
<1>5. CASE Wiped
  <2>1. pinSector = ErasedPin /\ ~SeedExists
    BY <1>1, <1>5 DEF Wiped, CountInv
  <2>2. misses' = 0 /\ after' = "none" /\ state' = "PIN_WIPED" /\ UNCHANGED <<pinSector, seedSector>>
    BY <1>5 DEF Wiped, ForgetMisses
  <2>3. UNCHANGED ErasedPin
    BY DEF ErasedPin, PinImage, ErasedCount
  <2> QED BY <2>1, <2>2, <2>3, StorageAssumption DEF CountInv, SeedExists
<1>6. CASE Provision
  <2>1. Whole(pinSector, 0) /\ misses = 0 /\ pinMode = "SET2" /\ UNCHANGED <<pinSector, misses, pinMode>>
    BY <1>1, <1>6 DEF Provision, CountInv, Written, StorageSeedSet, CountAll, FlashAll, FlashInv
  <2>2. after' \in {"none", "seedset"}
    BY <1>6 DEF Provision, AwaitFlash
  <2> QED BY <2>1, <2>2, StorageAssumption DEF CountInv, Whole
<1>7. CASE Provisioned
  <2>1. Whole(pinSector, misses) /\ misses \in Nat /\ misses < MaxFails
    BY <1>1, <1>7 DEF Provisioned, CountInv
  <2>2. after' = "none" /\ state' \notin {"PIN", "PIN_FAIL"} /\ UNCHANGED <<pinSector, misses>>
    BY <1>7 DEF Provisioned
  <2> QED BY <2>1, <2>2 DEF CountInv, Whole
<1> QED BY <1>2, <1>3, <1>4, <1>5, <1>6, <1>7 DEF Continue

LEMMA CountStep ==
    ASSUME ~PowerCuts, CountAll, [Next]_vars
    PROVE  CountInv'
<1>1. CASE TudReport \/ TudDone \/ HidTask \/ PendingCheck \/ UNCHANGED vars
  <2>1. UNCHANGED <<pinSector, seedSector, flashOps, misses, after, pinMode>>
    BY <1>1 DEF TudReport, TudDone, HidTask, PendingCheck, vars, storageVars, pinVars
  <2>2. state' \in {"PIN", "PIN_FAIL"} => state \in {"PIN", "PIN_FAIL"}
    BY <1>1 DEF TudReport, TudDone, HidTask, PendingCheck, vars, uiVars, GoTo
  <2>3. UNCHANGED <<ErasedPin, ErasePin, EraseSeed>> /\ CountInv
    BY DEF ErasedPin, PinImage, ErasedCount, ErasePin, EraseSeed, CountAll
  <2> QED BY <2>1, <2>2, <2>3 DEF CountInv, Whole, Written, SeedExists
<1> QED BY <1>1, CountButton, CountContinue DEF Next, PowerCut

LEMMA CountInvariant ==
    ASSUME ~PowerCuts
    PROVE  Spec => []CountAll
<1>1. Init => CountAll
  BY InitType, LockInit, FlashInit, PinInvInit, CountInit DEF FlashAll, CountAll
<1>2. CountAll /\ [Next]_vars => CountAll'
  BY NextType, LockStep, FlashInvStep, PinInvStep, CountStep DEF FlashAll, CountAll
<1> QED BY <1>1, <1>2, PTL DEF Spec

-----------------------------------------------------------------------------
\* The user is never told MaxFails times in a row that the PIN was wrong: the
\* last attempt wipes (storage_check_pin).
THEOREM LockoutAfterMaxFailsHolds ==
    ASSUME ~PowerCuts
    PROVE  Spec => []LockoutAfterMaxFails
<1>1. CountAll => LockoutAfterMaxFails
  BY DEF CountAll, CountInv, LockoutAfterMaxFails
<1> QED BY <1>1, CountInvariant, PTL

\* The tries left on the WRONG PIN screen are the ones there are
\* (storage_fail_count as render reads it).
THEOREM TriesLeftAccurateHolds ==
    ASSUME ~PowerCuts
    PROVE  Spec => []TriesLeftAccurate
<1>1. CountAll => TriesLeftAccurate
  <2>1. SUFFICES ASSUME CountAll, state = "PIN_FAIL" PROVE StorageFailCount = misses
    BY DEF TriesLeftAccurate
  <2>2. after = "none" /\ misses \in Nat /\ misses < MaxFails
        /\ (Whole(pinSector, misses) \/ (pinSector = ErasedPin /\ misses = 0))
    <3>1. LockInv /\ FlashInv /\ CountInv
      BY <2>1 DEF CountAll, FlashAll
    <3>2. after = "none"
      BY <2>1, <3>1 DEF LockInv, FlashInv
    <3> QED BY <3>1, <3>2 DEF CountInv
  <2>3. CASE Whole(pinSector, misses)
    <3>1. ~(2 * misses >= CountMod)
      BY <2>2, StorageAssumption
    <3> QED BY <2>3, <3>1 DEF Whole, StorageFailCount
  <2>4. CASE pinSector = ErasedPin /\ misses = 0
    BY <2>4 DEF StorageFailCount, ErasedPin, PinImage
  <2> QED BY <2>2, <2>3, <2>4
<1> QED BY <1>1, CountInvariant, PTL

\* A stored seed can always be unlocked with the PIN it was made with.
THEOREM SeedReachableHolds ==
    ASSUME ~PowerCuts
    PROVE  Spec => []SeedReachable
<1>1. CountAll => SeedReachable
  <2>1. SUFFICES ASSUME CountAll, SeedExists, flashOps = <<>> PROVE PinReadable /\ Verifies(seedPin)
    BY DEF SeedReachable
  <2>2. \E n : Whole(pinSector, n)
    <3>1. Written = pinSector /\ CountInv /\ after \in Afters
      BY <2>1 DEF Written, CountAll, FlashAll, TypeOK
    <3>2. after # "wiped"
      BY <2>1, <3>1 DEF CountInv
    <3>3. Whole(pinSector, misses) \/ Whole(pinSector, 0) \/ Whole(pinSector, misses + 1)
      BY <2>1, <3>1, <3>2 DEF CountInv, Afters
    <3> QED BY <3>3
  <2>3. pinSector.verifier \in {NoPin, seedPin}
    BY <2>1 DEF CountAll, PinInv, SeedKeepsItsPin
  <2> QED BY <2>2, <2>3 DEF Whole, PinReadable, Verifies
<1> QED BY <1>1, CountInvariant, PTL

-----------------------------------------------------------------------------
(* Noir implements Vault, as long as power is not cut.                     *)

\* What Vault sees of a step.
VaultStep == [Keeping!Next]_(Keeping!vaultVars)

\* Steps that neither touch the seed nor enter a PIN.
LEMMA VaultStutter ==
    ASSUME UNCHANGED <<seedSector, seedPin, misses, gSeed, after>>
    PROVE  VaultStep
<1>1. UNCHANGED <<SeedExists, Verdict>>
  BY DEF SeedExists, Verdict
<1> QED BY <1>1 DEF VaultStep, Keeping!vaultVars

\* While no seed is kept, nothing of the PIN record is seen.
LEMMA VaultEmpty ==
    ASSUME ~SeedExists, UNCHANGED <<seedSector, gSeed>>,
           after \notin {"match", "mismatch"}, after' \notin {"match", "mismatch"}
    PROVE  VaultStep
<1>1. ~SeedExists' /\ Verdict = "none" /\ Verdict' = "none"
  BY DEF SeedExists, Verdict
<1> QED BY <1>1 DEF VaultStep, Keeping!vaultVars

\* A PIN that is entered: the record holds the seed's PIN and the count.
LEMMA VaultEnter ==
    ASSUME CountAll, NEW pin \in Pins, CheckPin(pin)
    PROVE  VaultStep
<1>1. /\ after = "none" /\ state = "PIN" /\ pinMode = "ENTER"
      /\ UNCHANGED <<seedSector, seedPin, misses, gSeed>>
  BY DEF CountAll, FlashAll, FlashInv, CheckPin, EnterPin, Press, HostUntouched,
         CheckPinMatch, CheckPinMismatch, CheckPinUnreadable, CheckPinLockout, storageVars
<1>2. SeedExists /\ Whole(pinSector, misses) /\ misses \in Nat /\ misses < MaxFails
  BY <1>1 DEF CountAll, CountInv
<1>3. pinSector.verifier = seedPin /\ pinSector.fails = misses /\ PinReadable
  BY <1>2 DEF CountAll, PinInv, SeedKeepsItsPin, Whole, PinReadable
<1>4. NextFails = misses + 1
  BY <1>2, <1>3, StorageAssumption DEF NextFails
<1>5. gSeed = NoSeed
  BY <1>1 DEF CountAll, FlashAll, LockInv, LockAgreement, LockedStates
<1>6. SeedExists' /\ Verdict = "none"
  BY <1>1, <1>2 DEF SeedExists, Verdict
<1>7. Verdict' = IF pin = seedPin THEN "right" ELSE IF misses + 1 < MaxFails THEN "wrong" ELSE "last"
  <2>1. CASE CheckPinMatch(pin) /\ AwaitFlash("match")
    BY <1>3, <1>6, <2>1 DEF CheckPinMatch, Verifies, AwaitFlash, Verdict
  <2>2. CASE CheckPinMismatch(pin) /\ AwaitFlash("mismatch")
    BY <1>3, <1>4, <1>6, <2>2 DEF CheckPinMismatch, Verifies, AwaitFlash, Verdict
  <2>3. CASE CheckPinLockout(pin) /\ AwaitFlash("wiped")
    <3>1. ~(misses + 1 < MaxFails)
      BY <1>2, <1>4, <2>3, StorageAssumption DEF CheckPinLockout
    <3> QED BY <1>3, <1>6, <2>3, <3>1 DEF CheckPinLockout, Verifies, AwaitFlash, Verdict
  <2> QED BY <1>3, <2>1, <2>2, <2>3 DEF CheckPin, CheckPinUnreadable
<1>8. Keeping!Enter(pin)
  BY <1>1, <1>2, <1>5, <1>6, <1>7 DEF Keeping!Enter, SeedExists
<1> QED BY <1>8 DEF VaultStep, Keeping!Next

\* Every button event.
LEMMA VaultButton ==
    ASSUME CountAll, Button
    PROVE  VaultStep
<1>1. after = "none"
  BY DEF Button, NoPress, LongPressSigns, SplashLeft, Move, TurnPage, BackupDone, HomeReceive,
         HomeLock, ConfirmPress, ReviewReject, OtherPress, CheckPin, ChoosePin, RepeatPin,
         EnterPin, Press, CountAll, FlashAll, FlashInv
<1> USE DEF NextTurn, storageVars
<1>2. CASE NoPress \/ SplashLeft \/ Move \/ TurnPage \/ BackupDone \/ HomeReceive \/ OtherPress
  BY <1>2, VaultStutter
     DEF NoPress, SplashLeft, Move, TurnPage, BackupDone, HomeReceive, OtherPress, HostUntouched
<1>3. CASE LongPressSigns \/ ConfirmPress \/ ReviewReject
  <2>1. HidAppApprove \/ HidAppReject
    BY <1>3 DEF LongPressSigns, ConfirmPress, ReviewReject
  <2> QED BY <1>3, <2>1, DecisionLock, VaultStutter DEF LongPressSigns, ConfirmPress, ReviewReject
<1>4. CASE HomeLock
  <2>1. /\ UNCHANGED <<seedSector, seedPin, misses, after>>
        /\ state = "HOME" /\ gSeed' = NoSeed
    BY <1>4 DEF HomeLock, WalletStateClear
  <2>2. gSeed # NoSeed
    BY <2>1 DEF CountAll, FlashAll, LockInv, LockAgreement, LockedStates
  <2>3. UNCHANGED <<SeedExists, Verdict>>
    BY <2>1 DEF SeedExists, Verdict
  <2>4. Keeping!Close
    BY <2>1, <2>2, <2>3 DEF Keeping!Close
  <2> QED BY <2>4 DEF VaultStep, Keeping!Next
<1>5. ASSUME NEW pin \in Pins, CheckPin(pin) PROVE VaultStep
  BY <1>5, VaultEnter
<1>6. ASSUME NEW pin \in Pins, ChoosePin(pin) PROVE VaultStep
  BY <1>6, VaultStutter DEF ChoosePin, EnterPin, HostUntouched
<1>7. ASSUME NEW pin \in Pins, RepeatPin(pin) PROVE VaultStep
  <2>1. UNCHANGED <<seedSector, gSeed>> /\ after' \in {"none", "pinset"}
    BY <1>1, <1>7 DEF RepeatPin, EnterPin, HostUntouched, StorageSetPin, AwaitFlash
  <2>2. ~SeedExists
    BY <1>1, <1>7 DEF RepeatPin, EnterPin, CountAll, FlashAll, FlashInv, SeedExists
  <2> QED BY <1>1, <2>1, <2>2, VaultEmpty
<1> QED BY <1>2, <1>3, <1>4, <1>5, <1>6, <1>7 DEF Button

\* One step of a flash write: the last one of a setup makes the seed, the last
\* one of a lockout destroys it.
LEMMA VaultFlash ==
    ASSUME CountAll, Flash
    PROVE  VaultStep
<1>1. /\ flashOps \in Seq(FlashOp) /\ FlashStep /\ flashOps # <<>> /\ after # "none" /\ CountInv
      /\ UNCHANGED <<after, misses, seedPin, gSeed>> /\ pc = "flash"
  BY DEF CountAll, FlashAll, TypeOK, StorageTypeOK, Flash, FlashStep, FlashInv, HostUntouched
<1>2. CASE after \in {"match", "mismatch", "pinset"}
  <2>1. UNCHANGED seedSector
    BY <1>1, <1>2, WrittenKept DEF CountAll, FlashAll, FlashInv
  <2> QED BY <1>1, <2>1, VaultStutter
<1>3. CASE after = "wiped"
  <2>1. CASE UNCHANGED seedSector
    BY <1>1, <2>1, VaultStutter
  <2>2. CASE seedSector' # seedSector
    <3>1. seedSector' = NoSeed
      BY <1>1, <1>3, <2>2 DEF CountInv, FlashStep, ErasePin, EraseSeed
    <3>2. SeedExists /\ ~SeedExists' /\ Verdict = "last" /\ Verdict' = "none"
      BY <1>1, <1>3, <2>2, <3>1 DEF SeedExists, Verdict
    <3>3. Keeping!Destroy
      BY <1>1, <3>1, <3>2 DEF Keeping!Destroy
    <3> QED BY <3>3 DEF VaultStep, Keeping!Next
  <2> QED BY <2>1, <2>2
<1>4. CASE after = "seedset"
  <2>1. seedSector = NoSeed /\ (flashOps = <<EraseSeed, SeedOp(entropy)>> \/ flashOps = <<SeedOp(entropy)>>)
    BY <1>1, <1>4 DEF CountAll, FlashAll, FlashInv
  <2>2. seedSector' \in {NoSeed, entropy}
    BY <1>1, <2>1 DEF FlashStep, EraseSeed, SeedOp
  <2>3. CASE seedSector' = NoSeed
    BY <1>1, <2>1, <2>3, VaultStutter
  <2>4. CASE seedSector' = entropy /\ entropy # NoSeed
    <3>1. entropy \in Seeds /\ seedPin \in Pins
      BY <1>1, <1>4, <2>4 DEF CountAll, FlashAll, TypeOK, StorageTypeOK, SeedOrNone, PinInv,
                              CountInv, Whole
    <3>2. ~SeedExists /\ SeedExists' /\ Verdict = "none" /\ Verdict' = "new" /\ misses = 0
      BY <1>1, <1>4, <2>1, <2>4 DEF SeedExists, Verdict, CountInv
    <3>3. Keeping!SetUp(entropy, seedPin)
      BY <1>1, <2>1, <2>4, <3>2 DEF Keeping!SetUp
    <3> QED BY <3>1, <3>3 DEF VaultStep, Keeping!Next
  <2> QED BY <2>2, <2>3, <2>4
<1> QED BY <1>1, <1>2, <1>3, <1>4 DEF CountAll, FlashAll, TypeOK, Afters

\* Every way a handler goes on after its flash writes.
LEMMA VaultContinue ==
    ASSUME CountAll, Continue
    PROVE  VaultStep
<1>1. pc = "flash" /\ state = "PIN" /\ CountInv
  BY DEF Continue, Flash, Unlock, WrongPin, Wiped, Provision, Provisioned, Resume, LockInv,
         CountAll, FlashAll
<1> USE DEF Resume, Done, storageVars, flashVars
<1>2. CASE Flash
  BY <1>2, VaultFlash
<1>3. CASE Unlock
  <2>1. /\ UNCHANGED <<seedSector, seedPin>> /\ misses' = 0 /\ gSeed' \in {seedSector, gSeed}
        /\ after = "match" /\ after' = "none"
    BY <1>3 DEF Unlock, ForgetMisses, WalletStateSetSeed
  <2>2. UNCHANGED SeedExists /\ Verdict = "right" /\ Verdict' = "none"
    BY <2>1 DEF SeedExists, Verdict
  <2>3. Keeping!Open
    BY <2>1, <2>2 DEF Keeping!Open
  <2> QED BY <2>3 DEF VaultStep, Keeping!Next
<1>4. CASE WrongPin
  <2>1. /\ UNCHANGED <<seedSector, seedPin, gSeed>> /\ misses' = misses + 1 /\ SeedExists
        /\ after = "mismatch" /\ after' = "none"
    BY <1>1, <1>4 DEF WrongPin, ReportMismatch, HostUntouched, CountInv
  <2>2. SeedExists' /\ Verdict = "wrong" /\ Verdict' = "none"
    BY <2>1 DEF SeedExists, Verdict
  <2>3. Keeping!Tell
    BY <2>1, <2>2 DEF Keeping!Tell
  <2> QED BY <2>3 DEF VaultStep, Keeping!Next
<1>5. CASE Wiped
  <2>1. ~SeedExists /\ UNCHANGED <<seedSector, gSeed>> /\ after = "wiped" /\ after' = "none"
    BY <1>1, <1>5 DEF Wiped, HostUntouched, CountInv
  <2> QED BY <2>1, VaultEmpty
<1>6. CASE Provision
  <2>1. ~SeedExists /\ UNCHANGED <<seedSector, gSeed>>
    BY <1>1, <1>6 DEF Provision, HostUntouched, StorageSeedSet, SeedExists, CountAll, FlashAll,
                      FlashInv
  <2>2. after = "pinset" /\ after' \in {"none", "seedset"}
    BY <1>6 DEF Provision, AwaitFlash
  <2> QED BY <2>1, <2>2, VaultEmpty
<1>7. CASE Provisioned
  <2>1. /\ seedSector = entropy /\ entropy # NoSeed /\ misses = 0
        /\ UNCHANGED <<seedSector, seedPin, misses>> /\ gSeed' \in {entropy, gSeed}
        /\ after = "seedset" /\ after' = "none"
    BY <1>1, <1>7 DEF Provisioned, WalletStateSetSeed, CountInv, CountAll, FlashAll, FlashInv, LockInv
  <2>2. SeedExists /\ SeedExists' /\ Verdict = "new" /\ Verdict' = "none"
    BY <2>1 DEF SeedExists, Verdict
  <2>3. Keeping!Open
    BY <2>1, <2>2 DEF Keeping!Open
  <2> QED BY <2>3 DEF VaultStep, Keeping!Next
<1> QED BY <1>2, <1>3, <1>4, <1>5, <1>6, <1>7 DEF Continue

LEMMA VaultStepHolds ==
    ASSUME ~PowerCuts, CountAll, [Next]_vars
    PROVE  VaultStep
<1>1. CASE TudReport \/ TudDone \/ HidTask \/ PendingCheck \/ UNCHANGED vars
  <2>1. UNCHANGED gSeed
    BY <1>1, ReceiveApduLock DEF TudReport, TudDone, HidTask, HidAppTask, PendingCheck, vars
  <2>2. UNCHANGED <<seedSector, seedPin, misses, after>>
    BY <1>1 DEF TudReport, TudDone, HidTask, PendingCheck, vars, storageVars
  <2> QED BY <2>1, <2>2, VaultStutter
<1> QED BY <1>1, VaultButton, VaultContinue DEF Next, PowerCut

LEMMA VaultInit == Init => Keeping!Init
BY DEF Init, StorageInit, HidInit, WhInit, Keeping!Init, SeedExists, Verdict

\* As long as power is not cut, the PIN record, its count and the writes of
\* both sectors do what Vault says: the seed's own PIN opens it and no other,
\* and MaxFails wrong ones in a row, nothing else, destroy it (storage_check_pin).
THEOREM VaultImplemented ==
    ASSUME ~PowerCuts
    PROVE  Spec => VaultSpec
<1>1. CountAll /\ [Next]_vars => [Keeping!Next]_(Keeping!vaultVars)
  BY VaultStepHolds DEF VaultStep
<1> QED BY <1>1, VaultInit, CountInvariant, PTL DEF Spec, VaultSpec, Keeping!Spec
=============================================================================

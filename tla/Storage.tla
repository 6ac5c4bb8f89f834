------------------------------ MODULE Storage ------------------------------
(***************************************************************************)
(* src/src/app/storage.c: the PIN record (flash sector 5) and the seed     *)
(* record (sector 4).                                                      *)
(*                                                                         *)
(* flash_write erases the whole sector and then programs the record word   *)
(* by word, so the sector passes through every prefix of the new record.   *)
(* An operation of this module therefore only decides the sequence of      *)
(* sector contents its writes go through (flashOps); FlashStep performs    *)
(* them one at a time, and a power cut may fall between any two.           *)
(***************************************************************************)
EXTENDS Wallet, Sequences

CONSTANTS
    Pins,       \* PINs a user enters
    NoPin,      \* the verifier no PIN matches (erased or half-programmed)
    MaxFails,   \* STORAGE_MAX_FAILS
    CountMod    \* 2^32: fail_count is a uint32_t

ASSUME StorageAssumption ==
    /\ NoPin \notin Pins
    /\ MaxFails \in Nat \ {0}
    /\ CountMod \in Nat
    /\ CountMod >= 2 * MaxFails

VARIABLES
    pinSector,   \* content of sector 5
    seedSector,  \* content of sector 4: a seed whose CRC is right, or NoSeed
    flashOps,    \* writes of the running operation still to be done
    misses,      \* history: wrong PINs reported since the last right or new one
    seedPin      \* history: the PIN the user had just set when the seed was made

flashVars   == <<pinSector, seedSector, flashOps>>
storageVars == <<pinSector, seedSector, flashOps, misses, seedPin>>

-----------------------------------------------------------------------------
(* The PIN record.                                                         *)

\* fail_count read from a sector that holds 0xFF bytes.
ErasedCount == CountMod - 1

\* pin_record_t after its first `fields` fields were programmed, in the order
\* magic, version, salt and verifier, fail_count, crc32.  A salt or verifier
\* that is only partly there verifies no PIN, as an erased one does.
PinImage(fields, verifier, fails) ==
    [fields   |-> fields,
     verifier |-> IF fields >= 3 THEN verifier ELSE NoPin,
     fails    |-> IF fields >= 4 THEN fails ELSE ErasedCount]

PinRecord == [fields : 0..5, verifier : Pins \cup {NoPin}, fails : 0..(CountMod - 1)]

ErasedPin == PinImage(0, NoPin, ErasedCount)

\* storage_check_pin looks at the magic and the version, not at the CRC.
PinReadable == pinSector.fields >= 2

Verifies(pin) == pinSector.verifier = pin

\* rec.fail_count++ on a uint32_t.
NextFails == (pinSector.fails + 1) % CountMod

\* storage_seed_exists, and the check at the head of storage_seed_get.
SeedExists == seedSector # NoSeed

\* storage_provisioned: the record is whole.
StorageProvisioned == pinSector.fields = 5

\* storage_fail_count, as the int it returns.
StorageFailCount ==
    IF pinSector.fields = 0 THEN 0
    ELSE IF 2 * pinSector.fails >= CountMod THEN pinSector.fails - CountMod
    ELSE pinSector.fails

-----------------------------------------------------------------------------
(* Flash writes, as the sector contents they go through.                   *)

FlashOp == [sector : {"pin"}, to : PinRecord] \cup [sector : {"seed"}, to : SeedOrNone]

ErasePin  == [sector |-> "pin",  to |-> ErasedPin]
EraseSeed == [sector |-> "seed", to |-> NoSeed]

\* flash_write of the PIN record: the erase, then one field after the other.
WritePin(verifier, fails) ==
    [k \in 1..6 |-> [sector |-> "pin", to |-> PinImage(k - 1, verifier, fails)]]

\* flash_write of the seed record; every reader checks its CRC, so a record
\* that is not complete is no seed.
WriteSeed(seed) == <<EraseSeed, [sector |-> "seed", to |-> seed]>>

\* flash_erase or one flash_program step.
FlashStep ==
    /\ flashOps # <<>>
    /\ IF Head(flashOps).sector = "pin"
       THEN pinSector' = Head(flashOps).to /\ UNCHANGED seedSector
       ELSE seedSector' = Head(flashOps).to /\ UNCHANGED pinSector
    /\ flashOps' = Tail(flashOps)
    /\ UNCHANGED <<misses, seedPin>>

-----------------------------------------------------------------------------
(* Operations.  Each is called with no write under way.                    *)

StorageSetPin(pin) ==
    /\ flashOps' = WritePin(pin, 0)
    /\ misses' = 0
    /\ UNCHANGED <<pinSector, seedSector, seedPin>>

StorageSeedSet(seed, pin) ==
    /\ flashOps' = WriteSeed(seed)
    /\ seedPin' = pin
    /\ UNCHANGED <<pinSector, seedSector, misses>>

\* Fault: a match leaves the fail count as it is.
CheckPinMatchKeepsCount(pin) ==
    /\ PinReadable
    /\ Verifies(pin)
    /\ flashOps' = <<>>
    /\ UNCHANGED <<pinSector, seedSector, misses, seedPin>>

\* Fault: the lockout erases the PIN record only.
CheckPinLockoutKeepsSeed(pin) ==
    /\ PinReadable
    /\ ~Verifies(pin)
    /\ NextFails >= MaxFails
    /\ flashOps' = <<ErasePin>>
    /\ UNCHANGED <<pinSector, seedSector, misses, seedPin>>

\* Fault: the record is rewritten with the count it had.
CheckPinMismatchUncounted(pin) ==
    /\ PinReadable
    /\ ~Verifies(pin)
    /\ NextFails < MaxFails
    /\ flashOps' = WritePin(pinSector.verifier, pinSector.fails)
    /\ UNCHANGED <<pinSector, seedSector, misses, seedPin>>

\* The four outcomes of storage_check_pin.
CheckPinUnreadable ==
    /\ ~PinReadable
    /\ UNCHANGED storageVars

CheckPinMatch(pin) ==
    /\ PinReadable
    /\ Verifies(pin)
    /\ flashOps' = IF pinSector.fails # 0 THEN WritePin(pinSector.verifier, 0) ELSE <<>>
    /\ UNCHANGED <<pinSector, seedSector, misses, seedPin>>

CheckPinLockout(pin) ==
    /\ PinReadable
    /\ ~Verifies(pin)
    /\ NextFails >= MaxFails
    /\ flashOps' = <<ErasePin, EraseSeed>>
    /\ UNCHANGED <<pinSector, seedSector, misses, seedPin>>

CheckPinMismatch(pin) ==
    /\ PinReadable
    /\ ~Verifies(pin)
    /\ NextFails < MaxFails
    /\ flashOps' = WritePin(pinSector.verifier, NextFails)
    /\ UNCHANGED <<pinSector, seedSector, misses, seedPin>>

\* History of what the caller was told; the count stops at MaxFails.
ReportMismatch == misses' = IF misses < MaxFails THEN misses + 1 ELSE misses
ForgetMisses   == misses' = 0

-----------------------------------------------------------------------------
StorageInit ==
    /\ pinSector = ErasedPin
    /\ seedSector = NoSeed
    /\ flashOps = <<>>
    /\ misses = 0
    /\ seedPin = NoPin

StorageTypeOK ==
    /\ pinSector \in PinRecord
    /\ seedSector \in SeedOrNone
    /\ flashOps \in Seq(FlashOp)
    /\ misses \in 0..MaxFails
    /\ seedPin \in Pins \cup {NoPin}
=============================================================================

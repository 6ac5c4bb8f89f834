----------------------------- MODULE NoirProofs -----------------------------
(***************************************************************************)
(* Noir, proved for every value of the constants: any host, with or        *)
(* without power cuts.  First its types: every operation of the component  *)
(* modules keeps its variables in their ranges, and so does every step of  *)
(* the loop.                                                               *)
(***************************************************************************)
EXTENDS Noir, TLAPS, SequenceTheorems

-----------------------------------------------------------------------------
(* Storage.                                                                *)

LEMMA PinImageType ==
    ASSUME NEW fields \in 0..5, NEW verifier \in Pins \cup {NoPin},
           NEW fails \in 0..(CountMod - 1)
    PROVE  PinImage(fields, verifier, fails) \in PinRecord
BY StorageAssumption DEF PinImage, PinRecord, ErasedCount

\* flash_write of a PIN record is a sequence of writes of PIN records.
LEMMA WritePinType ==
    ASSUME NEW verifier \in Pins \cup {NoPin}, NEW fails \in 0..(CountMod - 1)
    PROVE  WritePin(verifier, fails) \in Seq(FlashOp)
<1>1. ASSUME NEW k \in 1..6
      PROVE  [sector |-> "pin", to |-> PinImage(k - 1, verifier, fails)] \in FlashOp
  <2>1. PinImage(k - 1, verifier, fails) \in PinRecord
    BY PinImageType
  <2> QED BY <2>1 DEF FlashOp
<1>2. WritePin(verifier, fails) \in [1..6 -> FlashOp]
  BY <1>1 DEF WritePin
<1>3. [1..6 -> FlashOp] \in {[1..n -> FlashOp] : n \in Nat}
  OBVIOUS
<1> QED BY <1>2, <1>3, SeqDef

LEMMA ErasePinType == ErasePin \in FlashOp
BY PinImageType, StorageAssumption DEF ErasePin, ErasedPin, ErasedCount, FlashOp

LEMMA EraseSeedType == EraseSeed \in FlashOp
BY DEF EraseSeed, FlashOp, SeedOrNone

LEMMA WriteSeedType ==
    ASSUME NEW seed \in Seeds
    PROVE  WriteSeed(seed) \in Seq(FlashOp)
<1>1. [sector |-> "seed", to |-> seed] \in FlashOp
  BY DEF FlashOp, SeedOrNone
<1> QED BY <1>1, EraseSeedType DEF WriteSeed

LEMMA FlashStepType ==
    ASSUME StorageTypeOK, FlashStep
    PROVE  StorageTypeOK'
<1>1. Head(flashOps) \in FlashOp /\ Tail(flashOps) \in Seq(FlashOp)
  BY DEF StorageTypeOK, FlashStep
<1>2. Head(flashOps).sector = "pin" => Head(flashOps).to \in PinRecord
  BY <1>1 DEF FlashOp
<1>3. Head(flashOps).sector # "pin" => Head(flashOps).to \in SeedOrNone
  BY <1>1 DEF FlashOp
<1> QED BY <1>1, <1>2, <1>3 DEF StorageTypeOK, FlashStep

LEMMA CheckPinType ==
    ASSUME StorageTypeOK, NEW pin \in Pins,
           \/ CheckPinMatch(pin) \/ CheckPinMismatch(pin)
           \/ CheckPinUnreadable \/ CheckPinLockout(pin)
    PROVE  StorageTypeOK'
<1>1. pinSector.verifier \in Pins \cup {NoPin} /\ pinSector.fails \in 0..(CountMod - 1)
  BY DEF StorageTypeOK, PinRecord
<1>2. 0 \in 0..(CountMod - 1) /\ NextFails \in 0..(CountMod - 1)
  BY <1>1, StorageAssumption DEF NextFails
<1>3. CASE CheckPinMatch(pin)
  <2>1. WritePin(pinSector.verifier, 0) \in Seq(FlashOp)
    BY <1>1, <1>2, WritePinType
  <2> QED BY <1>3, <2>1 DEF CheckPinMatch, StorageTypeOK
<1>4. CASE CheckPinMismatch(pin)
  <2>1. WritePin(pinSector.verifier, NextFails) \in Seq(FlashOp)
    BY <1>1, <1>2, WritePinType
  <2> QED BY <1>4, <2>1 DEF CheckPinMismatch, StorageTypeOK
<1>5. CASE CheckPinUnreadable
  BY <1>5 DEF CheckPinUnreadable, storageVars, StorageTypeOK
<1>6. CASE CheckPinLockout(pin)
  BY <1>6, ErasePinType, EraseSeedType DEF CheckPinLockout, StorageTypeOK
<1> QED BY <1>3, <1>4, <1>5, <1>6

LEMMA StorageSetPinType ==
    ASSUME StorageTypeOK, NEW pin \in Pins, StorageSetPin(pin)
    PROVE  StorageTypeOK'
BY WritePinType, StorageAssumption DEF StorageTypeOK, StorageSetPin

LEMMA StorageSeedSetType ==
    ASSUME StorageTypeOK, NEW seed \in Seeds, NEW pin \in Pins \cup {NoPin},
           StorageSeedSet(seed, pin)
    PROVE  StorageTypeOK'
BY WriteSeedType DEF StorageTypeOK, StorageSeedSet

-----------------------------------------------------------------------------
(* Request handlers.                                                       *)

LEMMA AddressInType ==
    ASSUME NEW seed \in SeedOrNone, NEW index \in Indices
    PROVE  Address(seed, index) \in AddressType
BY DEF Address, AddressType

LEMMA CopiedType ==
    ASSUME WhTypeOK, NEW at \in Nat, NEW chunk \in Chunks
    PROVE  /\ Copied(at, chunk) \in [1..RawMax -> PieceOrNone]
           /\ Len(chunk) \in 0..2
<1>1. chunk \in Seq(Pieces) /\ Len(chunk) \in 0..2
  <2>1. CASE chunk = <<>>
    BY <2>1
  <2>2. ASSUME NEW p \in Pieces, chunk = <<p>> PROVE chunk \in Seq(Pieces) /\ Len(chunk) \in 0..2
    BY <2>2
  <2>3. ASSUME NEW h \in Heads, NEW t \in Tails, chunk = <<h, t>> PROVE chunk \in Seq(Pieces) /\ Len(chunk) \in 0..2
    BY <2>3 DEF Pieces
  <2> QED BY <2>1, <2>2, <2>3 DEF Chunks
<1>2. ASSUME NEW k \in 1..RawMax, k - at \in DOMAIN chunk
      PROVE  chunk[k - at] \in PieceOrNone
  BY <1>1, <1>2 DEF PieceOrNone
<1> QED BY <1>1, <1>2 DEF Copied, WhTypeOK

LEMMA AccumulateType ==
    ASSUME WhTypeOK, NEW buffer \in [1..RawMax -> PieceOrNone], NEW len \in 0..RawMax,
           Accumulate(buffer, len), UNCHANGED <<gSeed, pAddr>>,
           pIndex' \in Indices, txIndex' \in IndexOrNone
    PROVE  WhTypeOK'
<1>1. CASE Parses(buffer, len)
  <2>1. buffer[1] \in PieceOrNone /\ buffer[2] \in PieceOrNone
    BY HandlersAssumption
  <2> QED BY <1>1, <2>1 DEF Accumulate, WhTypeOK, Hash
<1>2. CASE ~Parses(buffer, len)
  BY <1>2 DEF Accumulate, WhTypeOK
<1> QED BY <1>1, <1>2

LEMMA WhResetType ==
    ASSUME WhTypeOK, WhReset, gSeed' \in SeedOrNone
    PROVE  WhTypeOK'
BY HandlersAssumption DEF WhTypeOK, WhReset, NoHash, Hash, PieceOrNone, NoAddress, Address,
   AddressType, SeedOrNone, IndexOrNone

-----------------------------------------------------------------------------
(* Answers and requests.                                                   *)

LEMMA StatusType ==
    ASSUME NEW sw \in StatusWords
    PROVE  Status(sw) \in Answers
BY DEF Status, Answers

LEMMA QueueResponseType ==
    ASSUME NEW answer \in Answers, QueueResponse(answer)
    PROVE  out' \in [answer : Answers, left : 0..2]
BY DEF QueueResponse, FrameCount

LEMMA NothingQueuedType == NothingQueued \in [answer : Answers, left : 0..2]
BY StatusType DEF NothingQueued, StatusWords

LEMMA HostSendsType ==
    ASSUME HidTypeOK, NEW ins, NEW index \in IndexOrNone, HostSends(ins, index)
    PROVE  host' \in [ins : Requests \cup {"NONE"}, index : IndexOrNone]
BY DEF HostSends, Request

LEMMA AnswerType ==
    ASSUME HidTypeOK, NEW answer \in Answers, Answer(answer)
    PROVE  out' \in [answer : Answers, left : 0..2]
BY QueueResponseType DEF Answer, HidTypeOK

LEMMA ReceiveApduType ==
    ASSUME HidTypeOK, ReceiveApdu
    PROVE  HidTypeOK'
<1>1. NoIndex \in IndexOrNone /\ Indices \subseteq IndexOrNone
  BY DEF IndexOrNone
<1>2. \A sw \in StatusWords : Status(sw) \in Answers
  BY StatusType
<1>3. UNCHANGED <<locked, gSeed>>
  BY DEF ReceiveApdu, ServeAlways, RefuseLocked, RefuseRequest, GetPubkey, GetPubkeyConfirm,
         SignTxFirst, SignTxMore
<1>4. WhTypeOK /\ rawLen \in 0..RawMax /\ gSeed \in SeedOrNone /\ locked \in BOOLEAN
  BY DEF HidTypeOK, WhTypeOK
<1>5. CASE ServeAlways \/ RefuseLocked \/ RefuseRequest
  <2>1. \E ins, sw : HostSends(ins, NoIndex) /\ sw \in StatusWords /\ Answer(Status(sw))
    <3>1. CASE ServeAlways
      <4>1. PICK ins \in {"GET_CONFIG", "MALFORMED"} :
              /\ HostSends(ins, NoIndex)
              /\ Answer(Status(IF ins = "GET_CONFIG" THEN "OK" ELSE "REFUSED"))
        BY <3>1 DEF ServeAlways
      <4> QED BY <4>1 DEF StatusWords
    <3>2. CASE RefuseLocked
      BY <3>2 DEF RefuseLocked, StatusWords
    <3>3. CASE RefuseRequest
      BY <3>3 DEF RefuseRequest, StatusWords
    <3> QED BY <1>5, <3>1, <3>2, <3>3
  <2>2. UNCHANGED handlerVars
    BY <1>5 DEF ServeAlways, RefuseLocked, RefuseRequest
  <2>3. WhTypeOK'
    BY <1>3, <1>4, <2>2 DEF handlerVars, WhTypeOK
  <2>4. out' \in [answer : Answers, left : 0..2]
    BY <1>2, <2>1, AnswerType
  <2>5. host' \in [ins : Requests \cup {"NONE"}, index : IndexOrNone]
    BY <1>1, <2>1, HostSendsType
  <2> QED BY <1>3, <1>4, <2>3, <2>4, <2>5 DEF HidTypeOK
<1>6. ASSUME NEW index \in Indices, GetPubkey(index) \/ GetPubkeyConfirm(index)
      PROVE  HidTypeOK'
  <2>1. Address(gSeed, index) \in AddressType
    BY <1>4, AddressInType
  <2>2. WhTypeOK'
    BY <1>3, <1>4, <1>6, <2>1 DEF GetPubkey, GetPubkeyConfirm, WhGetPubkeyConfirm, handlerVars,
                                 WhTypeOK
  <2>3. PICK answer \in Answers : Answer(answer)
    BY <1>2, <1>6, <2>1 DEF GetPubkey, GetPubkeyConfirm, Answers, StatusWords
  <2>4. out' \in [answer : Answers, left : 0..2]
    BY <2>3, AnswerType
  <2>5. host' \in [ins : Requests \cup {"NONE"}, index : IndexOrNone]
    BY <1>1, <1>6, HostSendsType DEF GetPubkey, GetPubkeyConfirm
  <2> QED BY <1>3, <1>4, <2>2, <2>4, <2>5 DEF HidTypeOK
<1>7. ASSUME NEW index \in Indices, NEW chunk \in Chunks, SignTxFirst(index, chunk)
      PROVE  HidTypeOK'
  <2>1. Accumulate(Copied(0, chunk), Len(chunk)) /\ UNCHANGED <<gSeed, pAddr>>
    BY <1>7 DEF SignTxFirst, WhSignTxFirst
  <2>2. Copied(0, chunk) \in [1..RawMax -> PieceOrNone] /\ Len(chunk) \in 0..RawMax
    <3>1. 0 \in Nat
      OBVIOUS
    <3>2. Copied(0, chunk) \in [1..RawMax -> PieceOrNone] /\ Len(chunk) \in 0..2
      BY <1>4, <3>1, CopiedType
    <3>3. RawMax \in Nat /\ RawMax >= 2
      BY HandlersAssumption
    <3> QED BY <3>2, <3>3
  <2>3. pIndex' \in Indices /\ txIndex' \in IndexOrNone
    BY <1>1, <1>7 DEF SignTxFirst, WhSignTxFirst
  <2>4. WhTypeOK'
    BY <1>4, <2>1, <2>2, <2>3, AccumulateType
  <2>5. out' \in [answer : Answers, left : 0..2]
    BY <1>2, <1>7, AnswerType DEF SignTxFirst, StatusWords
  <2>6. host' \in [ins : Requests \cup {"NONE"}, index : IndexOrNone]
    BY <1>1, <1>7, HostSendsType DEF SignTxFirst
  <2> QED BY <1>3, <1>4, <2>4, <2>5, <2>6 DEF HidTypeOK
<1>8. ASSUME NEW chunk \in Chunks, SignTxMore(chunk)
      PROVE  HidTypeOK'
  <2>1. WhTypeOK'
    <3>1. CASE WhSignTxMore(chunk)
      <4>1. Accumulate(Copied(rawLen, chunk), rawLen + Len(chunk))
        BY <3>1 DEF WhSignTxMore
      <4>2. /\ Copied(rawLen, chunk) \in [1..RawMax -> PieceOrNone]
            /\ rawLen + Len(chunk) \in 0..RawMax
        <5>1. RawMax \in Nat /\ rawLen \in Nat
          <6>1. RawMax \in Nat
            BY HandlersAssumption
          <6> QED BY <1>4, <6>1
        <5>2. /\ Copied(rawLen, chunk) \in [1..RawMax -> PieceOrNone]
              /\ Len(chunk) \in 0..2
          BY <1>4, <5>1, CopiedType
        <5> QED BY <3>1, <5>1, <5>2 DEF WhSignTxMore
      <4>3. UNCHANGED <<gSeed, pAddr>> /\ pIndex' \in Indices /\ txIndex' \in IndexOrNone
        BY <1>3, <1>4, <3>1 DEF WhSignTxMore, WhTypeOK
      <4> QED BY <1>4, <4>1, <4>2, <4>3, AccumulateType
    <3>2. CASE WhSignTxOverflow(chunk)
      BY <1>1, <1>3, <1>4, <3>2, HandlersAssumption DEF WhSignTxOverflow, WhTypeOK
    <3> QED BY <1>8, <3>1, <3>2 DEF SignTxMore
  <2>2. out' \in [answer : Answers, left : 0..2]
    BY <1>2, <1>8, AnswerType DEF SignTxMore, StatusWords
  <2>3. host' \in [ins : Requests \cup {"NONE"}, index : IndexOrNone]
    BY <1>1, <1>8, HostSendsType DEF SignTxMore
  <2> QED BY <1>3, <1>4, <2>1, <2>2, <2>3 DEF HidTypeOK
<1> QED BY <1>5, <1>6, <1>7, <1>8 DEF ReceiveApdu

LEMMA HidAppTaskType ==
    ASSUME HidTypeOK, NEW sent \in 0..out.left, HidAppTask(sent)
    PROVE  HidTypeOK'
<1>1. WhTypeOK' /\ locked' \in BOOLEAN
  BY DEF HidTypeOK, WhTypeOK, HidAppTask, handlerVars
<1>2. NoRequest \in [ins : Requests \cup {"NONE"}, index : IndexOrNone]
  BY DEF NoRequest, Request, IndexOrNone
<1>3. host' \in [ins : Requests \cup {"NONE"}, index : IndexOrNone]
  BY <1>2 DEF HidTypeOK, HidAppTask
<1>4. [out EXCEPT !.left = @ - sent] \in [answer : Answers, left : 0..2]
  BY DEF HidTypeOK
<1>5. out' \in [answer : Answers, left : 0..2]
  BY <1>4, NothingQueuedType DEF HidAppTask
<1> QED BY <1>1, <1>3, <1>5 DEF HidTypeOK

LEMMA DecisionType ==
    ASSUME HidTypeOK, HidAppApprove \/ HidAppReject
    PROVE  HidTypeOK'
<1>1. WhTypeOK' /\ locked' \in BOOLEAN /\ UNCHANGED host
  BY DEF HidTypeOK, WhTypeOK, WhDecided, HidAppApprove, HidAppReject
<1>2. UNCHANGED out \/ \E answer \in Answers : QueueResponse(answer)
  <2>1. Status("REJECTED") \in Answers /\ Status("BAD_DATA") \in Answers
    BY StatusType DEF StatusWords
  <2>2. [sw |-> "OK", body |-> pAddr] \in Answers
    BY DEF Answers, StatusWords, HidTypeOK, WhTypeOK
  <2>3. WalletUnlocked =>
          [sw |-> "OK", body |-> Signature(gSeed, pIndex, pSighash, pTx)] \in Answers
    <3>1. WalletUnlocked => Signature(gSeed, pIndex, pSighash, pTx) \in Signatures
      BY DEF Signature, Signatures, WalletUnlocked, HidTypeOK, WhTypeOK, SeedOrNone
    <3> QED BY <3>1 DEF Answers, StatusWords
  <2>4. pending \in {"IDLE", "CONFIRM_ADDR", "REVIEW_TX"}
    BY DEF HidTypeOK, WhTypeOK
  <2>5. CASE HidAppReject
    BY <2>1, <2>5 DEF HidAppReject
  <2>6. CASE HidAppApprove
    BY <2>1, <2>2, <2>3, <2>4, <2>6 DEF HidAppApprove
  <2> QED BY <2>5, <2>6
<1>3. out' \in [answer : Answers, left : 0..2]
  BY <1>2, QueueResponseType DEF HidTypeOK
<1> QED BY <1>1, <1>3 DEF HidTypeOK

-----------------------------------------------------------------------------
(* The display.                                                            *)

ShownType == [screen : States \cup {"GENERATING"}, page : 0..5,
              item : PieceOrNone \cup AddressType]

UiTypeOK ==
    /\ state \in States
    /\ page \in 0..5
    /\ shown \in ShownType

LEMMA GoToType ==
    ASSUME WhTypeOK, UiTypeOK, NEW st \in States, NEW pg \in 0..5, GoTo(st, pg)
    PROVE  UiTypeOK'
<1>1. pTx \in PieceOrNone /\ raw[2] \in PieceOrNone /\ pAddr \in AddressType
  BY HandlersAssumption DEF WhTypeOK
<1>2. ScreenItem(st, pg) \in PieceOrNone \cup AddressType
  BY <1>1 DEF ScreenItem, PieceOrNone
<1>3. Screen(st, pg) \in ShownType
  BY <1>2 DEF Screen, ShownType
<1> QED BY <1>3 DEF GoTo, Render, UiTypeOK

-----------------------------------------------------------------------------
(* The loop.                                                               *)

\* The variables of main.c other than the display.
MainTypeOK ==
    /\ pc \in {"tud", "task", "pend", "btn", "flash"}
    /\ after \in Afters
    /\ pinMode \in {"ENTER", "SET1", "SET2"}
    /\ firstPin \in Pins \cup {NoPin}
    /\ entropy \in SeedOrNone
    /\ wseed \in SeedOrNone
    /\ center \in {"up", "down", "held"}
    /\ holdOn \in BOOLEAN
    /\ backedUp \in BOOLEAN

LEMMA TypeParts == TypeOK <=> StorageTypeOK /\ HidTypeOK /\ UiTypeOK /\ MainTypeOK
BY DEF TypeOK, UiTypeOK, MainTypeOK, ShownType

LEMMA TypePartsNext ==
    ASSUME StorageTypeOK', HidTypeOK', UiTypeOK', MainTypeOK'
    PROVE  TypeOK'
BY DEF TypeOK, UiTypeOK, MainTypeOK, ShownType

LEMMA InitType == Init => TypeOK
<1> SUFFICES ASSUME Init PROVE TypeOK
    OBVIOUS
<1>1. StorageTypeOK
  <2>1. ErasedPin \in PinRecord
    BY PinImageType, StorageAssumption DEF ErasedPin, ErasedCount
  <2> QED BY <2>1, StorageAssumption DEF Init, StorageInit, StorageTypeOK, SeedOrNone
<1>2. HidTypeOK
  <2>1. WhTypeOK
    BY WalletAssumption, HandlersAssumption
       DEF Init, HidInit, WhInit, WhTypeOK, SeedOrNone, PieceOrNone, NoHash, Hash, NoAddress,
           Address, AddressType, IndexOrNone
  <2> QED BY <2>1, NothingQueuedType
          DEF Init, HidInit, HidTypeOK, NoRequest, Request, IndexOrNone
<1>3. UiTypeOK
  BY DEF Init, UiTypeOK, ShownType, States, PieceOrNone
<1>4. MainTypeOK
  BY DEF Init, MainTypeOK, Afters, SeedOrNone
<1> QED BY <1>1, <1>2, <1>3, <1>4, TypeParts

\* Every button event.
LEMMA ButtonType ==
    ASSUME TypeOK, Button
    PROVE  TypeOK'
<1>1. /\ StorageTypeOK /\ HidTypeOK /\ UiTypeOK /\ MainTypeOK /\ WhTypeOK
      /\ page \in 0..5 /\ state \in States /\ firstPin \in Pins \cup {NoPin}
  BY TypeParts DEF HidTypeOK, UiTypeOK, MainTypeOK
<1>2. ASSUME UNCHANGED storageVars PROVE StorageTypeOK'
  BY <1>1, <1>2 DEF storageVars, StorageTypeOK
<1>3. ASSUME HostUntouched PROVE HidTypeOK'
  BY <1>1, <1>3 DEF HostUntouched, handlerVars, hidVars, HidTypeOK, WhTypeOK
<1>4. ASSUME UNCHANGED uiVars PROVE UiTypeOK'
  BY <1>1, <1>4 DEF uiVars, UiTypeOK
<1>5. ASSUME NEW st \in States, NEW pg \in 0..5, GoTo(st, pg) PROVE UiTypeOK'
  BY <1>1, <1>5, GoToType
<1>6. ASSUME NEW button \in Buttons, Press(button)
      PROVE  center' \in {"up", "down", "held"} /\ holdOn' \in BOOLEAN
  BY <1>1, <1>6 DEF Press, userVars, MainTypeOK
<1> USE DEF NextTurn, pinVars
<1>7. CASE NoPress
  BY <1>1, <1>2, <1>3, <1>4, <1>7, TypePartsNext DEF NoPress, userVars, MainTypeOK
<1>8. CASE LongPressSigns
  <2>1. UiTypeOK'
    BY <1>5, <1>8 DEF LongPressSigns, States
  <2>2. HidTypeOK'
    BY <1>1, <1>8, DecisionType DEF LongPressSigns
  <2>3. MainTypeOK'
    BY <1>1, <1>8 DEF LongPressSigns, MainTypeOK
  <2> QED BY <1>2, <1>8, <2>1, <2>2, <2>3, TypePartsNext DEF LongPressSigns
<1>9. CASE SplashLeft
  <2>1. UiTypeOK'
    BY <1>1, <1>5, <1>9 DEF SplashLeft, States
  <2>2. MainTypeOK'
    BY <1>1, <1>6, <1>9 DEF SplashLeft, Buttons, MainTypeOK
  <2> QED BY <1>2, <1>3, <1>9, <2>1, <2>2, TypePartsNext DEF SplashLeft
<1>10. CASE Move
  <2>1. PICK m \in Moves : Press(m[2]) /\ GoTo(m[3], IF state = "READY" THEN 0 ELSE page)
    BY <1>10 DEF Move
  <2>2. m[2] \in Buttons /\ m[3] \in States
    BY DEF Moves, Buttons, States
  <2>3. UiTypeOK'
    BY <1>1, <1>5, <2>1, <2>2
  <2>4. MainTypeOK'
    BY <1>1, <1>6, <1>10, <2>1, <2>2 DEF Move, MainTypeOK
  <2> QED BY <1>2, <1>3, <1>10, <2>3, <2>4, TypePartsNext DEF Move
<1>11. CASE TurnPage
  <2>1. PICK pg \in 0..5 : GoTo(state, pg)
    BY <1>1, <1>11 DEF TurnPage, LastPage
  <2>2. UiTypeOK'
    BY <1>1, <1>5, <2>1
  <2>3. MainTypeOK'
    BY <1>1, <1>6, <1>11 DEF TurnPage, Buttons, MainTypeOK
  <2> QED BY <1>2, <1>3, <1>11, <2>2, <2>3, TypePartsNext DEF TurnPage
<1>12. CASE BackupDone
  <2>1. UiTypeOK'
    BY <1>1, <1>5, <1>12 DEF BackupDone, States
  <2>2. MainTypeOK'
    BY <1>1, <1>6, <1>12 DEF BackupDone, Buttons, MainTypeOK
  <2> QED BY <1>2, <1>3, <1>12, <2>1, <2>2, TypePartsNext DEF BackupDone
<1>13. CASE HomeReceive
  <2>1. UiTypeOK'
    BY <1>1, <1>5, <1>13 DEF HomeReceive, States
  <2>2. MainTypeOK'
    BY <1>1, <1>6, <1>13 DEF HomeReceive, Buttons, MainTypeOK
  <2> QED BY <1>2, <1>3, <1>13, <2>1, <2>2, TypePartsNext DEF HomeReceive
<1>14. CASE HomeLock
  <2>1. UiTypeOK'
    BY <1>1, <1>5, <1>14 DEF HomeLock, States
  <2>2. MainTypeOK'
    BY <1>1, <1>6, <1>14 DEF HomeLock, Buttons, MainTypeOK, SeedOrNone
  <2>3. HidTypeOK'
    <3>1. WhTypeOK'
      BY <1>1, <1>14, WhResetType DEF HomeLock, WalletStateClear, SeedOrNone
    <3> QED BY <1>1, <1>14, <3>1 DEF HomeLock, HidTypeOK
  <2> QED BY <1>2, <1>14, <2>1, <2>2, <2>3, TypePartsNext DEF HomeLock
<1>15. CASE ConfirmPress \/ ReviewReject
  <2>1. UiTypeOK'
    BY <1>5, <1>15 DEF ConfirmPress, ReviewReject, States
  <2>2. HidTypeOK'
    BY <1>1, <1>15, DecisionType DEF ConfirmPress, ReviewReject
  <2>3. MainTypeOK'
    BY <1>1, <1>6, <1>15 DEF ConfirmPress, ReviewReject, Buttons, MainTypeOK
  <2> QED BY <1>2, <1>15, <2>1, <2>2, <2>3, TypePartsNext DEF ConfirmPress, ReviewReject
<1>16. CASE OtherPress
  <2>1. MainTypeOK'
    BY <1>1, <1>6, <1>16 DEF OtherPress, MainTypeOK
  <2> QED BY <1>2, <1>3, <1>4, <1>16, <2>1, TypePartsNext DEF OtherPress
<1>17. ASSUME NEW pin \in Pins, CheckPin(pin)
       PROVE  TypeOK'
  <2>1. StorageTypeOK'
    BY <1>1, <1>17, CheckPinType DEF CheckPin
  <2>2. MainTypeOK'
    BY <1>1, <1>6, <1>17 DEF CheckPin, EnterPin, Buttons, AwaitFlash, Afters, MainTypeOK
  <2> QED BY <1>3, <1>4, <1>17, <2>1, <2>2, TypePartsNext DEF CheckPin, EnterPin
<1>18. ASSUME NEW pin \in Pins, ChoosePin(pin)
       PROVE  TypeOK'
  <2>1. MainTypeOK'
    BY <1>1, <1>6, <1>18 DEF ChoosePin, EnterPin, Buttons, MainTypeOK
  <2>2. UiTypeOK'
    BY <1>1, <1>5, <1>18 DEF ChoosePin, States
  <2> QED BY <1>2, <1>3, <1>18, <2>1, <2>2, TypePartsNext DEF ChoosePin, EnterPin
<1>19. ASSUME NEW pin \in Pins, RepeatPin(pin)
       PROVE  TypeOK'
  <2>1. StorageTypeOK'
    BY <1>1, <1>2, <1>19, StorageSetPinType DEF RepeatPin
  <2>2. UiTypeOK'
    BY <1>1, <1>4, <1>5, <1>19 DEF RepeatPin, States
  <2>3. MainTypeOK'
    BY <1>1, <1>6, <1>19 DEF RepeatPin, EnterPin, Buttons, AwaitFlash, Afters, MainTypeOK
  <2> QED BY <1>3, <1>19, <2>1, <2>2, <2>3, TypePartsNext DEF RepeatPin, EnterPin
<1> QED BY <1>7, <1>8, <1>9, <1>10, <1>11, <1>12, <1>13, <1>14, <1>15, <1>16, <1>17, <1>18,
           <1>19 DEF Button

\* Every way a handler goes on after its flash writes.
LEMMA ContinueType ==
    ASSUME TypeOK, Continue
    PROVE  TypeOK'
<1>1. /\ StorageTypeOK /\ HidTypeOK /\ UiTypeOK /\ MainTypeOK /\ WhTypeOK
      /\ page \in 0..5 /\ state \in States /\ firstPin \in Pins \cup {NoPin}
      /\ seedSector \in SeedOrNone /\ wseed \in SeedOrNone /\ entropy \in SeedOrNone
  BY TypeParts DEF HidTypeOK, UiTypeOK, MainTypeOK, StorageTypeOK
<1>2. ASSUME HostUntouched PROVE HidTypeOK'
  BY <1>1, <1>2 DEF HostUntouched, handlerVars, hidVars, HidTypeOK, WhTypeOK
<1>3. ASSUME NEW st \in States, NEW pg \in 0..5, GoTo(st, pg) PROVE UiTypeOK'
  BY <1>1, <1>3, GoToType
<1>4. ASSUME UNCHANGED <<flashVars, seedPin>>, ForgetMisses \/ ReportMismatch
      PROVE  StorageTypeOK'
  BY <1>1, <1>4, StorageAssumption
     DEF flashVars, ForgetMisses, ReportMismatch, StorageTypeOK
<1>5. ASSUME UNCHANGED <<handlerVars, out, host>>, locked' \in BOOLEAN, gSeed' \in SeedOrNone
      PROVE  HidTypeOK'
  BY <1>1, <1>5 DEF handlerVars, HidTypeOK, WhTypeOK
<1> USE DEF Resume, Done, pinVars, userVars
<1>6. CASE Flash
  <2>1. StorageTypeOK'
    BY <1>1, <1>6, FlashStepType DEF Flash
  <2>2. UiTypeOK' /\ MainTypeOK'
    BY <1>1, <1>6 DEF Flash, uiVars, UiTypeOK, MainTypeOK
  <2> QED BY <1>2, <1>6, <2>1, <2>2, TypePartsNext DEF Flash
<1>7. CASE Unlock
  <2>1. UiTypeOK'
    BY <1>1, <1>3, <1>7 DEF Unlock, States
  <2>2. HidTypeOK'
    <3>1. locked' \in BOOLEAN /\ gSeed' \in SeedOrNone
      BY <1>1, <1>7 DEF Unlock, WalletStateSetSeed, HidTypeOK, WhTypeOK
    <3> QED BY <1>5, <1>7, <3>1 DEF Unlock
  <2>3. MainTypeOK'
    BY <1>1, <1>7 DEF Unlock, Afters, MainTypeOK
  <2> QED BY <1>4, <1>7, <2>1, <2>2, <2>3, TypePartsNext DEF Unlock
<1>8. CASE WrongPin \/ Wiped
  <2>1. UiTypeOK'
    BY <1>1, <1>3, <1>8 DEF WrongPin, Wiped, States
  <2>2. MainTypeOK'
    BY <1>1, <1>8 DEF WrongPin, Wiped, Afters, MainTypeOK
  <2> QED BY <1>2, <1>4, <1>8, <2>1, <2>2, TypePartsNext DEF WrongPin, Wiped
<1>9. CASE Provision
  <2>1. CASE UNCHANGED <<storageVars, entropy, backedUp>> /\ GoTo("ERROR", page) /\ Done
    <3>1. StorageTypeOK'
      BY <1>1, <2>1 DEF storageVars, StorageTypeOK
    <3>2. UiTypeOK'
      BY <1>1, <1>3, <2>1 DEF States
    <3>3. MainTypeOK'
      BY <1>1, <1>9, <2>1 DEF Provision, Afters, MainTypeOK
    <3> QED BY <1>2, <1>9, <3>1, <3>2, <3>3, TypePartsNext DEF Provision
  <2>2. ASSUME NEW seed \in Seeds,
               entropy' = seed, StorageSeedSet(seed, firstPin), backedUp' = FALSE,
               AwaitFlash("seedset"),
               shown' = [screen |-> "GENERATING", page |-> page, item |-> NoPiece],
               UNCHANGED <<state, page>>
        PROVE  TypeOK'
    <3>1. StorageTypeOK'
      BY <1>1, <2>2, StorageSeedSetType
    <3>2. UiTypeOK'
      BY <1>1, <2>2 DEF UiTypeOK, ShownType, PieceOrNone
    <3>3. MainTypeOK'
      BY <1>1, <1>9, <2>2 DEF Provision, AwaitFlash, Afters, SeedOrNone, MainTypeOK
    <3> QED BY <1>2, <1>9, <3>1, <3>2, <3>3, TypePartsNext DEF Provision
  <2> QED BY <1>9, <2>1, <2>2 DEF Provision
<1>10. CASE Provisioned
  <2>1. UiTypeOK'
    BY <1>1, <1>3, <1>10 DEF Provisioned, States
  <2>2. HidTypeOK'
    <3>1. locked' \in BOOLEAN /\ gSeed' \in SeedOrNone
      BY <1>1, <1>10 DEF Provisioned, WalletStateSetSeed, HidTypeOK, WhTypeOK
    <3> QED BY <1>5, <1>10, <3>1 DEF Provisioned
  <2>3. MainTypeOK'
    BY <1>1, <1>10 DEF Provisioned, Afters, SeedOrNone, MainTypeOK
  <2>4. StorageTypeOK'
    BY <1>1, <1>10 DEF Provisioned, storageVars, StorageTypeOK
  <2> QED BY <2>1, <2>2, <2>3, <2>4, TypePartsNext
<1> QED BY <1>6, <1>7, <1>8, <1>9, <1>10 DEF Continue

LEMMA PowerCutType ==
    ASSUME TypeOK, PowerCut
    PROVE  TypeOK'
<1>1. StorageTypeOK /\ MainTypeOK
  BY TypeParts
<1>2. StorageTypeOK'
  BY <1>1 DEF PowerCut, StorageTypeOK
<1>3. HidTypeOK'
  <2>1. WhTypeOK'
    BY WalletAssumption, HandlersAssumption
       DEF PowerCut, WhTypeOK, SeedOrNone, PieceOrNone, NoHash, Hash, NoAddress, Address,
           AddressType, IndexOrNone
  <2> QED BY <2>1, NothingQueuedType
          DEF PowerCut, HidTypeOK, NoRequest, Request, IndexOrNone
<1>4. UiTypeOK'
  BY DEF PowerCut, UiTypeOK, ShownType, States, PieceOrNone
<1>5. MainTypeOK'
  BY <1>1 DEF PowerCut, MainTypeOK, Afters, SeedOrNone
<1> QED BY <1>2, <1>3, <1>4, <1>5, TypePartsNext

LEMMA NextType == TypeOK /\ [Next]_vars => TypeOK'
<1> SUFFICES ASSUME TypeOK, [Next]_vars PROVE TypeOK'
    OBVIOUS
<1>1. StorageTypeOK /\ HidTypeOK /\ UiTypeOK /\ MainTypeOK /\ WhTypeOK
  BY TypeParts DEF HidTypeOK
<1>2. ASSUME UNCHANGED storageVars PROVE StorageTypeOK'
  BY <1>1, <1>2 DEF storageVars, StorageTypeOK
<1>3. ASSUME UNCHANGED uiVars PROVE UiTypeOK'
  BY <1>1, <1>3 DEF uiVars, UiTypeOK
<1>4. ASSUME UNCHANGED <<handlerVars, hidVars, gSeed>> PROVE HidTypeOK'
  BY <1>1, <1>4 DEF handlerVars, hidVars, HidTypeOK, WhTypeOK
<1>5. CASE TudReport
  <2>1. HidTypeOK'
    BY <1>1, <1>5, ReceiveApduType DEF TudReport
  <2>2. MainTypeOK'
    BY <1>1, <1>5 DEF TudReport, pinVars, userVars, MainTypeOK
  <2> QED BY <1>2, <1>3, <1>5, <2>1, <2>2, TypePartsNext DEF TudReport
<1>6. CASE TudDone
  <2>1. MainTypeOK'
    BY <1>1, <1>6 DEF TudDone, pinVars, userVars, MainTypeOK
  <2> QED BY <1>2, <1>3, <1>4, <1>6, <2>1, TypePartsNext DEF TudDone
<1>7. CASE HidTask
  <2>1. HidTypeOK'
    BY <1>1, <1>7, HidAppTaskType DEF HidTask
  <2>2. MainTypeOK'
    BY <1>1, <1>7 DEF HidTask, pinVars, userVars, MainTypeOK
  <2> QED BY <1>2, <1>3, <1>7, <2>1, <2>2, TypePartsNext DEF HidTask
<1>8. CASE PendingCheck
  <2>1. UiTypeOK'
    <3>1. CASE UNCHANGED uiVars
      BY <1>3, <3>1
    <3>2. ASSUME NEW st \in States, GoTo(st, 0) PROVE UiTypeOK'
      BY <1>1, <3>2, GoToType
    <3> QED BY <1>8, <3>1, <3>2 DEF PendingCheck, States
  <2>2. MainTypeOK'
    BY <1>1, <1>8 DEF PendingCheck, pinVars, MainTypeOK
  <2> QED BY <1>2, <1>4, <1>8, <2>1, <2>2, TypePartsNext DEF PendingCheck
<1>9. CASE UNCHANGED vars
  <2>1. StorageTypeOK' /\ HidTypeOK' /\ UiTypeOK'
    BY <1>2, <1>3, <1>4, <1>9 DEF vars, uiVars
  <2>2. MainTypeOK'
    BY <1>1, <1>9 DEF vars, MainTypeOK
  <2> QED BY <2>1, <2>2, TypePartsNext
<1> QED BY <1>5, <1>6, <1>7, <1>8, <1>9, ButtonType, ContinueType, PowerCutType DEF Next

\* Every variable stays in its range.
THEOREM TypeCorrect == Spec => []TypeOK
BY InitType, NextType, PTL DEF Spec

-----------------------------------------------------------------------------
(* Invariants.                                                             *)

(* The lock.  LockAgreement is not inductive: a handler that waits for the *)
(* flash changes the lock when it resumes, so it matters that it can only  *)
(* have been started on the PIN screen, and that a setup that resumes      *)
(* after storage_seed_set has a seed in hand.                              *)
LockInv ==
    /\ locked \in BOOLEAN
    /\ LockAgreement
    /\ pc = "flash" => state = "PIN"
    /\ pc = "flash" /\ after = "seedset" => entropy # NoSeed

LEMMA LockInit == Init => LockInv
BY DEF Init, LockInv, LockAgreement, LockedStates, HidInit, WhInit

\* Handling an APDU never opens or closes the wallet, and leaves nothing
\* pending when it is closed.
LEMMA ReceiveApduLock ==
    ASSUME ReceiveApdu
    PROVE  /\ UNCHANGED <<locked, gSeed>>
           /\ locked => UNCHANGED pending
BY DEF ReceiveApdu, ServeAlways, RefuseLocked, RefuseRequest, GetPubkey, GetPubkeyConfirm,
       SignTxFirst, SignTxMore, handlerVars

LEMMA DecisionLock ==
    ASSUME HidAppApprove \/ HidAppReject
    PROVE  UNCHANGED <<locked, gSeed>> /\ pending' = "IDLE"
BY DEF HidAppApprove, HidAppReject, WhDecided

LEMMA LockStep == LockInv /\ [Next]_vars => LockInv'
<1> SUFFICES ASSUME LockInv, [Next]_vars PROVE LockInv'
    OBVIOUS
<1> USE DEF LockInv, LockAgreement, LockedStates
<1>1. CASE TudReport
  <2>1. UNCHANGED <<pc, after, state, entropy>>
    BY <1>1 DEF TudReport, uiVars, pinVars
  <2>2. ReceiveApdu
    BY <1>1 DEF TudReport
  <2> QED BY <2>1, <2>2, ReceiveApduLock
<1>2. CASE TudDone
  BY <1>2 DEF TudDone, handlerVars, hidVars, uiVars, pinVars
<1>3. CASE HidTask
  BY <1>3 DEF HidTask, HidAppTask, handlerVars, uiVars, pinVars
<1>4. CASE PendingCheck
  BY <1>4 DEF PendingCheck, GoTo, handlerVars, hidVars, uiVars, pinVars
<1>5. CASE Button
  <2> USE DEF Press, NextTurn, HostUntouched, GoTo, handlerVars, hidVars, uiVars, pinVars,
              userVars, EnterPin, AwaitFlash
  <2>1. CASE NoPress \/ SplashLeft \/ TurnPage \/ BackupDone \/ HomeReceive \/ OtherPress
    BY <2>1 DEF NoPress, SplashLeft, TurnPage, Paged, BackupDone, HomeReceive, OtherPress
  <2>5. CASE Move
    <3>1. PICK m \in Moves : state = m[1] /\ state' = m[3]
      BY <2>5 DEF Move
    <3>2. state \in LockedStates <=> state' \in LockedStates
      BY <3>1 DEF Moves
    <3> QED BY <2>5, <3>2 DEF Move
  <2>2. CASE LongPressSigns \/ ConfirmPress \/ ReviewReject
    <3>1. HidAppApprove \/ HidAppReject
      BY <2>2 DEF LongPressSigns, ConfirmPress, ReviewReject
    <3>2. pc' = "tud" /\ state \in {"REVIEW", "CONFIRM_ADDR"} /\ state' = "HOME"
      BY <2>2 DEF LongPressSigns, ConfirmPress, ReviewReject
    <3> QED BY <3>1, <3>2, DecisionLock
  <2>3. CASE HomeLock
    BY <2>3 DEF HomeLock, WhReset, WalletStateClear
  <2>4. CASE \E pin \in Pins : CheckPin(pin) \/ ChoosePin(pin) \/ RepeatPin(pin)
    BY <2>4 DEF CheckPin, ChoosePin, RepeatPin
  <2> QED BY <1>5, <2>1, <2>2, <2>3, <2>4, <2>5 DEF Button
<1>6. CASE Continue
  <2> USE DEF Resume, Done, HostUntouched, GoTo, handlerVars, hidVars, uiVars, pinVars,
              userVars, AwaitFlash, SeedExists, WalletStateSetSeed
  <2>1. CASE Flash
    BY <2>1 DEF Flash
  <2>2. CASE Unlock
    <3>1. locked /\ gSeed = NoSeed /\ pending = "IDLE" /\ UNCHANGED pending /\ pc' = "tud"
      BY <2>2 DEF Unlock
    <3>2. CASE SeedExists /\ gSeed' = seedSector /\ locked' = FALSE /\ state' = "HOME"
      BY <3>1, <3>2
    <3>3. CASE state' = "ERROR" /\ UNCHANGED <<gSeed, locked>>
      BY <3>1, <3>3
    <3> QED BY <2>2, <3>2, <3>3 DEF Unlock
  <2>3. CASE WrongPin \/ Wiped
    BY <2>3 DEF WrongPin, Wiped
  <2>4. CASE Provision
    BY <2>4, WalletAssumption DEF Provision
  <2>5. CASE Provisioned
    BY <2>5 DEF Provisioned
  <2> QED BY <1>6, <2>1, <2>2, <2>3, <2>4, <2>5 DEF Continue
<1>7. CASE PowerCut
  BY <1>7 DEF PowerCut
<1>8. CASE UNCHANGED vars
  BY <1>8 DEF vars, handlerVars, hidVars
<1> QED BY <1>1, <1>2, <1>3, <1>4, <1>5, <1>6, <1>7, <1>8 DEF Next

\* The lock gate, the seed cache and the screen agree in every reachable
\* state, and nothing is pending while the wallet is locked.
THEOREM LockAgreementHolds == Spec => []LockAgreement
<1>1. LockInv => LockAgreement
  BY DEF LockInv
<1> QED BY <1>1, LockInit, LockStep, PTL DEF Spec

-----------------------------------------------------------------------------
(* The page.  It is not reset when a screen without pages is left or       *)
(* entered, so what matters is that RECEIVE, the one such screen that goes *)
(* back to a paged one, was entered on page 0.                             *)
PageInv ==
    /\ state \in Paged => page \in 0..LastPage(state)
    /\ state = "RECEIVE" => page = 0

LEMMA PageInit == Init => PageInv
BY DEF Init, PageInv, Paged

LEMMA PageStep == LockInv /\ PageInv /\ [Next]_vars => PageInv'
<1> SUFFICES ASSUME LockInv, PageInv, [Next]_vars PROVE PageInv'
    OBVIOUS
<1> USE DEF PageInv, Paged, LastPage
<1>1. CASE UNCHANGED <<state, page>>
  BY <1>1
<1>2. CASE TudReport \/ TudDone \/ HidTask \/ OtherPress \/ NoPress
  BY <1>1, <1>2 DEF TudReport, TudDone, HidTask, OtherPress, NoPress, uiVars
<1>3. CASE PendingCheck
  BY <1>3 DEF PendingCheck, GoTo, uiVars
<1>4. CASE SplashLeft \/ BackupDone \/ HomeReceive \/ HomeLock
  BY <1>4 DEF SplashLeft, BackupDone, HomeReceive, HomeLock, GoTo
<1>5. CASE LongPressSigns \/ ConfirmPress \/ ReviewReject
  BY <1>5 DEF LongPressSigns, ConfirmPress, ReviewReject, GoTo
<1>6. CASE TurnPage
  BY <1>6 DEF TurnPage, GoTo
<1>7. CASE Move
  <2>1. PICK m \in Moves : state = m[1] /\ GoTo(m[3], IF state = "READY" THEN 0 ELSE page)
    BY <1>7 DEF Move
  <2>2. m[3] \in Paged => m[1] \in {"READY", "RECEIVE"} /\ m[3] = "HOME"
    BY DEF Moves
  <2>3. m[3] # "RECEIVE"
    BY DEF Moves
  <2>4. state' = m[3] /\ page' = IF state = "READY" THEN 0 ELSE page
    BY <2>1 DEF GoTo
  <2>5. state' \in Paged => state' = "HOME" /\ page' = 0
    BY <2>1, <2>2, <2>4
  <2>6. 0 \in 0..LastPage("HOME")
    OBVIOUS
  <2> QED BY <2>3, <2>4, <2>5, <2>6
<1>8. CASE \E pin \in Pins : CheckPin(pin) \/ ChoosePin(pin) \/ RepeatPin(pin)
  <2>1. state' \in {"PIN", "PIN_FAIL", "ERROR"}
    BY <1>8 DEF CheckPin, ChoosePin, RepeatPin, EnterPin, GoTo, uiVars
  <2> QED BY <2>1
<1>9. CASE Continue
  <2>1. \/ UNCHANGED <<state, page>>
        \/ state' \in {"HOME", "BACKUP"} /\ page' = 0
        \/ state' \in {"PIN_FAIL", "PIN_WIPED", "ERROR"}
    BY <1>9 DEF Continue, Flash, Unlock, WrongPin, Wiped, Provision, Provisioned, GoTo, uiVars
  <2> QED BY <1>1, <2>1
<1>10. CASE PowerCut
  BY <1>10 DEF PowerCut
<1>11. CASE UNCHANGED vars
  BY <1>1, <1>11 DEF vars, uiVars
<1> QED BY <1>2, <1>3, <1>4, <1>5, <1>6, <1>7, <1>8, <1>9, <1>10, <1>11 DEF Next, Button

\* The page words[] and the menus are read at is one they have.
THEOREM PageInRangeHolds == Spec => []PageInRange
<1>1. PageInv => PageInRange
  BY DEF PageInv, PageInRange, Paged, LastPage
<1> QED BY <1>1, PageInit, PageStep, LockInit, LockStep, PTL DEF Spec
=============================================================================

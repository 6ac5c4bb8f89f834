---------------------------- MODULE ReviewProofs ----------------------------
(***************************************************************************)
(* The approval of requests, proved for every value of the constants.      *)
(***************************************************************************)
EXTENDS NoirProofs

Approval == {"REVIEW", "CONFIRM_ADDR"}

(* A pending approval takes the screen before a button is looked at, and   *)
(* leaves it only by a decision.                                           *)
PendingInv ==
    /\ pending = "IDLE" => state \notin Approval
    /\ pending # "IDLE" /\ state \notin Approval => pc \in {"tud", "task", "pend"}

(* With a host that waits for its answers: nothing arrives while an answer *)
(* is on its way or a decision is awaited, so what is pending is what the  *)
(* host waits for, and the buffers behind the screen do not move.          *)
PatientInv ==
    /\ host = NoRequest => out.left = 0
    /\ pending # "IDLE" => host # NoRequest /\ out.left = 0
    /\ pending = "REVIEW_TX" =>
         host.ins = "SIGN_TX" /\ pSighash = [head |-> pTx, tail |-> raw[2]]
    /\ pending = "CONFIRM_ADDR" => host.ins = "GET_PUBKEY" /\ host.index = pAddr.index
    /\ state = "REVIEW" => pending = "REVIEW_TX" /\ shown = Screen("REVIEW", page)
    /\ state = "CONFIRM_ADDR" => pending = "CONFIRM_ADDR" /\ shown = Screen("CONFIRM_ADDR", page)
    /\ AnswerFitsRequest

-----------------------------------------------------------------------------
(* A pending approval is on the screen.                                    *)

LEMMA PendingInit == Init => PendingInv
BY DEF Init, HidInit, WhInit, PendingInv, Approval

\* A request can only add an approval.
LEMMA ReceiveApduPending ==
    ASSUME ReceiveApdu, pending \in {"IDLE", "CONFIRM_ADDR", "REVIEW_TX"}
    PROVE  pending' = "IDLE" => pending = "IDLE"
BY DEF ReceiveApdu, ServeAlways, RefuseLocked, RefuseRequest, GetPubkey, GetPubkeyConfirm,
       SignTxFirst, SignTxMore, WhGetPubkeyConfirm, WhSignTxFirst, WhSignTxMore,
       WhSignTxOverflow, Accumulate, handlerVars

LEMMA PendingStep ==
    ASSUME PendingInv, LockInv, pending \in {"IDLE", "CONFIRM_ADDR", "REVIEW_TX"}, [Next]_vars
    PROVE  PendingInv'
<1> USE DEF PendingInv, Approval
<1>1. CASE TudReport
  <2>1. UNCHANGED <<pc, state>> /\ pc = "tud" /\ ReceiveApdu
    BY <1>1 DEF TudReport, uiVars
  <2> QED BY <2>1, ReceiveApduPending
<1>2. CASE TudDone
  BY <1>2 DEF TudDone, handlerVars, uiVars
<1>3. CASE HidTask
  BY <1>3 DEF HidTask, HidAppTask, handlerVars, uiVars
<1>4. CASE PendingCheck
  BY <1>4 DEF PendingCheck, GoTo, handlerVars, uiVars
<1>5. CASE Button
  <2> USE DEF Press, NextTurn, HostUntouched, GoTo, handlerVars, uiVars, EnterPin, AwaitFlash
  <2>1. CASE NoPress \/ OtherPress
    BY <2>1 DEF NoPress, OtherPress
  <2>2. CASE SplashLeft \/ BackupDone \/ HomeReceive
    BY <2>2 DEF SplashLeft, BackupDone, HomeReceive
  <2>3. CASE TurnPage
    BY <2>3 DEF TurnPage
  <2>4. CASE Move
    <3>1. PICK m \in Moves : state = m[1] /\ state' = m[3]
      BY <2>4 DEF Move
    <3>2. state \notin Approval /\ state' \notin Approval
      BY <3>1 DEF Moves
    <3> QED BY <2>4, <3>2 DEF Move
  <2>5. CASE HomeLock
    BY <2>5 DEF HomeLock, WhReset
  <2>6. CASE LongPressSigns \/ ConfirmPress \/ ReviewReject
    <3>1. (HidAppApprove \/ HidAppReject) /\ state' = "HOME"
      BY <2>6 DEF LongPressSigns, ConfirmPress, ReviewReject
    <3> QED BY <3>1, DecisionLock
  <2>7. CASE \E pin \in Pins : CheckPin(pin) \/ ChoosePin(pin) \/ RepeatPin(pin)
    <3>1. UNCHANGED pending /\ pc = "btn" /\ state = "PIN"
      BY <2>7 DEF CheckPin, ChoosePin, RepeatPin
    <3>2. state' \in {"PIN", "PIN_FAIL", "ERROR"}
      BY <2>7 DEF CheckPin, ChoosePin, RepeatPin
    <3> QED BY <3>1, <3>2
  <2> QED BY <1>5, <2>1, <2>2, <2>3, <2>4, <2>5, <2>6, <2>7 DEF Button
<1>6. CASE Continue
  <2>1. pending = "IDLE" /\ state = "PIN"
    BY <1>6 DEF Continue, Flash, Unlock, WrongPin, Wiped, Provision, Provisioned, Resume,
                LockInv, LockAgreement, LockedStates
  <2>2. UNCHANGED pending
    BY <1>6 DEF Continue, Flash, Unlock, WrongPin, Wiped, Provision, Provisioned,
                HostUntouched, handlerVars
  <2>3. state' \notin Approval
    BY <1>6, <2>1 DEF Continue, Flash, Unlock, WrongPin, Wiped, Provision, Provisioned, GoTo, uiVars
  <2> QED BY <2>1, <2>2, <2>3
<1>7. CASE PowerCut
  BY <1>7 DEF PowerCut
<1>8. CASE UNCHANGED vars
  BY <1>8 DEF vars, handlerVars
<1> QED BY <1>1, <1>2, <1>3, <1>4, <1>5, <1>6, <1>7, <1>8 DEF Next

LEMMA PendingType == TypeOK => pending \in {"IDLE", "CONFIRM_ADDR", "REVIEW_TX"}
BY DEF TypeOK, HidTypeOK, WhTypeOK

LEMMA PendingInvariant == Spec => [](PendingInv /\ LockInv /\ TypeOK)
<1>1. PendingInv /\ LockInv /\ TypeOK /\ [Next]_vars => (PendingInv /\ LockInv /\ TypeOK)'
  BY PendingStep, LockStep, NextType, PendingType
<1> QED BY <1>1, PendingInit, LockInit, InitType, PTL DEF Spec

\* Whenever a button is looked at, what waits for a decision is on the screen,
\* and nothing waits when no approval screen is up.
THEOREM PendingOnScreenHolds == Spec => []PendingOnScreen
<1>1. PendingInv => PendingOnScreen
  BY DEF PendingInv, Approval, PendingOnScreen
<1> QED BY <1>1, PendingInvariant, PTL

-----------------------------------------------------------------------------
(* A host that waits for its answers signs what was reviewed.              *)

LEMMA PatientInit == Init => PatientInv
BY DEF Init, HidInit, WhInit, PatientInv, AnswerFitsRequest, NothingQueued

\* Address and signature answers are told apart, and from a bare status word.
LEMMA BodiesDiffer ==
    /\ AddressType \cap Signatures = {}
    /\ NoBody \notin AddressType
    /\ NoBody \notin Signatures
<1>1. ASSUME NEW a \in AddressType, a \in Signatures PROVE FALSE
  <2>1. DOMAIN a = {"seed", "index"} /\ DOMAIN a = {"seed", "index", "hash", "v"}
    BY <1>1 DEF AddressType, Signatures
  <2>2. "v" \notin {"seed", "index"}
    OBVIOUS
  <2> QED BY <2>1, <2>2
<1> QED BY <1>1, HidAssumption

\* What a waiting host's request leaves behind.
LEMMA ReceiveApduPatient ==
    ASSUME TypeOK, PatientInv, ~HostMayTimeOut, ReceiveApdu
    PROVE  /\ host = NoRequest
           /\ host' # NoRequest
           /\ pending' # "IDLE" => out'.left = 0
           /\ pending' = "REVIEW_TX" =>
                host'.ins = "SIGN_TX" /\ pSighash' = [head |-> pTx', tail |-> raw'[2]]
           /\ pending' = "CONFIRM_ADDR" =>
                host'.ins = "GET_PUBKEY" /\ host'.index = pAddr'.index
           /\ out'.left > 0 => out'.answer.body \notin Signatures
           /\ out'.left > 0 /\ out'.answer.body \in AddressType =>
                host'.ins = "GET_PUBKEY" /\ host'.index = out'.answer.body.index
<1>1. host = NoRequest
  BY DEF ReceiveApdu, ServeAlways, RefuseLocked, RefuseRequest, GetPubkey, GetPubkeyConfirm,
         SignTxFirst, SignTxMore, HostSends
<1>2. out.left = 0 /\ pending = "IDLE"
  BY <1>1, PendingType DEF PatientInv
<1>3. ASSUME NEW ins, NEW index, HostSends(ins, index)
      PROVE  host' # NoRequest /\ host'.ins = ins /\ host'.index = index
  BY <1>3, HidAssumption DEF HostSends, Request, NoRequest
<1>4. ASSUME NEW sw, Answer(Status(sw))
      PROVE  /\ pending' # "IDLE" => out'.left = 0
             /\ out'.left > 0 => out'.answer.body = NoBody
  BY <1>2, <1>4 DEF Answer, QueueResponse, Status
<1>5. CASE ServeAlways \/ RefuseLocked \/ RefuseRequest
  <2>1. UNCHANGED pending
    BY <1>5 DEF ServeAlways, RefuseLocked, RefuseRequest, handlerVars
  <2>2. \E ins, index : HostSends(ins, index)
    BY <1>5 DEF ServeAlways, RefuseLocked, RefuseRequest
  <2>3. \E sw : Answer(Status(sw))
    BY <1>5 DEF ServeAlways, RefuseLocked, RefuseRequest
  <2> QED BY <1>1, <1>2, <1>3, <1>4, <2>1, <2>2, <2>3, BodiesDiffer
<1>6. ASSUME NEW index \in Indices, GetPubkey(index)
      PROVE  /\ host' # NoRequest /\ pending' = "IDLE"
             /\ host'.ins = "GET_PUBKEY" /\ host'.index = index
             /\ out'.answer.body = Address(gSeed, index)
  BY <1>2, <1>3, <1>6 DEF GetPubkey, Answer, QueueResponse, handlerVars
<1>7. ASSUME NEW index \in Indices, GetPubkeyConfirm(index)
      PROVE  /\ host' # NoRequest /\ pending' = "CONFIRM_ADDR" /\ out'.left = 0
             /\ host'.ins = "GET_PUBKEY" /\ host'.index = index /\ pAddr'.index = index
  BY <1>2, <1>3, <1>7 DEF GetPubkeyConfirm, WhGetPubkeyConfirm, Answer, Address
<1>8. ASSUME NEW buffer, NEW len, Accumulate(buffer, len)
      PROVE  /\ pending' # "CONFIRM_ADDR"
             /\ pending' = "REVIEW_TX" => pSighash' = [head |-> pTx', tail |-> raw'[2]]
  BY <1>2, <1>8 DEF Accumulate
<1>9. CASE \E index \in Indices, chunk \in Chunks : SignTxFirst(index, chunk)
  <2>1. \E buffer, len : Accumulate(buffer, len)
    BY <1>9 DEF SignTxFirst, WhSignTxFirst
  <2>2. HostSends("SIGN_TX", NoIndex) /\ Answer(Status("OK"))
    BY <1>9 DEF SignTxFirst
  <2> QED BY <1>1, <1>3, <1>4, <1>8, <2>1, <2>2, BodiesDiffer
<1>10. CASE \E chunk \in Chunks : SignTxMore(chunk)
  <2>1. (\E buffer, len : Accumulate(buffer, len)) \/ UNCHANGED pending
    BY <1>10 DEF SignTxMore, WhSignTxMore, WhSignTxOverflow
  <2>2. HostSends("SIGN_TX", NoIndex) /\ \E sw : Answer(Status(sw))
    BY <1>10 DEF SignTxMore
  <2> QED BY <1>1, <1>2, <1>3, <1>4, <1>8, <2>1, <2>2, BodiesDiffer
<1>11. ASSUME NEW index \in Indices
       PROVE  Address(gSeed, index) \in AddressType /\ Address(gSeed, index).index = index
  BY DEF Address, AddressType, TypeOK, HidTypeOK, WhTypeOK
<1> QED BY <1>1, <1>5, <1>6, <1>7, <1>9, <1>10, <1>11, BodiesDiffer DEF ReceiveApdu

\* A decision answers the request the host waits for.
LEMMA DecisionPatient ==
    ASSUME TypeOK, PatientInv, pending # "IDLE", HidAppApprove \/ HidAppReject
    PROVE  /\ pending' = "IDLE" /\ UNCHANGED host /\ host # NoRequest
           /\ out'.answer.body \in Signatures => host.ins = "SIGN_TX"
           /\ out'.answer.body \in AddressType =>
                host.ins = "GET_PUBKEY" /\ host.index = out'.answer.body.index
<1>1. pending' = "IDLE" /\ UNCHANGED host /\ host # NoRequest
  BY DEF HidAppApprove, HidAppReject, WhDecided, PatientInv
<1>2. ASSUME NEW sw, QueueResponse(Status(sw)) PROVE out'.answer.body = NoBody
  BY <1>2 DEF QueueResponse, Status
<1>3. CASE HidAppReject
  <2>1. QueueResponse(Status("REJECTED"))
    BY <1>3 DEF HidAppReject
  <2> QED BY <1>1, <1>2, <2>1, BodiesDiffer
<1>4. CASE HidAppApprove /\ pending = "CONFIRM_ADDR"
  <2>1. QueueResponse([sw |-> "OK", body |-> pAddr])
    BY <1>4 DEF HidAppApprove
  <2>2. out'.answer.body = pAddr /\ pAddr \in AddressType
    BY <2>1 DEF QueueResponse, TypeOK, HidTypeOK, WhTypeOK
  <2> QED BY <1>1, <1>4, <2>2, BodiesDiffer DEF PatientInv
<1>5. CASE HidAppApprove /\ pending = "REVIEW_TX"
  <2>1. \/ WalletUnlocked /\ QueueResponse([sw |-> "OK", body |-> Signature(gSeed, pIndex, pSighash, pTx)])
        \/ QueueResponse(Status("BAD_DATA"))
    BY <1>5 DEF HidAppApprove
  <2>2. WalletUnlocked => Signature(gSeed, pIndex, pSighash, pTx) \in Signatures
    BY DEF Signature, Signatures, WalletUnlocked, TypeOK, HidTypeOK, WhTypeOK, SeedOrNone
  <2>3. out'.answer.body \notin AddressType
    BY <1>2, <2>1, <2>2, BodiesDiffer DEF QueueResponse
  <2> QED BY <1>1, <1>5, <2>3 DEF PatientInv
<1> QED BY <1>3, <1>4, <1>5, PendingType

\* Steps that leave the requests, the buffers and the screen alone.
LEMMA PatientUnchanged ==
    ASSUME PatientInv, UNCHANGED <<handlerVars, out, host, state, page, shown>>
    PROVE  PatientInv'
BY DEF PatientInv, AnswerFitsRequest, Screen, ScreenItem, handlerVars

\* Steps that go to a screen no approval is on.
LEMMA PatientLeaves ==
    ASSUME PatientInv, UNCHANGED <<handlerVars, out, host>>, state' \notin Approval
    PROVE  PatientInv'
BY DEF PatientInv, AnswerFitsRequest, Approval, handlerVars

\* Steps that put up a page of the review, or the address.
LEMMA PatientShows ==
    ASSUME PatientInv, UNCHANGED <<handlerVars, out, host>>, NEW pg,
           \/ pending = "REVIEW_TX" /\ GoTo("REVIEW", pg)
           \/ pending = "CONFIRM_ADDR" /\ GoTo("CONFIRM_ADDR", pg)
    PROVE  PatientInv'
BY DEF PatientInv, AnswerFitsRequest, GoTo, Render, Screen, ScreenItem, handlerVars

\* Every button event.
LEMMA PatientButton ==
    ASSUME TypeOK, LockInv, PendingInv, PatientInv, Button
    PROVE  PatientInv'
<1> USE DEF HostUntouched, hidVars
<1>1. CASE NoPress \/ OtherPress
  BY <1>1, PatientUnchanged DEF NoPress, OtherPress, uiVars
<1>2. CASE SplashLeft \/ BackupDone \/ HomeReceive
  <2>1. state' \notin Approval
    BY <1>2 DEF SplashLeft, BackupDone, HomeReceive, GoTo, Approval
  <2> QED BY <1>2, <2>1, PatientLeaves DEF SplashLeft, BackupDone, HomeReceive
<1>3. CASE Move
  <2>1. PICK m \in Moves : state' = m[3]
    BY <1>3 DEF Move, GoTo
  <2>2. state' \notin Approval
    BY <2>1 DEF Moves, Approval
  <2> QED BY <1>3, <2>2, PatientLeaves DEF Move
<1>4. CASE TurnPage
  <2>1. PICK pg : GoTo(state, pg)
    BY <1>4 DEF TurnPage
  <2>2. CASE state = "REVIEW"
    <3>1. pending = "REVIEW_TX"
      BY <2>2 DEF PatientInv
    <3> QED BY <1>4, <2>1, <2>2, <3>1, PatientShows DEF TurnPage
  <2>3. CASE state # "REVIEW"
    <3>1. state' \notin Approval
      BY <1>4, <2>1, <2>3 DEF TurnPage, Paged, GoTo, Approval
    <3> QED BY <1>4, <3>1, PatientLeaves DEF TurnPage
  <2> QED BY <2>2, <2>3
<1>5. CASE HomeLock
  <2>1. /\ pending' = "IDLE" /\ state' = "SPLASH" /\ UNCHANGED <<out, host>>
    BY <1>5 DEF HomeLock, WhReset, GoTo
  <2> QED BY <2>1 DEF PatientInv, AnswerFitsRequest
<1>6. CASE LongPressSigns \/ ConfirmPress \/ ReviewReject
  <2>1. (HidAppApprove \/ HidAppReject) /\ state \in Approval /\ state' = "HOME"
    BY <1>6 DEF LongPressSigns, ConfirmPress, ReviewReject, Approval, GoTo
  <2>2. pending # "IDLE"
    BY <2>1 DEF PendingInv
  <2> QED BY <2>1, <2>2, DecisionPatient DEF PatientInv, AnswerFitsRequest
<1>7. CASE \E pin \in Pins : CheckPin(pin) \/ ChoosePin(pin) \/ RepeatPin(pin)
  <2>1. UNCHANGED <<handlerVars, out, host>>
    BY <1>7 DEF CheckPin, ChoosePin, RepeatPin, EnterPin
  <2>2. state' \notin Approval
    BY <1>7 DEF CheckPin, ChoosePin, RepeatPin, EnterPin, GoTo, Approval, uiVars
  <2> QED BY <2>1, <2>2, PatientLeaves
<1> QED BY <1>1, <1>2, <1>3, <1>4, <1>5, <1>6, <1>7 DEF Button

LEMMA PatientStep ==
    ASSUME TypeOK, LockInv, PendingInv, PatientInv, ~HostMayTimeOut, [Next]_vars
    PROVE  PatientInv'
<1>1. CASE TudReport
  <2>1. ReceiveApdu /\ UNCHANGED <<state, page, shown>> /\ pc' = "tud"
    BY <1>1 DEF TudReport, uiVars
  <2>2. state \notin Approval
    BY <2>1, ReceiveApduPatient DEF PatientInv, Approval
  <2> QED BY <2>1, <2>2, ReceiveApduPatient DEF PatientInv, AnswerFitsRequest, Approval
<1>2. CASE TudDone
  BY <1>2, PatientUnchanged DEF TudDone, hidVars, uiVars
<1>3. CASE HidTask
  <2>1. PICK sent \in 0..out.left : HidAppTask(sent)
    BY <1>3 DEF HidTask
  <2>2. UNCHANGED <<handlerVars, state, page, shown>>
    BY <1>3, <2>1 DEF HidTask, HidAppTask, uiVars
  <2>3. out.left \in 0..2
    BY DEF TypeOK, HidTypeOK
  <2>4. CASE sent = out.left
    <3>1. out'.left = 0 /\ host' = IF out.left > 0 THEN NoRequest ELSE host
      BY <2>1, <2>4 DEF HidAppTask, NothingQueued
    <3> QED BY <2>2, <2>3, <3>1 DEF PatientInv, AnswerFitsRequest, Screen, ScreenItem, handlerVars
  <2>5. CASE sent # out.left
    <3>1. out'.left = out.left - sent /\ out'.answer = out.answer /\ UNCHANGED host
      BY <2>1, <2>3, <2>5 DEF HidAppTask, TypeOK, HidTypeOK
    <3>2. out.left > 0
      BY <2>1, <2>3, <2>5
    <3> QED BY <2>2, <2>3, <3>1, <3>2
            DEF PatientInv, AnswerFitsRequest, Screen, ScreenItem, handlerVars
  <2> QED BY <2>4, <2>5
<1>4. CASE PendingCheck
  <2>1. UNCHANGED <<handlerVars, out, host>>
    BY <1>4 DEF PendingCheck, hidVars
  <2>2. CASE pending # "IDLE" /\ state \notin Approval
    BY <1>4, <2>1, <2>2, PendingType, PatientShows DEF PendingCheck, Approval
  <2>3. CASE ~(pending # "IDLE" /\ state \notin Approval)
    BY <1>4, <2>1, <2>3, PatientUnchanged DEF PendingCheck, Approval, uiVars
  <2> QED BY <2>2, <2>3
<1>5. CASE Button
  BY <1>5, PatientButton
<1>6. CASE Continue
  <2>1. UNCHANGED <<handlerVars, out, host>>
    BY <1>6 DEF Continue, Flash, Unlock, WrongPin, Wiped, Provision, Provisioned,
                HostUntouched, hidVars
  <2>2. state = "PIN"
    BY <1>6 DEF Continue, Flash, Unlock, WrongPin, Wiped, Provision, Provisioned, Resume, LockInv
  <2>3. state' \notin Approval
    BY <1>6, <2>2 DEF Continue, Flash, Unlock, WrongPin, Wiped, Provision, Provisioned, GoTo,
                      uiVars, Approval
  <2> QED BY <2>1, <2>3, PatientLeaves
<1>7. CASE PowerCut
  BY <1>7 DEF PowerCut, PatientInv, AnswerFitsRequest, NothingQueued
<1>8. CASE UNCHANGED vars
  BY <1>8, PatientUnchanged DEF vars, hidVars
<1> QED BY <1>1, <1>2, <1>3, <1>4, <1>5, <1>6, <1>7, <1>8 DEF Next

PatientAll == TypeOK /\ LockInv /\ PendingInv /\ PatientInv

LEMMA PatientInvariant ==
    ASSUME ~HostMayTimeOut
    PROVE  Spec => []PatientAll
<1>1. Init => PatientAll
  BY InitType, LockInit, PendingInit, PatientInit DEF PatientAll
<1>2. PatientAll /\ [Next]_vars => PatientAll'
  BY NextType, LockStep, PendingStep, PendingType, PatientStep DEF PatientAll
<1> QED BY <1>1, <1>2, PTL DEF Spec

\* With a host that waits for its answers, what CENTER approves is what the
\* display shows, whatever the transactions, the chunks they come in and the
\* moment power fails.
THEOREM SignedAsReviewedHolds ==
    ASSUME ~HostMayTimeOut
    PROVE  Spec => []SignedAsReviewed
<1>1. PatientAll => SignedAsReviewed
  BY DEF PatientAll, PatientInv, SignedAsReviewed, Screen, ScreenItem
<1> QED BY <1>1, PatientInvariant, PTL

\* Under the same assumption an answer on its way belongs to the request the
\* host waits for.
THEOREM AnswerFitsRequestHolds ==
    ASSUME ~HostMayTimeOut
    PROVE  Spec => []AnswerFitsRequest
<1>1. PatientAll => AnswerFitsRequest
  BY DEF PatientAll, PatientInv
<1> QED BY <1>1, PatientInvariant, PTL

\* Under the same assumption an answer is never cut off by another one: while
\* frames are queued no request arrives and nothing is pending.
THEOREM AnswersNotCutHolds ==
    ASSUME ~HostMayTimeOut
    PROVE  Spec => AnswersNotCut
<1> DEFINE Kept == \/ out' = NothingQueued
                   \/ out'.answer = out.answer /\ out'.left <= out.left
<1>1. PatientAll /\ [Next]_vars => [out.left > 0 => Kept]_vars
  <2> SUFFICES ASSUME PatientAll, [Next]_vars, out.left > 0 PROVE Kept
    OBVIOUS
  <2>1. /\ host # NoRequest /\ pending = "IDLE" /\ state \notin Approval
        /\ out.left \in 0..2 /\ out \in [answer : Answers, left : 0..2]
    BY PendingType DEF PatientAll, PatientInv, PendingInv, TypeOK, HidTypeOK
  <2>2. CASE UNCHANGED out
    BY <2>1, <2>2
  <2>3. CASE HidTask
    <3>1. PICK sent \in 0..out.left : HidAppTask(sent)
      BY <2>3 DEF HidTask
    <3> QED BY <2>1, <3>1 DEF HidAppTask
  <2>4. CASE PowerCut
    BY <2>4 DEF PowerCut
  <2>5. ~ReceiveApdu
    BY <2>1, ReceiveApduPatient DEF PatientAll
  <2>6. ~(LongPressSigns \/ ConfirmPress \/ ReviewReject)
    BY <2>1 DEF LongPressSigns, ConfirmPress, ReviewReject, Approval
  <2>7. CASE TudReport
    BY <2>5, <2>7 DEF TudReport
  <2>8. CASE TudDone \/ PendingCheck \/ Continue
    <3>1. UNCHANGED out
      BY <2>8 DEF TudDone, PendingCheck, Continue, Flash, Unlock, WrongPin, Wiped, Provision,
                  Provisioned, HostUntouched, hidVars
    <3> QED BY <2>2, <3>1
  <2>9. CASE Button
    <3>1. UNCHANGED out
      BY <2>6, <2>9 DEF Button, NoPress, SplashLeft, Move, TurnPage, BackupDone, HomeReceive,
                        HomeLock, OtherPress, CheckPin, ChoosePin, RepeatPin, EnterPin,
                        HostUntouched, hidVars
    <3> QED BY <2>2, <3>1
  <2>10. CASE UNCHANGED vars
    BY <2>2, <2>10 DEF vars, hidVars
  <2> QED BY <2>3, <2>4, <2>7, <2>8, <2>9, <2>10 DEF Next
<1> QED BY <1>1, PatientInvariant, PTL DEF Spec, AnswersNotCut

-----------------------------------------------------------------------------
(* Noir implements Signer.                                                 *)

(* An answer of which nothing is left to send is gone, and one that is on  *)
(* its way says something.                                                 *)
ReplyInv ==
    /\ out.left = 0 => out = NothingQueued
    /\ out.left > 0 => out.answer.sw # "NONE"

\* What is queued says something.
LEMMA QueuedReply ==
    ASSUME NEW answer, answer.sw # "NONE", QueueResponse(answer)
    PROVE  ReplyInv'
BY DEF QueueResponse, FrameCount, ReplyInv

LEMMA ReplyStep ==
    ASSUME TypeOK, ReplyInv, [Next]_vars
    PROVE  ReplyInv'
<1>1. CASE UNCHANGED out
  BY <1>1 DEF ReplyInv, NothingQueued, Status
<1>2. ASSUME NEW answer, answer.sw # "NONE", Answer(answer)
      PROVE  ReplyInv'
  BY <1>1, <1>2, QueuedReply DEF Answer
<1>3. CASE TudReport
  <2>1. \E answer : answer.sw # "NONE" /\ Answer(answer)
    <3>1. \A sw \in {"OK", "REFUSED", "DEVICE_LOCKED", "BAD_DATA", "LOCKED"} : Status(sw).sw # "NONE"
      BY DEF Status
    <3> QED BY <1>3, <3>1
            DEF TudReport, ReceiveApdu, ServeAlways, RefuseLocked, RefuseRequest, GetPubkey,
                GetPubkeyConfirm, SignTxFirst, SignTxMore
  <2> QED BY <1>2, <2>1
<1>4. CASE HidTask
  <2>1. PICK sent \in 0..out.left : HidAppTask(sent)
    BY <1>4 DEF HidTask
  <2>2. out \in [answer : Answers, left : 0..2]
    BY DEF TypeOK, HidTypeOK
  <2>3. CASE sent = out.left
    BY <2>1, <2>3 DEF HidAppTask, NothingQueued, Status, ReplyInv
  <2>4. CASE sent # out.left
    <3>1. out'.left = out.left - sent /\ out'.answer = out.answer
      BY <2>1, <2>2, <2>4 DEF HidAppTask
    <3> QED BY <2>1, <2>2, <2>4, <3>1 DEF ReplyInv
  <2> QED BY <2>3, <2>4
<1>5. CASE LongPressSigns \/ ConfirmPress \/ ReviewReject
  <2>1. HidAppApprove \/ HidAppReject
    BY <1>5 DEF LongPressSigns, ConfirmPress, ReviewReject
  <2>2. UNCHANGED out \/ \E answer : answer.sw # "NONE" /\ QueueResponse(answer)
    BY <2>1, PendingType DEF HidAppApprove, HidAppReject, Status
  <2> QED BY <1>1, <2>2, QueuedReply
<1>6. CASE PowerCut
  BY <1>6 DEF PowerCut, NothingQueued, Status, ReplyInv
<1>7. CASE TudDone \/ PendingCheck \/ Continue \/ UNCHANGED vars
  <2>1. UNCHANGED out
    BY <1>7 DEF TudDone, PendingCheck, Continue, Flash, Unlock, WrongPin, Wiped, Provision,
                Provisioned, HostUntouched, hidVars, vars
  <2> QED BY <1>1, <2>1
<1>8. CASE Button
  <2>1. CASE ~(LongPressSigns \/ ConfirmPress \/ ReviewReject)
    <3>1. UNCHANGED out
      BY <1>8, <2>1 DEF Button, NoPress, SplashLeft, Move, TurnPage, BackupDone, HomeReceive,
                        HomeLock, OtherPress, CheckPin, ChoosePin, RepeatPin, EnterPin,
                        HostUntouched, hidVars
    <3> QED BY <1>1, <3>1
  <2> QED BY <1>5, <2>1
<1> QED BY <1>3, <1>4, <1>6, <1>7, <1>8 DEF Next

\* What Signer sees of a step.
SignerStep == [Promise!Next]_(Promise!signerVars)

\* Steps that leave requests, answers and the screen of an approval alone.
LEMMA SignerStutter ==
    ASSUME UNCHANGED <<handlerVars, out, host, gSeed>>, UNCHANGED Seen
    PROVE  SignerStep
<1>1. UNCHANGED Asked
  BY DEF Asked, handlerVars
<1> QED BY <1>1 DEF SignerStep, Promise!signerVars, handlerVars

LEMMA SeenNothing == state \notin Approval => Seen = <<>>
BY DEF Seen, Approval

\* Steps between screens no approval is on.
LEMMA SignerElsewhere ==
    ASSUME UNCHANGED <<handlerVars, out, host, gSeed>>,
           state \notin Approval, state' \notin Approval
    PROVE  SignerStep
<1>1. Seen = <<>> /\ Seen' = <<>>
  BY DEF Seen, Approval
<1> QED BY <1>1, SignerStutter

\* A request that is answered with a status word.
LEMMA SignerAnswersWord ==
    ASSUME NEW ins, NEW sw \in {"OK", "REFUSED", "BAD_DATA", "LOCKED", "DEVICE_LOCKED"},
           host = NoRequest, HostSends(ins, NoIndex),
           pending = "IDLE", pending' = "IDLE", Answer(Status(sw)),
           UNCHANGED <<gSeed, Seen>>,
           gSeed = NoSeed /\ ins \notin {"GET_CONFIG", "MALFORMED"} => sw = "DEVICE_LOCKED",
           pIndex' = pIndex \/ (ins = "SIGN_TX" /\ gSeed # NoSeed /\ pIndex' \in Indices)
    PROVE  SignerStep
<1>1. Promise!Ask(ins, NoIndex)
  BY DEF HostSends, Promise!Ask, Promise!NoRequest, NoRequest, Request
<1>2. out'.answer = Promise!Word(sw)
  BY DEF Answer, QueueResponse, Status, Promise!Word
<1>3. Asked = <<>> /\ Asked' = <<>>
  BY DEF Asked
<1>4. Promise!AnswerWord(ins, NoIndex, sw)
  BY <1>1, <1>2, <1>3 DEF Promise!AnswerWord, Promise!Closed
<1>5. ins \in Requests
  BY DEF HostSends
<1> QED BY <1>4, <1>5 DEF SignerStep, Promise!Next

\* A chunk that completes a transaction asks the user, another one is answered.
LEMMA SignerAccumulates ==
    ASSUME TypeOK, NEW buffer, NEW length, Accumulate(buffer, length),
           host = NoRequest, HostSends("SIGN_TX", NoIndex), Answer(Status("OK")),
           pending = "IDLE", gSeed # NoSeed, UNCHANGED <<gSeed, Seen>>, pIndex' \in Indices
    PROVE  SignerStep
<1>1. CASE Parses(buffer, length)
  <2>1. /\ pending' = "REVIEW_TX" /\ pTx' = buffer[1] /\ raw' = buffer
        /\ buffer[1] \in Heads /\ buffer[2] \in Tails /\ UNCHANGED out
    BY <1>1 DEF Accumulate, Parses, Answer
  <2>2. Asked' = <<buffer[1], buffer[2]>>
    BY <2>1 DEF Asked
  <2>3. Promise!Ask("SIGN_TX", NoIndex)
    BY DEF HostSends, Promise!Ask, Promise!NoRequest, NoRequest, Request
  <2>4. Promise!AskSignature(buffer[1], buffer[2])
    BY <2>1, <2>2, <2>3 DEF Promise!AskSignature, Promise!Closed
  <2> QED BY <2>1, <2>4 DEF SignerStep, Promise!Next
<1>2. CASE ~Parses(buffer, length)
  <2>1. pending' = "IDLE"
    BY <1>2 DEF Accumulate
  <2> QED BY <2>1, SignerAnswersWord
<1> QED BY <1>1, <1>2

\* A request.
LEMMA SignerReceives ==
    ASSUME PatientAll, ~HostMayTimeOut, TudReport
    PROVE  SignerStep
<1>1. ReceiveApdu /\ UNCHANGED state
  BY DEF TudReport, uiVars
<1>2. host = NoRequest /\ pending = "IDLE" /\ UNCHANGED <<locked, gSeed>>
  BY <1>1, ReceiveApduPatient, ReceiveApduLock, PendingType DEF PatientAll, PatientInv
<1>3. UNCHANGED Seen
  <2>1. state \notin Approval
    BY <1>2 DEF PatientAll, PendingInv
  <2> QED BY <1>1, <2>1 DEF Seen, Approval
<1>4. (locked <=> gSeed = NoSeed) /\ pIndex \in Indices
  BY DEF PatientAll, LockInv, LockAgreement, TypeOK, HidTypeOK, WhTypeOK
<1>5. CASE ServeAlways \/ RefuseLocked \/ RefuseRequest
  <2>1. UNCHANGED <<pending, pIndex>>
    BY <1>5 DEF ServeAlways, RefuseLocked, RefuseRequest, handlerVars
  <2>2. PICK ins \in {"GET_CONFIG", "MALFORMED", "UNKNOWN", "GET_PUBKEY", "SIGN_TX"},
             sw \in {"OK", "REFUSED", "BAD_DATA", "LOCKED", "DEVICE_LOCKED"} :
          /\ HostSends(ins, NoIndex) /\ Answer(Status(sw))
          /\ locked /\ ins \notin {"GET_CONFIG", "MALFORMED"} => sw = "DEVICE_LOCKED"
    <3>1. CASE ServeAlways
      BY <3>1 DEF ServeAlways
    <3>2. CASE RefuseLocked
      BY <3>2 DEF RefuseLocked
    <3>3. CASE RefuseRequest
      BY <3>3 DEF RefuseRequest
    <3> QED BY <1>5, <3>1, <3>2, <3>3
  <2> QED BY <1>2, <1>3, <1>4, <2>1, <2>2, SignerAnswersWord
<1>6. ASSUME NEW index \in Indices, GetPubkey(index)
      PROVE  SignerStep
  <2>1. /\ UNCHANGED handlerVars /\ HostSends("GET_PUBKEY", index) /\ gSeed # NoSeed
        /\ out'.answer = [sw |-> "OK", body |-> Address(gSeed, index)]
    BY <1>2, <1>6 DEF GetPubkey, Answer, QueueResponse, WalletUnlocked, handlerVars
  <2>2. UNCHANGED <<Asked, pIndex>>
    BY <2>1 DEF Asked, handlerVars
  <2>3. Promise!AnswerAddress(index)
    BY <1>2, <1>3, <2>1, <2>2
       DEF Promise!AnswerAddress, Promise!Ask, Promise!Closed, Promise!NoRequest, Promise!Body,
           Promise!Address, Address, HostSends, NoRequest, Request
  <2> QED BY <2>3 DEF SignerStep, Promise!Next
<1>7. ASSUME NEW index \in Indices, GetPubkeyConfirm(index)
      PROVE  SignerStep
  <2>1. /\ HostSends("GET_PUBKEY", index) /\ gSeed # NoSeed /\ UNCHANGED out
        /\ pIndex' = index /\ pending' = "CONFIRM_ADDR" /\ pAddr' = Address(gSeed, index)
    BY <1>7 DEF GetPubkeyConfirm, WhGetPubkeyConfirm, Answer, WalletUnlocked
  <2>2. Asked' = <<Address(gSeed, index)>>
    BY <2>1 DEF Asked
  <2>3. Promise!AskAddress(index)
    BY <1>2, <1>3, <2>1, <2>2
       DEF Promise!AskAddress, Promise!Ask, Promise!Closed, Promise!NoRequest,
           Promise!Address, Address, HostSends, NoRequest, Request
  <2> QED BY <2>3 DEF SignerStep, Promise!Next
<1>8. ASSUME NEW index \in Indices, NEW chunk \in Chunks, SignTxFirst(index, chunk)
      PROVE  SignerStep
  <2>1. /\ HostSends("SIGN_TX", NoIndex) /\ Answer(Status("OK")) /\ ~locked
        /\ Accumulate(Copied(0, chunk), Len(chunk)) /\ pIndex' \in Indices
    BY <1>8 DEF SignTxFirst, WhSignTxFirst
  <2> QED BY <1>2, <1>3, <1>4, <2>1, SignerAccumulates DEF PatientAll
<1>9. ASSUME NEW chunk \in Chunks, SignTxMore(chunk)
      PROVE  SignerStep
  <2>1. HostSends("SIGN_TX", NoIndex) /\ ~locked
    BY <1>9 DEF SignTxMore
  <2>2. CASE WhSignTxMore(chunk) /\ Answer(Status("OK"))
    <3>1. Accumulate(Copied(rawLen, chunk), rawLen + Len(chunk)) /\ pIndex' \in Indices
      BY <1>4, <2>2 DEF WhSignTxMore
    <3> QED BY <1>2, <1>3, <1>4, <2>1, <2>2, <3>1, SignerAccumulates DEF PatientAll
  <2>3. CASE WhSignTxOverflow(chunk) /\ Answer(Status("BAD_DATA"))
    <3>1. UNCHANGED <<pending, pIndex>>
      BY <2>3 DEF WhSignTxOverflow
    <3> QED BY <1>2, <1>3, <1>4, <2>1, <2>3, <3>1, SignerAnswersWord
  <2> QED BY <1>9, <2>2, <2>3 DEF SignTxMore
<1> QED BY <1>1, <1>5, <1>6, <1>7, <1>8, <1>9 DEF ReceiveApdu

\* Frames that are sent.
LEMMA SignerSends ==
    ASSUME PatientAll, ReplyInv, HidTask
    PROVE  SignerStep
<1>1. PICK sent \in 0..out.left : HidAppTask(sent)
  BY DEF HidTask
<1>2. UNCHANGED <<handlerVars, gSeed, state, shown>>
  BY <1>1 DEF HidTask, HidAppTask, uiVars
<1>3. UNCHANGED <<Asked, Seen, pIndex>>
  BY <1>2 DEF Asked, Seen, handlerVars
<1>4. out \in [answer : Answers, left : 0..2]
  BY DEF PatientAll, TypeOK, HidTypeOK
<1>5. CASE sent = out.left /\ out.left > 0
  <2>1. out'.answer = Promise!NoReply /\ host' = Promise!NoRequest /\ out.answer # Promise!NoReply
    BY <1>1, <1>5 DEF HidAppTask, NothingQueued, Status, NoRequest, Request, ReplyInv,
                      Promise!NoReply, Promise!Word, Promise!NoRequest
  <2>2. Promise!Deliver
    BY <1>2, <1>3, <2>1 DEF Promise!Deliver
  <2> QED BY <2>2 DEF SignerStep, Promise!Next
<1>6. CASE ~(sent = out.left /\ out.left > 0)
  <2>1. UNCHANGED host /\ out'.answer = out.answer
    BY <1>1, <1>4, <1>6 DEF HidAppTask, ReplyInv
  <2> QED BY <1>2, <1>3, <2>1 DEF SignerStep, Promise!signerVars
<1> QED BY <1>5, <1>6

\* A page of the review, or the address, that is put up is a part of what is asked.
LEMMA SignerShows ==
    ASSUME UNCHANGED <<handlerVars, out, host, gSeed>>, NEW pg,
           \/ pending = "REVIEW_TX" /\ GoTo("REVIEW", pg)
           \/ pending = "CONFIRM_ADDR" /\ GoTo("CONFIRM_ADDR", pg)
    PROVE  SignerStep
<1>1. UNCHANGED Asked
  BY DEF Asked, handlerVars
<1>2. \E i \in DOMAIN Asked : i \in 1..2 /\ Seen' = <<Asked[i]>>
  <2>1. CASE pending = "CONFIRM_ADDR"
    <3>1. Asked = <<pAddr>> /\ Seen' = <<pAddr>>
      BY <2>1 DEF Asked, Seen, GoTo, Render, Screen, ScreenItem
    <3> QED BY <3>1
  <2>2. CASE pending = "REVIEW_TX"
    <3>1. Asked = <<pTx, raw[2]>> /\ (Seen' = <<pTx>> \/ Seen' = <<raw[2]>>)
      BY <2>2 DEF Asked, Seen, GoTo, Render, Screen, ScreenItem
    <3>2. DOMAIN Asked = 1..2 /\ Asked[1] = pTx /\ Asked[2] = raw[2]
      BY <3>1
    <3> QED BY <3>1, <3>2
  <2> QED BY <2>1, <2>2
<1>3. PICK i \in 1..2 : Promise!Show(i)
  BY <1>1, <1>2 DEF Promise!Show, handlerVars
<1> QED BY <1>3 DEF SignerStep, Promise!Next

\* A decision is on what the display shows a part of.
LEMMA SignerDecides ==
    ASSUME PatientAll, state \in Approval, state' = "HOME", HidAppApprove \/ HidAppReject
    PROVE  Promise!Decide /\ pending # "IDLE"
<1>1. pending # "IDLE"
  BY DEF PatientAll, PendingInv
<1>2. Asked' = <<>> /\ Seen' = <<>> /\ UNCHANGED <<gSeed, host, pIndex>>
  BY DEF HidAppApprove, HidAppReject, WhDecided, Asked, Seen
<1>3. \E i \in DOMAIN Asked : Seen = <<Asked[i]>>
  <2>1. CASE state = "REVIEW"
    <3>1. Asked = <<pTx, raw[2]>> /\ (Seen = <<pTx>> \/ Seen = <<raw[2]>>)
      BY <2>1 DEF PatientAll, PatientInv, Asked, Seen, Screen, ScreenItem
    <3>2. DOMAIN Asked = 1..2 /\ Asked[1] = pTx /\ Asked[2] = raw[2]
      BY <3>1
    <3> QED BY <3>1, <3>2
  <2>2. CASE state = "CONFIRM_ADDR"
    <3>1. Asked = <<pAddr>> /\ Seen = <<pAddr>>
      BY <2>2 DEF PatientAll, PatientInv, Asked, Seen, Screen, ScreenItem
    <3> QED BY <3>1
  <2> QED BY <2>1, <2>2 DEF Approval
<1> QED BY <1>1, <1>2, <1>3 DEF Promise!Decide

LEMMA SignerRejects ==
    ASSUME PatientAll, state \in Approval, state' = "HOME", HidAppReject
    PROVE  SignerStep
<1>1. out'.answer = Promise!Word("REJECTED")
  BY SignerDecides DEF HidAppReject, QueueResponse, Status, Promise!Word
<1>2. Promise!Reject
  BY <1>1, SignerDecides DEF Promise!Reject
<1> QED BY <1>2 DEF SignerStep, Promise!Next

LEMMA SignerApproves ==
    ASSUME PatientAll, state \in Approval, state' = "HOME", HidAppApprove
    PROVE  SignerStep
<1>1. Promise!Decide
  BY SignerDecides
<1>2. CASE state = "CONFIRM_ADDR"
  <2>1. pending = "CONFIRM_ADDR" /\ Asked = <<pAddr>>
    BY <1>2 DEF PatientAll, PatientInv, Asked
  <2>2. out'.answer = Promise!Body(pAddr)
    BY <2>1 DEF HidAppApprove, QueueResponse, Promise!Body
  <2>3. Promise!ApproveAddress
    BY <1>1, <2>1, <2>2 DEF Promise!ApproveAddress
  <2> QED BY <2>3 DEF SignerStep, Promise!Next
<1>3. CASE state = "REVIEW"
  <2>1. pending = "REVIEW_TX" /\ Asked = <<pTx, raw[2]>> /\ pSighash = [head |-> pTx, tail |-> raw[2]]
    BY <1>3 DEF PatientAll, PatientInv, Asked
  <2>2. Len(Asked) = 2 /\ Asked[1] = pTx /\ Asked[2] = raw[2]
    BY <2>1
  <2>3. \/ gSeed # NoSeed /\ out'.answer = [sw |-> "OK", body |-> Signature(gSeed, pIndex, pSighash, pTx)]
        \/ out'.answer = Status("BAD_DATA")
    BY <2>1 DEF HidAppApprove, QueueResponse, WalletUnlocked
  <2>4. Promise!ApproveSignature
    BY <1>1, <2>1, <2>2, <2>3
       DEF Promise!ApproveSignature, Promise!Closed, Promise!Body, Promise!Word, Promise!Signature,
           Signature, Status
  <2> QED BY <2>4 DEF SignerStep, Promise!Next
<1> QED BY <1>2, <1>3 DEF Approval

\* Every button event.
LEMMA SignerButton ==
    ASSUME PatientAll, Button
    PROVE  SignerStep
<1> USE DEF HostUntouched, hidVars
<1>1. CASE NoPress \/ OtherPress
  <2>1. UNCHANGED Seen
    BY <1>1 DEF NoPress, OtherPress, uiVars, Seen
  <2> QED BY <1>1, <2>1, SignerStutter DEF NoPress, OtherPress
<1>2. CASE SplashLeft \/ BackupDone \/ HomeReceive
  <2>1. state \notin Approval /\ state' \notin Approval
    BY <1>2 DEF SplashLeft, BackupDone, HomeReceive, GoTo, Approval
  <2> QED BY <1>2, <2>1, SignerElsewhere DEF SplashLeft, BackupDone, HomeReceive
<1>3. CASE Move
  <2>1. PICK m \in Moves : state = m[1] /\ state' = m[3]
    BY <1>3 DEF Move, GoTo
  <2>2. state \notin Approval /\ state' \notin Approval
    BY <2>1 DEF Moves, Approval
  <2> QED BY <1>3, <2>2, SignerElsewhere DEF Move
<1>4. CASE TurnPage
  <2>1. PICK pg : GoTo(state, pg)
    BY <1>4 DEF TurnPage
  <2>2. CASE state = "REVIEW"
    BY <1>4, <2>1, <2>2, SignerShows DEF TurnPage, PatientAll, PatientInv
  <2>3. CASE state # "REVIEW"
    <3>1. state \notin Approval /\ state' \notin Approval
      BY <1>4, <2>1, <2>3 DEF TurnPage, Paged, GoTo, Approval
    <3> QED BY <1>4, <3>1, SignerElsewhere DEF TurnPage
  <2> QED BY <2>2, <2>3
<1>5. CASE HomeLock
  <2>1. state = "HOME" /\ pc = "btn" /\ state' = "SPLASH" /\ gSeed' = NoSeed
        /\ pending' = "IDLE" /\ UNCHANGED <<pIndex, out, host>>
    BY <1>5 DEF HomeLock, Press, GoTo, WalletStateClear, WhReset
  <2>2. pending = "IDLE" /\ gSeed # NoSeed
    BY <2>1 DEF PatientAll, PendingInv, Approval, LockInv, LockAgreement, LockedStates
  <2>3. Asked = <<>> /\ Asked' = <<>> /\ UNCHANGED Seen
    BY <2>1, <2>2 DEF Asked, Seen
  <2>4. Promise!Close
    BY <2>1, <2>2, <2>3 DEF Promise!Close, Promise!Closed
  <2> QED BY <2>4 DEF SignerStep, Promise!Next
<1>6. CASE LongPressSigns \/ ConfirmPress \/ ReviewReject
  <2>1. state \in Approval /\ state' = "HOME" /\ (HidAppApprove \/ HidAppReject)
    BY <1>6 DEF LongPressSigns, ConfirmPress, ReviewReject, Approval, GoTo
  <2> QED BY <2>1, SignerApproves, SignerRejects
<1>7. CASE \E pin \in Pins : CheckPin(pin) \/ ChoosePin(pin) \/ RepeatPin(pin)
  <2>1. UNCHANGED <<handlerVars, out, host, gSeed>>
    BY <1>7 DEF CheckPin, ChoosePin, RepeatPin, EnterPin
  <2>2. state \notin Approval /\ state' \notin Approval
    BY <1>7 DEF CheckPin, ChoosePin, RepeatPin, EnterPin, GoTo, Approval, uiVars
  <2> QED BY <2>1, <2>2, SignerElsewhere
<1> QED BY <1>1, <1>2, <1>3, <1>4, <1>5, <1>6, <1>7 DEF Button

\* A handler that goes on: it may open the wallet.
LEMMA SignerContinues ==
    ASSUME PatientAll, Continue
    PROVE  SignerStep
<1>1. state = "PIN" /\ gSeed = NoSeed
  BY DEF Continue, Flash, Unlock, WrongPin, Wiped, Provision, Provisioned, Resume,
         PatientAll, LockInv, LockAgreement, LockedStates
<1>2. state \notin Approval /\ state' \notin Approval /\ UNCHANGED <<handlerVars, out, host>>
  BY <1>1 DEF Continue, Flash, Unlock, WrongPin, Wiped, Provision, Provisioned, GoTo,
              uiVars, HostUntouched, hidVars, Approval
<1>3. UNCHANGED gSeed \/ gSeed' \in Seeds
  <2>1. CASE Unlock
    BY <2>1 DEF Unlock, WalletStateSetSeed, SeedExists, PatientAll, TypeOK, StorageTypeOK, SeedOrNone
  <2>2. CASE Provisioned
    BY <2>2 DEF Provisioned, Resume, WalletStateSetSeed, PatientAll, LockInv, TypeOK, SeedOrNone
  <2>3. CASE Flash \/ WrongPin \/ Wiped \/ Provision
    BY <2>3 DEF Flash, WrongPin, Wiped, Provision, HostUntouched
  <2> QED BY <2>1, <2>2, <2>3 DEF Continue
<1>4. CASE UNCHANGED gSeed
  BY <1>2, <1>4, SignerElsewhere
<1>5. CASE gSeed' \in Seeds
  <2>1. UNCHANGED <<Asked, Seen, pIndex>>
    BY <1>2 DEF Asked, Seen, Approval, handlerVars
  <2>2. Promise!Open(gSeed')
    BY <1>1, <1>2, <2>1 DEF Promise!Open, Promise!Closed
  <2> QED BY <1>5, <2>2 DEF SignerStep, Promise!Next
<1> QED BY <1>3, <1>4, <1>5

LEMMA SignerStepHolds ==
    ASSUME PatientAll, ReplyInv, ~HostMayTimeOut, [Next]_vars
    PROVE  SignerStep
<1>1. CASE TudDone
  BY <1>1, SignerStutter DEF TudDone, hidVars, uiVars, Seen
<1>2. CASE PendingCheck
  <2>1. UNCHANGED <<handlerVars, out, host, gSeed>>
    BY <1>2 DEF PendingCheck, hidVars
  <2>2. CASE pending # "IDLE" /\ state \notin Approval
    BY <1>2, <2>1, <2>2, PendingType, SignerShows DEF PendingCheck, Approval, PatientAll
  <2>3. CASE ~(pending # "IDLE" /\ state \notin Approval)
    <3>1. UNCHANGED Seen
      BY <1>2, <2>3 DEF PendingCheck, Approval, uiVars, Seen
    <3> QED BY <2>1, <3>1, SignerStutter
  <2> QED BY <2>2, <2>3
<1>3. CASE PowerCut
  <2>1. Promise!PowerLoss
    BY <1>3 DEF PowerCut, Promise!PowerLoss, Promise!NoRequest, Promise!NoReply, Promise!Word,
                NoRequest, Request, NothingQueued, Status, Asked, Seen
  <2> QED BY <2>1 DEF SignerStep, Promise!Next
<1>4. CASE UNCHANGED vars
  BY <1>4, SignerStutter DEF vars, hidVars, Seen
<1> QED BY <1>1, <1>2, <1>3, <1>4, SignerReceives, SignerSends, SignerButton, SignerContinues DEF Next

LEMMA SignerInit == Init => Promise!Init /\ ReplyInv
BY DEF Init, HidInit, WhInit, Promise!Init, Promise!Closed, Promise!NoRequest, Promise!NoReply,
       Promise!Word, NoRequest, Request, NothingQueued, Status, Asked, Seen, ReplyInv

\* With a host that waits for its answers, loop, buffers, frames and screens do
\* no more than Signer: every request is answered once, by what the user
\* decided with a part of it in view, and a signature covers all that was asked.
THEOREM SignerImplemented ==
    ASSUME ~HostMayTimeOut
    PROVE  Spec => SignerSpec
<1>1. PatientAll /\ ReplyInv /\ [Next]_vars => ReplyInv'
  BY ReplyStep DEF PatientAll
<1>2. PatientAll /\ ReplyInv /\ [Next]_vars => [Promise!Next]_(Promise!signerVars)
  BY SignerStepHolds DEF SignerStep
<1> QED BY <1>1, <1>2, SignerInit, PatientInvariant, PTL DEF Spec, SignerSpec, Promise!Spec
=============================================================================

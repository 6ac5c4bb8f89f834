------------------------------- MODULE HidApp -------------------------------
(***************************************************************************)
(* src/src/usb/hid_callbacks.c and src/src/protocol/apdu.c: a complete     *)
(* APDU is dispatched when its last report arrives; its answer is queued   *)
(* as HID frames unless an approval is pending, and the frames leave when  *)
(* the host polls for them.                                                *)
(*                                                                         *)
(* The host is external.  It waits for the answer to its request; one that *)
(* times out (HostMayTimeOut) sends another request while it waits.        *)
(***************************************************************************)
EXTENDS WalletHandlers

CONSTANTS
    Requests,       \* the instructions the host uses
    HostMayTimeOut, \* TRUE: the host may send again before it has an answer
    NoBody          \* an answer that is only a status word

ASSUME HidAssumption ==
    /\ Requests \subseteq {"GET_CONFIG", "MALFORMED", "UNKNOWN", "GET_PUBKEY", "SIGN_TX"}
    /\ HostMayTimeOut \in BOOLEAN
    /\ NoBody \notin AddressType \cup Signatures

VARIABLES
    locked,     \* the APDU lock gate of apdu.c
    out,        \* the queued answer and the frames of it not yet sent
    host        \* the request the host waits for

hidVars == <<locked, out, host>>

StatusWords == {"NONE", "OK", "REJECTED", "BAD_DATA", "LOCKED", "DEVICE_LOCKED", "REFUSED"}

Answers == [sw : StatusWords, body : {NoBody} \cup AddressType \cup Signatures]

Status(sw) == [sw |-> sw, body |-> NoBody]

\* hid_frame_tx: 57 bytes fit the first frame; a status word or the
\* configuration takes one frame, an address or a signature two.
FrameCount(answer) == IF answer.body = NoBody THEN 1 ELSE 2

NothingQueued == [answer |-> Status("NONE"), left |-> 0]

\* queue_response: whatever was still queued is dropped.
QueueResponse(answer) == out' = [answer |-> answer, left |-> FrameCount(answer)]

\* The requests the host can be waiting for.
Request(ins, index) == [ins |-> ins, index |-> index]
NoRequest == Request("NONE", NoIndex)

-----------------------------------------------------------------------------
(* tud_hid_set_report_cb, on the last report of an APDU.                   *)

HostSends(ins, index) ==
    /\ ins \in Requests
    /\ HostMayTimeOut \/ host = NoRequest
    /\ host' = Request(ins, index)

\* Fault: the answer is queued although the user has to decide first.
AnswerAlways(answer) == QueueResponse(answer)

\* The answer of a handler is queued only when it left no approval pending.
Answer(answer) == IF pending' = "IDLE" THEN QueueResponse(answer) ELSE UNCHANGED out

\* Served whether locked or not: GET_APP_CONFIGURATION and the BOLOS
\* commands; malformed APDUs are refused before the lock gate.
ServeAlways ==
    /\ \E ins \in {"GET_CONFIG", "MALFORMED"} :
         /\ HostSends(ins, NoIndex)
         /\ UNCHANGED handlerVars
         /\ Answer(Status(IF ins = "GET_CONFIG" THEN "OK" ELSE "REFUSED"))
    /\ UNCHANGED <<locked, gSeed>>

RefuseLocked ==
    /\ locked
    /\ \E ins \in {"UNKNOWN", "GET_PUBKEY", "SIGN_TX"} : HostSends(ins, NoIndex)
    /\ UNCHANGED handlerVars
    /\ Answer(Status("DEVICE_LOCKED"))
    /\ UNCHANGED <<locked, gSeed>>

\* An INS without a handler, and the early returns of the handlers: a path
\* that is not m/44'/60'/0'/0/index, a P1 that is not 0x00 or 0x80, a key
\* that cannot be derived.
RefuseRequest ==
    /\ ~locked
    /\ \E ins \in {"UNKNOWN", "GET_PUBKEY", "SIGN_TX"}, sw \in {"REFUSED", "BAD_DATA", "LOCKED"} :
         /\ HostSends(ins, NoIndex)
         /\ sw = "REFUSED" <=> ins = "UNKNOWN"
         /\ sw = "LOCKED" => ins = "GET_PUBKEY"
         /\ UNCHANGED handlerVars
         /\ Answer(Status(sw))
    /\ UNCHANGED <<locked, gSeed>>

GetPubkey(index) ==
    /\ ~locked
    /\ HostSends("GET_PUBKEY", index)
    /\ WalletUnlocked
    /\ UNCHANGED handlerVars
    /\ Answer([sw |-> "OK", body |-> Address(gSeed, index)])
    /\ UNCHANGED <<locked, gSeed>>

GetPubkeyConfirm(index) ==
    /\ ~locked
    /\ HostSends("GET_PUBKEY", index)
    /\ WhGetPubkeyConfirm(index)
    /\ Answer(Status("OK"))
    /\ UNCHANGED <<locked, gSeed>>

SignTxFirst(index, chunk) ==
    /\ ~locked
    /\ HostSends("SIGN_TX", NoIndex)
    /\ WhSignTxFirst(index, chunk)
    /\ Answer(Status("OK"))
    /\ UNCHANGED <<locked, gSeed>>

SignTxMore(chunk) ==
    /\ ~locked
    /\ HostSends("SIGN_TX", NoIndex)
    /\ \/ WhSignTxMore(chunk) /\ Answer(Status("OK"))
       \/ WhSignTxOverflow(chunk) /\ Answer(Status("BAD_DATA"))
    /\ UNCHANGED <<locked, gSeed>>

ReceiveApdu ==
    \/ ServeAlways
    \/ RefuseLocked
    \/ RefuseRequest
    \/ \E index \in Indices : GetPubkey(index) \/ GetPubkeyConfirm(index)
    \/ \E index \in Indices, chunk \in Chunks : SignTxFirst(index, chunk)
    \/ \E chunk \in Chunks : SignTxMore(chunk)

-----------------------------------------------------------------------------
(* Calls from the main loop.                                               *)

\* hid_app_task: send frames as long as the endpoint takes them.  The host
\* has its answer with the last one.
HidAppTask(sent) ==
    /\ out' = IF sent = out.left THEN NothingQueued ELSE [out EXCEPT !.left = @ - sent]
    /\ host' = IF out.left > 0 /\ sent = out.left THEN NoRequest ELSE host
    /\ UNCHANGED <<locked, gSeed>>
    /\ UNCHANGED handlerVars

\* hid_app_approve: hand out the address, or sign; a key that cannot be
\* derived is answered with an error.
HidAppApprove ==
    /\ WhDecided
    /\ CASE pending = "IDLE" -> UNCHANGED out
         [] pending = "CONFIRM_ADDR" -> QueueResponse([sw |-> "OK", body |-> pAddr])
         [] pending = "REVIEW_TX" ->
              \/ /\ WalletUnlocked
                 /\ QueueResponse([sw |-> "OK", body |-> Signature(gSeed, pIndex, pSighash, pTx)])
              \/ QueueResponse(Status("BAD_DATA"))
    /\ UNCHANGED <<locked, host, gSeed>>

\* Fault: a rejection sends nothing.
HidAppRejectSilent ==
    /\ WhDecided
    /\ UNCHANGED out
    /\ UNCHANGED <<locked, host, gSeed>>


HidAppReject ==
    /\ WhDecided
    /\ IF pending = "IDLE" THEN UNCHANGED out ELSE QueueResponse(Status("REJECTED"))
    /\ UNCHANGED <<locked, host, gSeed>>

-----------------------------------------------------------------------------
\* hid_app_init: boot locked.
HidInit ==
    /\ WhInit
    /\ locked = TRUE
    /\ out = NothingQueued
    /\ host = NoRequest

HidTypeOK ==
    /\ WhTypeOK
    /\ locked \in BOOLEAN
    /\ out \in [answer : Answers, left : 0..2]
    /\ host \in [ins : Requests \cup {"NONE"}, index : IndexOrNone]
=============================================================================

----------------------------- MODULE PinEntry ------------------------------
(***************************************************************************)
(* src/src/app/pin.c: the wheel on which a PIN is dialled.  The caller     *)
(* (ST_PIN in main.c) keeps RIGHT for itself and resets the wheel when it  *)
(* opens the screen.                                                       *)
(***************************************************************************)
EXTENDS Integers, Sequences

CONSTANTS
    Digits,     \* digits on the wheel: 10
    PinMin,     \* PIN_MIN_LEN
    PinMax      \* PIN_MAX_LEN

ASSUME PinAssumption ==
    Digits \in Nat \ {0} /\ PinMin \in Nat /\ PinMax \in Nat /\ PinMin <= PinMax

VARIABLES
    digits,     \* digits[]: the buffer, what was deleted included
    pinLen,     \* len
    pos,        \* pos: a digit, then backspace, then confirm
    confirmed,  \* confirmed
    dialled,    \* history: what the user has selected and not taken back
    awaited     \* history: the wheel the user counts on

pinEntryVars == <<digits, pinLen, pos, confirmed, dialled, awaited>>

Backspace == Digits
Confirm == Digits + 1
WheelCount == Digits + 2

\* Fault: the wheel stays where the last PIN left it.
ResetKeepsWheel == pinLen' = 0 /\ confirmed' = FALSE /\ UNCHANGED pos

\* pin_reset: the digits stay in the buffer.
PinReset == pinLen' = 0 /\ confirmed' = FALSE /\ pos' = 0

PinEntryInit ==
    /\ digits = [i \in 1..PinMax |-> 0]
    /\ pinLen = 0 /\ pos = 0 /\ confirmed = FALSE
    /\ dialled = <<>> /\ awaited = 0

Turn(by) ==
    /\ pos' = (pos + by) % WheelCount
    /\ awaited' = IF by = 1 THEN IF awaited = Confirm THEN 0 ELSE awaited + 1
                            ELSE IF awaited = 0 THEN Confirm ELSE awaited - 1
    /\ UNCHANGED <<digits, pinLen, confirmed, dialled>>

TakeBack ==
    /\ pinLen' = IF pinLen > 0 THEN pinLen - 1 ELSE pinLen
    /\ dialled' = IF dialled = <<>> THEN dialled ELSE SubSeq(dialled, 1, Len(dialled) - 1)
    /\ UNCHANGED <<digits, pos, confirmed, awaited>>

\* Fault: the last digit is overwritten when the buffer is full.
SelectOverwrites ==
    /\ pos < Backspace
    /\ digits' = [digits EXCEPT ![IF pinLen < PinMax THEN pinLen + 1 ELSE PinMax] = pos]
    /\ pinLen' = IF pinLen < PinMax THEN pinLen + 1 ELSE PinMax
    /\ dialled' = IF Len(dialled) < PinMax THEN Append(dialled, awaited) ELSE dialled
    /\ UNCHANGED <<pos, confirmed, awaited>>

\* CENTER on a digit: a full buffer takes no more.
SelectDigit ==
    /\ pos < Backspace
    /\ IF pinLen < PinMax
       THEN digits' = [digits EXCEPT ![pinLen + 1] = pos] /\ pinLen' = pinLen + 1
       ELSE UNCHANGED <<digits, pinLen>>
    /\ dialled' = IF Len(dialled) < PinMax THEN Append(dialled, awaited) ELSE dialled
    /\ UNCHANGED <<pos, confirmed, awaited>>

SelectConfirm ==
    /\ pos = Confirm
    /\ confirmed' = (confirmed \/ pinLen >= PinMin)
    /\ UNCHANGED <<digits, pinLen, pos, dialled, awaited>>

\* pin_event on the press of a button.
PinEvent(button) ==
    CASE button = "UP"     -> Turn(WheelCount - 1)
      [] button = "DOWN"   -> Turn(1)
      [] button = "LEFT"   -> TakeBack
      [] button = "CENTER" -> SelectDigit \/ (pos = Backspace /\ TakeBack) \/ SelectConfirm

\* The caller takes a confirmed PIN, or the user cancels; either way the next
\* entry begins with pin_reset.
NewEntry == PinReset /\ dialled' = <<>> /\ awaited' = 0 /\ UNCHANGED digits

PinEntryNext ==
    \/ ~confirmed /\ \E button \in {"UP", "DOWN", "LEFT", "CENTER"} : PinEvent(button)
    \/ NewEntry

PinEntrySpec == PinEntryInit /\ [][PinEntryNext]_pinEntryVars

\* pin_digits.
PinDigits == SubSeq(digits, 1, pinLen)

\* What pin_render draws: the place of the wheel, and a mark for every digit.
WheelSymbol(p) == CASE p < Backspace -> <<"digit", p>>
                    [] p = Backspace -> <<"<", 0>>
                    [] OTHER -> <<"OK", 0>>
PinShown == [symbol |-> WheelSymbol(pos), dots |-> [i \in 1..PinMax |-> IF i <= pinLen THEN "*" ELSE "_"]]

-----------------------------------------------------------------------------
(* Property.                                                               *)

\* The digits handed over are those the user selected and did not take back,
\* over corrections, a full buffer, the wrap of the wheel and what earlier
\* entries left in the buffer; the screen marks as many and shows the place of
\* the wheel that the user counts on; and a PIN is confirmed only at a legal
\* length.
PinAsDialled ==
    /\ PinDigits = dialled
    /\ PinShown.symbol = WheelSymbol(awaited)
    /\ \A i \in 1..PinMax : (PinShown.dots[i] = "*") = (i <= Len(dialled))
    /\ confirmed => Len(dialled) \in PinMin..PinMax
=============================================================================

------------------------------- MODULE Edges -------------------------------
(***************************************************************************)
(* The firmware's edges to the outside: reports of the host, the APDUs in  *)
(* them, buttons, the PIN wheel and the secure element.  They share no     *)
(* state, and a behaviour exercises one of them.                           *)
(***************************************************************************)
EXTENDS HidFrame, Apdu, Buttons, PinEntry, Atecc

VARIABLE side       \* which edge this behaviour exercises

edgeVars == <<frameVars, apduVars, buttonVars, pinEntryVars, ateccVars, side>>

EdgesInit ==
    /\ side \in {"host", "apdu", "buttons", "wheel", "element"}
    /\ FrameInit /\ ApduInit
    /\ ButtonsInit
    /\ side # "buttons" => raw = [b \in Ids |-> FALSE]
    /\ PinEntryInit
    /\ AteccInit

HostStep ==
    side = "host" /\ FrameNext /\ UNCHANGED <<apduVars, buttonVars, pinEntryVars, ateccVars, side>>

RequestStep ==
    side = "apdu" /\ ApduNext /\ UNCHANGED <<frameVars, buttonVars, pinEntryVars, ateccVars, side>>

PollStep ==
    side = "buttons" /\ Poll /\ UNCHANGED <<frameVars, apduVars, pinEntryVars, ateccVars, side>>

FingerStep ==
    /\ side = "buttons"
    /\ \E b \in Ids : Toggle(b)
    /\ UNCHANGED <<frameVars, apduVars, pinEntryVars, ateccVars, side>>

WheelStep ==
    side = "wheel" /\ PinEntryNext /\ UNCHANGED <<frameVars, apduVars, buttonVars, ateccVars, side>>

ElementStep ==
    side = "element" /\ AteccNext /\ UNCHANGED <<frameVars, apduVars, buttonVars, pinEntryVars, side>>

EdgesNext == HostStep \/ RequestStep \/ PollStep \/ FingerStep \/ WheelStep \/ ElementStep

\* The main loop polls the buttons on every turn.
EdgesSpec == EdgesInit /\ [][EdgesNext]_edgeVars /\ WF_edgeVars(PollStep)
=============================================================================

------------------------------ MODULE Buttons ------------------------------
(***************************************************************************)
(* src/src/drivers/buttons.c: debouncing of the buttons and their press,   *)
(* release and long press events.  A poll returns at the first event it    *)
(* finds, so the buttons later in the table are not sampled in that poll.  *)
(***************************************************************************)
EXTENDS Integers

CONSTANTS
    ButtonCount,    \* BTN_COUNT
    Debounce,       \* DEBOUNCE_SAMPLES
    LongPress,      \* LONG_PRESS_MS, in ticks
    TickMod,        \* HAL_GetTick wraps here: 2^32
    PollGaps        \* ticks between one poll and the next

ASSUME ButtonsAssumption ==
    /\ ButtonCount \in Nat \ {0}
    /\ Debounce \in Nat \ {0}
    /\ LongPress \in Nat \ {0} /\ TickMod \in Nat /\ LongPress < TickMod
    /\ PollGaps \subseteq 1..TickMod - LongPress

Ids == 0..ButtonCount - 1
NoEvent == "none"

VARIABLES
    raw,            \* the pins, TRUE when pressed
    stable,         \* stable[]
    count,          \* count[]
    pressTick,      \* press_tick[]
    longFired,      \* long_fired[]
    now,            \* HAL_GetTick()
    event,          \* the event of the last poll, for each button
    age,            \* history: ticks since the press event, up to LongPress
    fresh,          \* history: buttons reported pressed, and not yet long or released
    booted          \* history: buttons pressed since before buttons_init

buttonVars == <<raw, stable, count, pressTick, longFired, now, event, age, fresh, booted>>

ButtonsInit ==
    /\ raw \in [Ids -> BOOLEAN]
    /\ stable = raw
    /\ count = [b \in Ids |-> 0]
    /\ pressTick = [b \in Ids |-> 0]
    /\ longFired = [b \in Ids |-> FALSE]
    /\ now = 0
    /\ event = [b \in Ids |-> NoEvent]
    /\ age = [b \in Ids |-> 0]
    /\ fresh = {}
    /\ booted = {b \in Ids : raw[b]}

\* A finger, or the bounce of a contact.
Toggle(b) ==
    /\ raw' = [raw EXCEPT ![b] = ~@]
    /\ UNCHANGED <<stable, count, pressTick, longFired, now, event, age, fresh, booted>>

Differs(b) == raw[b] # stable[b]

\* Fault: a single sample is enough.
TurnsAtOnce(b) == Differs(b)

Turns(b) == Differs(b) /\ count[b] + 1 >= Debounce

\* Fault: the signed difference, which a wrap of the tick makes negative.
HeldForSigned(b) == now - pressTick[b]

\* now - press_tick in unsigned arithmetic.
HeldFor(b) == (now - pressTick[b]) % TickMod

LongNow(b) == ~Turns(b) /\ stable[b] /\ ~longFired[b] /\ HeldFor(b) >= LongPress

\* Fault: every button is sampled, but the counts after the event start again.
CountRestartsAfterEvent(b, sampled) ==
    IF b \notin sampled THEN 0
    ELSE IF Differs(b) /\ ~Turns(b) THEN count[b] + 1 ELSE 0

\* The count of a button after a poll that sampled the buttons in `sampled`.
NextCount(b, sampled) ==
    IF b \notin sampled THEN count[b]
    ELSE IF Differs(b) /\ ~Turns(b) THEN count[b] + 1 ELSE 0

\* Fault: long_fired does not outlast the poll that set it.
LongForgotten(b, presses) == FALSE

\* long_fired of a button whose long press is not reported in this poll.
NextLongFired(b, presses) == longFired[b] /\ ~presses

Poll ==
    LET eventful == {b \in Ids : Turns(b) \/ LongNow(b)}
        First(b) == b \in eventful /\ \A c \in eventful : b <= c
        sampled == {b \in Ids : \A c \in eventful : First(c) => b <= c}
        Presses(b) == First(b) /\ Turns(b) /\ raw[b]
        Releases(b) == First(b) /\ Turns(b) /\ ~raw[b]
        Long(b) == First(b) /\ LongNow(b)
    IN /\ stable' = [b \in Ids |-> IF Presses(b) \/ Releases(b) THEN raw[b] ELSE stable[b]]
       /\ count' = [b \in Ids |-> NextCount(b, sampled)]
       /\ pressTick' = [b \in Ids |-> IF Presses(b) THEN now ELSE pressTick[b]]
       /\ longFired' = [b \in Ids |-> Long(b) \/ NextLongFired(b, Presses(b))]
       /\ event' = [b \in Ids |-> IF Presses(b) THEN "PRESS" ELSE IF Releases(b) THEN "RELEASE"
                                  ELSE IF Long(b) THEN "LONG" ELSE NoEvent]
       /\ \E gap \in PollGaps :
            /\ now' = (now + gap) % TickMod
            /\ age' = [b \in Ids |-> IF Presses(b) THEN gap
                                     ELSE IF age[b] + gap < LongPress THEN age[b] + gap ELSE LongPress]
       /\ fresh' = {b \in Ids : Presses(b) \/ (b \in fresh /\ ~First(b))}
       /\ booted' = booted \ {b \in Ids : Presses(b)}
       /\ UNCHANGED raw

ButtonsNext == Poll \/ (\E b \in Ids : Toggle(b))

ButtonsSpec == ButtonsInit /\ [][ButtonsNext]_buttonVars

-----------------------------------------------------------------------------
(* Properties.                                                             *)

\* A long press is reported only for a button whose press was reported at
\* least LongPress ticks before, and once per press, over the wrap of the
\* tick.  A button held since before buttons_init is not covered: its
\* press_tick is 0.
LongMeansHeld ==
    [][\A b \in Ids \ booted : event'[b] = "LONG" /\ now' # now
          => b \in fresh /\ age[b] >= LongPress]_buttonVars

\* A button kept down is taken as pressed at last, whatever the buttons before
\* it in the table do to the polls; and once no button moves any more, its long
\* press fires too.
Rests(b) == <>[]raw[b] \/ <>[]~raw[b]
PressSeen ==
    /\ \A b \in Ids : <>[]raw[b] => <>[]stable[b]
    /\ (\A b \in Ids : Rests(b)) => \A b \in Ids : <>[]raw[b] => <>longFired[b]
=============================================================================

----------------------------- MODULE Transport -----------------------------
(***************************************************************************)
(* What HID framing promises, with no reports in it: the host sends one    *)
(* message at a time, and may give one up for the next.  A message whose   *)
(* reports all arrive in order is received once and whole.  One of which   *)
(* reports were lost, repeated or mixed with bad ones is received whole or *)
(* not at all, if its first report was not lost.  If that one is lost, and *)
(* the receiver still holds the beginning of a message that was given up,  *)
(* what comes may be taken for the rest of that: nothing in a report says  *)
(* which message it belongs to.                                            *)
(***************************************************************************)
EXTENDS Naturals, Sequences

CONSTANTS Lengths,      \* lengths a message may have
          MaxMessages   \* bound: messages of one behaviour

VARIABLES msg,      \* number of the message being sent, 0 before the first
          len,      \* its length
          phase,    \* "sending", "spoiled", "headless" or "done"
          begun,    \* the message whose beginning the receiver holds, and its length
          got       \* the messages received, oldest first

transportVars == <<msg, len, phase, begun, got>>

Nothing == [of |-> 0, len |-> 0]
Current == [of |-> msg, len |-> len]
Filler == <<0, 0>>

\* Byte i of message m, and the whole message.
Whole(m, l) == [i \in 1..l |-> <<m, i>>]

\* The beginning of one message and later ones in place of its rest.
Mixture(bytes) ==
    /\ Len(bytes) = begun.len
    /\ bytes[1] = <<begun.of, 1>>
    /\ \A i \in 1..Len(bytes) : bytes[i] = Filler \/ \E m \in begun.of..msg : bytes[i] = <<m, i>>

Init == msg = 0 /\ len = 0 /\ phase = "done" /\ begun = Nothing /\ got = <<>>

\* A new message may also abandon one that is half sent.
Start(l) ==
    /\ msg < MaxMessages
    /\ msg' = msg + 1
    /\ len' = l
    /\ phase' = "sending"
    /\ UNCHANGED <<begun, got>>

\* The first report arrives, at once or repeated.
Begin ==
    /\ phase # "done"
    /\ begun' = Current
    /\ phase' = IF phase = "headless" THEN "spoiled" ELSE phase
    /\ UNCHANGED <<msg, len, got>>

Spoil ==
    /\ phase = "sending"
    /\ phase' = "spoiled" \/ (phase' = "headless" /\ begun # Current)
    /\ begun' \in {begun, Nothing}
    /\ UNCHANGED <<msg, len, got>>

\* What the receiver holds is dropped; of a message all in order it never is.
Forget ==
    /\ phase # "done"
    /\ phase = "sending" => begun # Current
    /\ begun' = Nothing
    /\ UNCHANGED <<msg, len, phase, got>>

Receive ==
    /\ phase = "sending" \/ (phase = "spoiled" /\ begun = Current)
    /\ phase' = "done"
    /\ begun' = Nothing
    /\ got' = Append(got, Whole(msg, len))
    /\ UNCHANGED <<msg, len>>

Join ==
    /\ phase = "headless"
    /\ begun # Nothing /\ begun.of < msg
    /\ Len(got') = Len(got) + 1
    /\ LET last == got'[Len(got')] IN got' = Append(got, last) /\ Mixture(last)
    /\ phase' \in {"headless", "done"}
    /\ begun' = Nothing
    /\ UNCHANGED <<msg, len>>

Lose ==
    /\ phase \in {"spoiled", "headless"}
    /\ phase' = "done"
    /\ begun' \in {begun, Nothing}
    /\ UNCHANGED <<msg, len, got>>

Next == (\E l \in Lengths : Start(l)) \/ Begin \/ Spoil \/ Forget \/ Receive \/ Join \/ Lose

Spec == Init /\ [][Next]_transportVars
=============================================================================

-------------------------------- MODULE Vault --------------------------------
(***************************************************************************)
(* What the PIN promises on a device whose power is not cut, with no       *)
(* screens, records or flash writes in it: a seed is kept with the PIN it  *)
(* was made with; that PIN opens it and no other does; wrong PINs are      *)
(* counted, and the MaxFails-th in a row, no other event, destroys it.     *)
(***************************************************************************)
EXTENDS Wallet

CONSTANTS Pins, NoPin, MaxFails

VARIABLES
    kept,       \* the seed that is kept, or NoSeed
    key,        \* its PIN
    missed,     \* wrong PINs the user was told of since the last right one
    verdict,    \* on the PIN just entered, as long as nothing came of it
    open        \* the seed the wallet works with, or NoSeed

vaultVars == <<kept, key, missed, verdict, open>>

Init == kept = NoSeed /\ key = NoPin /\ missed = 0 /\ verdict = "none" /\ open = NoSeed

\* A wallet is set up only where there is none.
SetUp(seed, pin) ==
    /\ kept = NoSeed
    /\ kept' = seed
    /\ key' = pin
    /\ missed' = 0
    /\ verdict' = "new"
    /\ UNCHANGED open

\* Which of the three it is, the PIN and the count decide.
Enter(pin) ==
    /\ kept # NoSeed
    /\ open = NoSeed
    /\ verdict = "none"
    /\ verdict' = IF pin = key THEN "right" ELSE IF missed + 1 < MaxFails THEN "wrong" ELSE "last"
    /\ UNCHANGED <<kept, key, missed, open>>

\* Unless no key can be derived.
Open ==
    /\ verdict \in {"new", "right"}
    /\ verdict' = "none"
    /\ missed' = 0
    /\ open' \in {kept, open}
    /\ UNCHANGED <<kept, key>>

Tell ==
    /\ verdict = "wrong"
    /\ verdict' = "none"
    /\ missed' = missed + 1
    /\ UNCHANGED <<kept, key, open>>

Destroy ==
    /\ verdict = "last"
    /\ verdict' = "none"
    /\ missed' = 0
    /\ kept' = NoSeed
    /\ key' = NoPin
    /\ UNCHANGED open

Close ==
    /\ open # NoSeed
    /\ open' = NoSeed
    /\ UNCHANGED <<kept, key, missed, verdict>>

Next ==
    \/ \E seed \in Seeds, pin \in Pins : SetUp(seed, pin)
    \/ \E pin \in Pins : Enter(pin)
    \/ Open \/ Tell \/ Destroy \/ Close

Spec == Init /\ [][Next]_vaultVars
=============================================================================

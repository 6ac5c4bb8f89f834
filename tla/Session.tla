------------------------------ MODULE Session ------------------------------
(* One use of one function of the library, or of one of its contexts.       *)
EXTENDS Textbook

VARIABLE session

Idle == [of |-> "none"]

End ==
    /\ session # Idle
    /\ session' = Idle
=============================================================================

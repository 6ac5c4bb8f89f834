------------------------------- MODULE Signer -------------------------------
(***************************************************************************)
(* What the wallet promises a host that waits for its answers, with no     *)
(* loop, buffers, frames or flash in it.  A request is answered once.  It  *)
(* is answered at once, or it asks the user: the display shows parts of    *)
(* what is asked, and a decision taken while it does makes the answer.  A  *)
(* signature is of the whole transaction asked for, by the open wallet.    *)
(***************************************************************************)
EXTENDS Wallet, Sequences

CONSTANTS
    Heads, Tails,   \* the two pieces of a transaction
    Requests,       \* the instructions the host uses
    NoBody          \* an answer that is only a status word

VARIABLES
    wallet,     \* the seed of the open wallet, or NoSeed
    request,    \* what the host waits for an answer to
    named,      \* the account the last request that named one named
    asked,      \* what the user is asked to approve: an address, or head and tail
    seen,       \* the part of it on the display
    reply       \* the answer on its way

signerVars == <<wallet, request, named, asked, seen, reply>>

NoRequest == [ins |-> "NONE", index |-> NoIndex]
Word(sw) == [sw |-> sw, body |-> NoBody]
Body(b) == [sw |-> "OK", body |-> b]
NoReply == Word("NONE")

Closed == wallet = NoSeed

Init ==
    /\ Closed
    /\ request = NoRequest
    /\ named = 0
    /\ asked = <<>>
    /\ seen = <<>>
    /\ reply = NoReply

-----------------------------------------------------------------------------
Open(seed) ==
    /\ Closed
    /\ wallet' = seed
    /\ UNCHANGED <<request, named, asked, seen, reply>>

\* Never under a question to the user.
Close ==
    /\ ~Closed
    /\ asked = <<>>
    /\ wallet' = NoSeed
    /\ UNCHANGED <<request, named, asked, seen, reply>>

Ask(ins, index) ==
    /\ request = NoRequest
    /\ ins \in Requests
    /\ request' = [ins |-> ins, index |-> index]

\* A status word: while the wallet is closed nothing else is said to an
\* instruction that needs it.  The first chunk of a transaction names an account.
AnswerWord(ins, index, sw) ==
    /\ Ask(ins, index)
    /\ sw # "NONE"
    /\ Closed /\ ins \notin {"GET_CONFIG", "MALFORMED"} => sw = "DEVICE_LOCKED"
    /\ reply' = Word(sw)
    /\ \/ UNCHANGED named
       \/ ins = "SIGN_TX" /\ ~Closed /\ named' \in Indices
    /\ UNCHANGED <<wallet, asked, seen>>

AnswerAddress(index) ==
    /\ ~Closed
    /\ Ask("GET_PUBKEY", index)
    /\ reply' = Body(Address(wallet, index))
    /\ UNCHANGED <<wallet, named, asked, seen>>

AskAddress(index) ==
    /\ ~Closed
    /\ Ask("GET_PUBKEY", index)
    /\ named' = index
    /\ asked' = <<Address(wallet, index)>>
    /\ UNCHANGED <<wallet, seen, reply>>

AskSignature(head, tail) ==
    /\ ~Closed
    /\ Ask("SIGN_TX", NoIndex)
    /\ named' \in Indices
    /\ asked' = <<head, tail>>
    /\ UNCHANGED <<wallet, seen, reply>>

-----------------------------------------------------------------------------
Show(i) ==
    /\ i \in DOMAIN asked
    /\ seen' = <<asked[i]>>
    /\ UNCHANGED <<wallet, request, named, asked, reply>>

\* Only with a part of what is asked on the display.
Decide ==
    /\ \E i \in DOMAIN asked : seen = <<asked[i]>>
    /\ asked' = <<>>
    /\ seen' = <<>>
    /\ UNCHANGED <<wallet, request, named>>

ApproveAddress ==
    /\ Len(asked) = 1
    /\ Decide
    /\ reply' = Body(asked[1])

ApproveSignature ==
    /\ Len(asked) = 2
    /\ Decide
    /\ \/ ~Closed /\ reply' = Body(Signature(wallet, named, [head |-> asked[1], tail |-> asked[2]], asked[1]))
       \/ reply' = Word("BAD_DATA")

Reject ==
    /\ Decide
    /\ reply' = Word("REJECTED")

Deliver ==
    /\ reply # NoReply
    /\ reply' = NoReply
    /\ request' = NoRequest
    /\ UNCHANGED <<wallet, named, asked, seen>>

PowerLoss ==
    /\ wallet' = NoSeed /\ request' = NoRequest /\ named' = 0
    /\ asked' = <<>> /\ seen' = <<>> /\ reply' = NoReply

Next ==
    \/ \E seed \in Seeds : Open(seed)
    \/ Close
    \/ \E ins \in Requests, index \in Indices \cup {NoIndex},
          sw \in {"OK", "REFUSED", "BAD_DATA", "LOCKED", "DEVICE_LOCKED"} : AnswerWord(ins, index, sw)
    \/ \E index \in Indices : AnswerAddress(index) \/ AskAddress(index)
    \/ \E head \in Heads, tail \in Tails : AskSignature(head, tail)
    \/ \E i \in 1..2 : Show(i)
    \/ ApproveAddress \/ ApproveSignature \/ Reject
    \/ Deliver
    \/ PowerLoss

Spec == Init /\ [][Next]_signerVars
=============================================================================

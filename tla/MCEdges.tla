------------------------------ MODULE MCEdges ------------------------------
(* Instances of Edges for TLC. *)
EXTENDS Edges

\* One, two and three reports, at and next to the borders between them.
FrameLengths == {2, 4, 5, 10, 15}

\* The loop's own pace, and a turn that took longer.
OneOrTwo == {1, 2}

\* Two random bytes a command, one of the draws as long as a packet says it is.
MCAnswerLength == [op \in {"random", "selftest", "revision"} |-> IF op = "random" THEN 2 ELSE IF op = "selftest" THEN 1 ELSE 3]

\* What is mixed into a salt of two bytes.
MCKeys == {<<0, 0>>, <<170, 255>>}

MCDraws == <<<<5, 200>>, <<77, 3>>, <<0, 254>>>>

\* With nothing in them, with data, and with no room for the status.
MCReturns == {[sw |-> SwOk, out |-> <<>>], [sw |-> SwOk, out |-> <<9, 7>>], [sw |-> 27013, out |-> [i \in 1..18 |-> i]]}

\* Cut, whole and longer than they say; the longest, and one whose length wraps.
MCRequests ==
    {<<ClaEth>>, <<ClaEth, 4, 0, 0, 255>> \o [i \in 1..255 |-> 1], <<ClaEth, 4, 0, 0, 0>> \o [i \in 1..256 |-> 1]}
      \cup {SubSeq(<<cla, ins, 1, 2, lc, 10, 11>>, 1, n) :
               cla \in {ClaEth, ClaOs, 0}, ins \in {1, 2, 4, 6, 167, 216}, lc \in {0, 1, 2}, n \in 4..7}
=============================================================================

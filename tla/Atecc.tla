------------------------------- MODULE Atecc -------------------------------
(***************************************************************************)
(* src/src/drivers/atecc.c and platform/hw_rng.c: a command to the secure  *)
(* element and its answer over a bus that loses and disturbs bytes, and    *)
(* the random buffers that are filled from it.  The element may answer     *)
(* with an error status, take its time, or fall asleep at any moment.      *)
(***************************************************************************)
EXTENDS Integers, Sequences

CONSTANTS
    AnswerLength,   \* command |-> bytes of its data, as its caller expects them
    Draws,          \* what the random generator gives, command after command
    Statuses,       \* error codes, one byte each
    Attempts,       \* polls for an answer: 25
    Flips,          \* bits that the bus turns in one packet
    Wanted,         \* lengths of random buffers
    SaltLength,     \* STORAGE_SALT_LEN
    Keys            \* what mix_entropy makes of the clocks, byte after byte

Bytes == 0..255

\* A status is shorter than a random number (1 and 32 bytes), and nobody wants
\* an empty buffer.
ASSUME AteccAssumption ==
    /\ \A op \in DOMAIN AnswerLength : AnswerLength[op] \in Nat \ {0}
    /\ "random" \in DOMAIN AnswerLength /\ "none" \notin DOMAIN AnswerLength
    /\ AnswerLength["random"] > 1
    /\ Draws \in Seq(Seq(Bytes))
    /\ \A i \in 1..Len(Draws) : Len(Draws[i]) = AnswerLength["random"]
    /\ Statuses \subseteq Bytes
    /\ Attempts \in Nat \ {0} /\ Flips \in Nat
    /\ Wanted \subseteq Nat \ {0}
    /\ SaltLength \in 1..AnswerLength["random"]
    /\ Keys \subseteq [1..SaltLength -> Bytes]

VARIABLES
    chip,       \* [power, op, out, answered]: the element, the command it executes, what is left to read
    driver,     \* [phase, attempt, count]: how far atecc_cmd is
    call,       \* [op, wanted, buf, ret] of the caller; history: first, its first
                \* command, and taken, the chunks taken: [command, data]
    commands    \* history: commands the element took

ateccVars == <<chip, driver, call, commands>>

-----------------------------------------------------------------------------
(* Packets.                                                                *)

Zeros(n) == [i \in 1..n |-> 0]

Flipped(x, b) == IF (x \div 2^b) % 2 = 1 THEN x - 2^b ELSE x + 2^b

\* Polynomial 0x8005; bytes low bit first, against the top bit of the register.
Crc16(bytes) ==
    LET Shifted(crc, data) ==
            LET low == (2 * crc) % 65536
            IN IF data # crc \div 32768 THEN Flipped(Flipped(Flipped(low, 0), 2), 15) ELSE low
        crc[i \in 0..8 * Len(bytes)] ==
            IF i = 0 THEN 0
            ELSE Shifted(crc[i - 1], (bytes[(i - 1) \div 8 + 1] \div 2^((i - 1) % 8)) % 2)
    IN crc[8 * Len(bytes)]

LowHigh(crc) == <<crc % 256, crc \div 256>>

\* The count counts itself and the checksum.
Packet(data) == LET counted == <<Len(data) + 3>> \o data IN counted \o LowHigh(Crc16(counted))

WakeAnswer == <<4, 17, 51, 67>>     \* 04 11 33 43

\* An idle bus reads as ones.
Read(bytes, n) == [i \in 1..n |-> IF i <= Len(bytes) THEN bytes[i] ELSE 255]
After(bytes, n) == IF n >= Len(bytes) THEN <<>> ELSE SubSeq(bytes, n + 1, Len(bytes))

IsCount(count) == ~(count < 3 \/ count > 40)

\* The checksum at the end of the count - 1 bytes after count.
SumFits(count, resp) ==
    Crc16(<<count>> \o SubSeq(resp, 1, count - 3)) = resp[count - 2] + 256 * resp[count - 1]

\* Fault: the length of the answer is not compared with the caller's.
VerdictOfChecksum(count, resp, n) == IF SumFits(count, resp) THEN 0 ELSE -2

\* What atecc_cmd returns for count and the count - 1 bytes after it.
Verdict(count, resp, n) ==
    IF ~SumFits(count, resp) THEN -2
    ELSE IF count - 3 # n THEN -3
    ELSE 0

-----------------------------------------------------------------------------
(* The element.                                                            *)

\* What it may answer to its c-th command.
Answers(op, c) ==
    {<<s>> : s \in Statuses} \cup
    CASE op = "random" -> {Draws[c]}
      [] op = "selftest" -> {<<0>>, <<1>>}
      [] OTHER -> {[i \in 1..AnswerLength[op] |-> 96 + i]}

BitPositions(bytes) == (1..Len(bytes)) \X (0..7)
Disturbed(bytes, at) ==
    [i \in 1..Len(bytes) |->
        LET x[b \in 0..8] ==
                IF b = 0 THEN bytes[i] ELSE IF <<i, b - 1>> \in at THEN Flipped(x[b - 1], b - 1) ELSE x[b - 1]
        IN x[8]]

\* At most two, as pairs of positions: one position twice is one turned bit.
Noise(bytes) ==
    IF Flips = 0 THEN {{}}
    ELSE {{}} \cup {{p, q} : p \in BitPositions(bytes), q \in IF Flips = 1 THEN {<<1, 0>>} ELSE BitPositions(bytes)}

OnBus(data) == {Disturbed(Packet(data), at) : at \in Noise(Packet(data))}

\* The checksum tells: wherever in the bytes of an answer the driver takes a
\* count, and however many bits of them are turned, if the sum fits and the
\* length is the caller's, then it has read the data that the element sent.
ASSUME ChecksumTells ==
    \A op \in DOMAIN AnswerLength, c \in 1..Len(Draws) :
        \A data \in Answers(op, c) : \A bytes \in OnBus(data) : \A d \in 0..Len(bytes) :
            LET count == Read(After(bytes, d), 1)[1]
                resp == Read(After(After(bytes, d), 1), count - 1)
                n == AnswerLength[op]
            IN IsCount(count) /\ count - 3 = n /\ SumFits(count, resp) => SubSeq(resp, 1, n) = data /\ Len(data) = n

\* "Verified against the canonical wake response."
ASSUME WakeChecksum == WakeAnswer = Packet(<<17>>)

Execute ==
    /\ chip.op # "none"
    /\ \E data \in Answers(chip.op, commands) :
         \E bytes \in OnBus(data) :
            chip' = [chip EXCEPT !.op = "none", !.answered = data, !.out = bytes]
    /\ UNCHANGED <<driver, call, commands>>

Asleep == [power |-> "asleep", op |-> "none", out |-> <<>>, answered |-> <<>>]

\* The element's own watchdog.
FallAsleep ==
    /\ chip.power = "awake"
    /\ chip' = Asleep
    /\ UNCHANGED <<driver, call, commands>>

-----------------------------------------------------------------------------
(* The driver.                                                             *)

Resting == [phase |-> "idle", attempt |-> 0, count |-> 0]
Started == [phase |-> "woken", attempt |-> 0, count |-> 0]

\* atecc_wake: the pulse is for a sleeping element only.
Woken(c) == IF c.power = "asleep"
            THEN [c EXCEPT !.power = "awake", !.out = WakeAnswer, !.answered = SubSeq(WakeAnswer, 2, 2)]
            ELSE c

Call(op, n) ==
    /\ driver.phase = "idle"
    /\ call' = [op |-> op, wanted |-> n, buf |-> <<>>, ret |-> 0, taken |-> <<>>, first |-> commands + 1]
    /\ driver' = Started /\ chip' = Woken(chip)
    /\ UNCHANGED commands

\* random_buffer(buf, n), and the commands that are one call each; a random
\* number asked for in one call is what get_salt and provision want.
RandomBuffer(n) == Call("random", n)
Ask(op) == Call(op, AnswerLength[op])

\* The caller after ret, when bytes are left on the bus: a random buffer takes
\* what it still wants of data and asks for the next chunk, or is filled up
\* with zeros.
Return(ret, data, bytes) ==
    LET missing == call.wanted - Len(call.buf)
        taken == IF missing < Len(data) THEN missing ELSE Len(data)
        left == [chip EXCEPT !.out = bytes]
    IN IF ret # 0
       THEN /\ call' = [call EXCEPT !.buf = @ \o Zeros(missing), !.ret = ret]
            /\ driver' = Resting /\ chip' = left
       ELSE /\ call' = [call EXCEPT !.buf = @ \o SubSeq(data, 1, taken), !.taken = Append(@, [command |-> commands, data |-> chip.answered])]
            /\ IF taken < missing THEN driver' = Started /\ chip' = Woken(left)
               ELSE driver' = Resting /\ chip' = left

\* The element answers its address when it executes nothing.
Listening == chip.power = "awake" /\ chip.op = "none"

Transmit ==
    /\ driver.phase = "woken" /\ Listening
    /\ commands < Len(Draws)
    /\ chip' = [chip EXCEPT !.op = call.op, !.out = <<>>, !.answered = <<>>]
    /\ driver' = [driver EXCEPT !.phase = "polling"]
    /\ commands' = commands + 1
    /\ UNCHANGED call

\* Not acknowledged, or lost.
TransmitFails == driver.phase = "woken" /\ Return(-1, <<>>, chip.out) /\ UNCHANGED commands

\* One round of the polling loop that ends in a wait of a millisecond.
Retry(bytes) ==
    IF driver.attempt + 1 < Attempts
    THEN /\ driver' = [driver EXCEPT !.attempt = @ + 1]
         /\ chip' = [chip EXCEPT !.out = bytes]
         /\ UNCHANGED call
    ELSE Return(-1, <<>>, bytes)

PollFails == driver.phase = "polling" /\ Retry(chip.out) /\ UNCHANGED commands

\* A count that cannot be one is dropped: the next poll reads the byte after it.
ReceiveCount ==
    /\ driver.phase = "polling" /\ Listening
    /\ LET count == Read(chip.out, 1)[1]
       IN IF ~IsCount(count) THEN Retry(After(chip.out, 1))
          ELSE /\ driver' = [driver EXCEPT !.phase = "counted", !.count = count]
               /\ chip' = [chip EXCEPT !.out = After(@, 1)]
               /\ UNCHANGED call
    /\ UNCHANGED commands

ReceiveRest ==
    /\ driver.phase = "counted" /\ Listening
    /\ LET resp == Read(chip.out, driver.count - 1)
           n == AnswerLength[call.op]
           ret == Verdict(driver.count, resp, n)
       IN Return(ret, IF ret = 0 THEN SubSeq(resp, 1, n) ELSE <<>>, After(chip.out, driver.count - 1))
    /\ UNCHANGED commands

ReceiveFails == driver.phase = "counted" /\ Return(-1, <<>>, chip.out) /\ UNCHANGED commands

-----------------------------------------------------------------------------
(* What main.c makes of it.                                                *)

Bit(x, b) == (x \div 2^b) % 2
Xor(x, y) ==
    LET z[b \in 0..8] == IF b = 0 THEN 0 ELSE z[b - 1] + ((Bit(x, b - 1) + Bit(y, b - 1)) % 2) * 2^(b - 1)
    IN z[8]

\* What is mixed in twice is gone.
ASSUME XorTwice == \A x, y \in Bytes : Xor(x, y) \in Bytes /\ Xor(Xor(x, y), y) = x

\* mix_entropy: into every byte one that is made of the clocks alone.
MixEntropy(buf, key) == [i \in 1..Len(buf) |-> Xor(buf[i], key[i])]

\* get_salt, empty when the element gave no random number.
GetSalt(ret, rnd, key) == IF ret # 0 THEN <<>> ELSE MixEntropy(SubSeq(rnd, 1, SaltLength), key)

AteccInit ==
    /\ chip = Asleep /\ driver = Resting /\ commands = 0
    /\ call = [op |-> "none", wanted |-> 0, buf |-> <<>>, ret |-> 0, taken |-> <<>>, first |-> 1]

AteccNext ==
    \/ Execute \/ FallAsleep
    \/ \E n \in Wanted : RandomBuffer(n)
    \/ \E op \in DOMAIN AnswerLength : Ask(op)
    \/ Transmit \/ TransmitFails \/ PollFails \/ ReceiveCount \/ ReceiveRest \/ ReceiveFails

-----------------------------------------------------------------------------
(* Properties.                                                             *)

\* Where the i-th chunk starts in the buffer.
Start(i) == (i - 1) * AnswerLength[call.op]

\* Whatever bits the bus turns and whenever the element sleeps, refuses or
\* answers late: what a caller of atecc_cmd or random_buffer gets is what the
\* element answered to this call's own commands, one command a chunk and every
\* chunk in its place, and a buffer that could not be filled ends in zeros
\* instead of an error code, a wake-up token or what the stack held.
CallerServed ==
    /\ Len(call.buf) = call.wanted
    /\ \A i \in 1..Len(call.taken) :
        /\ call.taken[i].command \in call.first..commands
        /\ \A k \in 1..i - 1 : call.taken[k].command < call.taken[i].command
        /\ call.op = "random" => call.taken[i].data = Draws[call.taken[i].command]
        /\ \A j \in 1..AnswerLength[call.op] :
            Start(i) + j <= call.wanted => call.buf[Start(i) + j] = call.taken[i].data[j]
    /\ \A k \in 1..call.wanted :
        k > Start(Len(call.taken) + 1) => call.ret # 0 /\ call.buf[k] = 0

\* The next caller is main.c: a salt is made of a good answer only, and mixing
\* it with the clocks loses nothing of it.
SaltAsDrawn ==
    call.op = "random" /\ call.wanted = AnswerLength["random"] =>
        \A key \in Keys :
            LET salt == GetSalt(call.ret, call.buf, key)
            IN IF call.ret # 0 THEN salt = <<>>
               ELSE MixEntropy(salt, key) = SubSeq(Draws[commands], 1, SaltLength)

\* Whenever nothing is under way, the last caller of the element was served as
\* it should be: random data are drawn for it, or known to be none.
RandomAsDrawn == driver.phase = "idle" => CallerServed /\ SaltAsDrawn

AteccSpec == AteccInit /\ [][AteccNext]_ateccVars
=============================================================================

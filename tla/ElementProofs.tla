--------------------------- MODULE ElementProofs ---------------------------
(***************************************************************************)
(* The secure element, proved for every bus, clock and element whose       *)
(* checksum tells a disturbed answer: random buffers hold what was drawn   *)
(* for them.                                                               *)
(***************************************************************************)
EXTENDS Atecc, SequenceTheorems, TLAPS

Ops == DOMAIN AnswerLength

DriverType ==
    /\ chip = [power |-> chip.power, op |-> chip.op, out |-> chip.out, answered |-> chip.answered]
    /\ chip.op \in Ops \cup {"none"}
    /\ chip.answered \in Seq(Nat)
    /\ driver = [phase |-> driver.phase, attempt |-> driver.attempt, count |-> driver.count]
    /\ driver.phase \in {"idle", "woken", "polling", "counted"}
    /\ call \in [op : Ops \cup {"none"}, wanted : Nat, buf : Seq(Nat), ret : Int,
                 taken : Seq([command : Nat, data : Seq(Nat)]), first : Nat \ {0}]
    /\ commands \in 0..Len(Draws)

\* The chunks taken are of commands from first to last, one after the other,
\* and a random one is what that command drew.
Issued(op, first, last, taken) ==
    \A i \in 1..Len(taken) :
        /\ taken[i].command \in first..last
        /\ \A k \in 1..i - 1 : taken[k].command < taken[i].command
        /\ op = "random" => taken[i].data = Draws[taken[i].command]

\* They are in their places in the buffer, as far as it goes.
Placed(size, wanted, buf, taken) ==
    \A i \in 1..Len(taken) : \A j \in 1..size :
        (i - 1) * size + j <= wanted => buf[(i - 1) * size + j] = taken[i].data[j]

ChunkInv ==
    /\ Issued(call.op, call.first, commands, call.taken)
    /\ Placed(AnswerLength[call.op], call.wanted, call.buf, call.taken)

(* While a call is under way it has taken whole chunks and wants more.     *)
BusyInv ==
    driver.phase # "idle" =>
        /\ call.op \in Ops
        /\ call.ret = 0
        /\ Len(call.buf) = Len(call.taken) * AnswerLength[call.op]
        /\ Len(call.buf) < call.wanted
        /\ call.first <= commands + 1

\* The bytes on the bus are those of the answer to the last command, from the
\* d-th on.
OnItsWay(d, bytes) ==
    /\ chip.answered \in Answers(call.op, commands)
    /\ bytes \in OnBus(chip.answered)
    /\ d \in 0..Len(bytes)

(* A command is executed for this call, and what there is to read is its   *)
(* answer, or the part of it behind what was taken for a count.            *)
AnswerInv ==
    /\ chip.op # "none" => commands > 0
    /\ driver.phase \in {"polling", "counted"} =>
        /\ commands \in call.first..Len(Draws) /\ commands > 0
        /\ \A i \in 1..Len(call.taken) : call.taken[i].command < commands
    /\ driver.phase = "polling" =>
        /\ chip.op \in {"none", call.op}
        /\ Listening => \E bytes : \E d : OnItsWay(d, bytes) /\ chip.out = After(bytes, d)
    /\ driver.phase = "counted" =>
        /\ chip.op = "none"
        /\ IsCount(driver.count)
        /\ Listening => \E bytes : \E d :
            /\ OnItsWay(d, bytes)
            /\ driver.count = Read(After(bytes, d), 1)[1]
            /\ chip.out = After(After(bytes, d), 1)

(* A call that has ended has taken as much as it wanted or says that it    *)
(* failed; a good one ended with the last command.                         *)
DoneInv ==
    driver.phase = "idle" =>
        /\ Len(call.buf) = call.wanted
        /\ \A k \in 1..call.wanted :
            k > Len(call.taken) * AnswerLength[call.op] => call.ret # 0 /\ call.buf[k] = 0
        /\ call.taken # <<>> =>
            /\ (Len(call.taken) - 1) * AnswerLength[call.op] < call.wanted
            /\ call.ret = 0 => call.taken[Len(call.taken)].command = commands

DrawInv == DriverType /\ ChunkInv /\ BusyInv /\ AnswerInv /\ DoneInv

-----------------------------------------------------------------------------
(* Chunks and bytes.                                                       *)

\* Chunks lie one behind the other.
LEMMA ChunksInRow ==
    ASSUME NEW size \in Nat \ {0}, NEW t \in Nat
    PROVE  /\ t * size \in Nat /\ (t + 1) * size = t * size + size
           /\ \A i \in 1..t : (i - 1) * size \in Nat /\ (i - 1) * size + size <= t * size
<1>1. t * size \in Nat /\ (t + 1) * size = t * size + size
  OBVIOUS
<1>2. ASSUME NEW i \in 1..t PROVE (i - 1) * size \in Nat /\ (i - 1) * size + size <= t * size
  <2>1. PICK r \in Nat : t = i + r
    BY t - i \in Nat
  <2>2. r * size \in Nat /\ t * size = (i - 1) * size + size + r * size /\ (i - 1) * size \in Nat
    BY <2>1
  <2> QED BY <2>2
<1> QED BY <1>1, <1>2

LEMMA Sizes ==
    ASSUME NEW op \in Ops
    PROVE  AnswerLength[op] \in Nat \ {0}
BY AteccAssumption DEF Ops

\* What the element answers is a sequence, and a random number if it is as
\* long as one.
LEMMA AnswersAre ==
    ASSUME NEW op \in Ops, NEW c \in 1..Len(Draws), NEW data \in Answers(op, c)
    PROVE  /\ data \in Seq(Nat)
           /\ op = "random" /\ Len(data) = AnswerLength[op] => data = Draws[c]
<1>1. CASE \E s \in Statuses : data = <<s>>
  <2>1. PICK s \in Statuses : data = <<s>>
    BY <1>1
  <2>2. s \in Nat
    BY AteccAssumption DEF Bytes
  <2>3. data \in Seq(Nat) /\ Len(data) = 1
    BY <2>1, <2>2
  <2> QED BY <2>3, AteccAssumption
<1>2. CASE ~(\E s \in Statuses : data = <<s>>)
  <2>1. data \in (CASE op = "random" -> {Draws[c]}
                    [] op = "selftest" -> {<<0>>, <<1>>}
                    [] OTHER -> {[i \in 1..AnswerLength[op] |-> 96 + i]})
    BY <1>2 DEF Answers
  <2>2. CASE op = "random"
    <3>1. data = Draws[c]
      BY <2>1, <2>2
    <3>2. Draws[c] \in Seq(Bytes)
      BY AteccAssumption
    <3>3. Bytes \subseteq Nat
      BY DEF Bytes
    <3>4. Draws[c] \in Seq(Nat)
      BY <3>2, <3>3, SeqMonotonic
    <3> QED BY <3>1, <3>4
  <2>3. CASE op = "selftest"
    <3>1. data = <<0>> \/ data = <<1>>
      BY <2>1, <2>3
    <3>2. <<0>> \in Seq(Nat) /\ <<1>> \in Seq(Nat)
      OBVIOUS
    <3> QED BY <2>3, <3>1, <3>2
  <2>4. CASE op \notin {"random", "selftest"}
    <3>1. data = [i \in 1..AnswerLength[op] |-> 96 + i]
      BY <2>1, <2>4
    <3> QED BY <3>1, <2>4, Sizes
  <2> QED BY <2>2, <2>3, <2>4
<1> QED BY <1>1, <1>2

LEMMA PacketIsSeq ==
    ASSUME NEW data \in Seq(Nat), NEW bytes \in OnBus(data)
    PROVE  \E S : bytes \in Seq(S)
<1>1. PICK at : bytes = Disturbed(Packet(data), at)
  BY DEF OnBus
<1>2. Len(Packet(data)) \in Nat
  <2> DEFINE counted == <<Len(data) + 3>> \o data
             sum == LowHigh(Crc16(counted))
  <2>1. counted \in Seq(Nat)
    OBVIOUS
  <2>2. PICK x, y : sum = <<x, y>>
    BY DEF LowHigh
  <2>3. Packet(data) = counted \o <<x, y>>
    BY <2>2 DEF Packet
  <2>4. <<x, y>> \in Seq(Nat \cup {x, y}) /\ counted \in Seq(Nat \cup {x, y})
    BY <2>1
  <2> HIDE DEF counted
  <2> QED BY <2>3, <2>4
<1>3. Len(bytes) = Len(Packet(data)) /\ bytes = [i \in 1..Len(Packet(data)) |-> bytes[i]]
  BY <1>1, <1>2 DEF Disturbed
<1> DEFINE S == {bytes[i] : i \in 1..Len(Packet(data))}
<1>4. bytes \in [1..Len(Packet(data)) -> S]
  BY <1>3
<1>5. bytes \in Seq(S)
  BY <1>2, <1>4
<1> QED BY <1>5

LEMMA AfterAfter ==
    ASSUME NEW S, NEW bytes \in Seq(S), NEW d \in 0..Len(bytes)
    PROVE  \E e \in 0..Len(bytes) : After(After(bytes, d), 1) = After(bytes, e)
<1>1. CASE d = Len(bytes)
  <2>1. After(bytes, d) = <<>> /\ After(<<>>, 1) = <<>>
    BY <1>1 DEF After
  <2> QED BY <1>1, <2>1
<1>2. CASE d < Len(bytes)
  <2> DEFINE rest == SubSeq(bytes, d + 1, Len(bytes))
  <2>1. After(bytes, d) = rest
    BY <1>2 DEF After
  <2>2. rest \in Seq(S) /\ Len(rest) = Len(bytes) - d
        /\ \A i \in 1..Len(rest) : rest[i] = bytes[d + i]
    BY <1>2
  <2>3. CASE d + 1 = Len(bytes)
    <3>1. After(rest, 1) = <<>> /\ After(bytes, d + 1) = <<>>
      BY <2>2, <2>3 DEF After
    <3> QED BY <2>1, <2>3, <3>1
  <2>4. CASE d + 1 < Len(bytes)
    <3> DEFINE once == SubSeq(rest, 2, Len(rest))
               twice == SubSeq(bytes, d + 2, Len(bytes))
    <3>1. After(rest, 1) = once /\ After(bytes, d + 1) = twice
      <4>1. ~(1 >= Len(rest)) /\ ~(d + 1 >= Len(bytes)) /\ (d + 1) + 1 = d + 2
        BY <2>2, <2>4
      <4> HIDE DEF rest
      <4> QED BY <4>1 DEF After
    <3>2. once \in Seq(S) /\ Len(once) = Len(bytes) - d - 1
          /\ \A i \in 1..Len(once) : once[i] = rest[i + 1]
      <4> HIDE DEF rest
      <4> QED BY <2>2, <2>4
    <3>3. twice \in Seq(S) /\ Len(twice) = Len(bytes) - d - 1
          /\ \A i \in 1..Len(twice) : twice[i] = bytes[d + 1 + i]
      BY <2>4
    <3> HIDE DEF rest, once, twice
    <3>4. \A i \in 1..Len(once) : once[i] = twice[i]
      <4> TAKE i \in 1..Len(once)
      <4>1. i + 1 \in 1..Len(rest) /\ d + (i + 1) = d + 1 + i /\ i \in 1..Len(twice)
        BY <2>2, <3>2, <3>3, <2>4
      <4> QED BY <4>1, <2>2, <3>2, <3>3
    <3>5. once = twice
      BY <3>2, <3>3, <3>4, SeqEqual
    <3> QED BY <2>1, <2>4, <3>1, <3>5
  <2> QED BY <1>2, <2>3, <2>4
<1> QED BY <1>1, <1>2

LEMMA AfterNothing ==
    ASSUME NEW S, NEW bytes \in Seq(S)
    PROVE  After(bytes, 0) = bytes
<1>1. CASE Len(bytes) = 0
  <2>1. bytes = <<>>
    BY <1>1, EmptySeq
  <2> QED BY <1>1, <2>1 DEF After
<1>2. CASE Len(bytes) # 0
  <2>1. Len(bytes) \in Nat /\ ~(0 >= Len(bytes)) /\ 0 + 1 = 1
    BY <1>2
  <2> QED BY <2>1 DEF After
<1> QED BY <1>1, <1>2

-----------------------------------------------------------------------------
(* Steps of the element, and of the driver that leave the caller waiting.  *)

LEMMA DrawInit == AteccInit => DrawInv
<1> SUFFICES ASSUME AteccInit PROVE DrawInv
  OBVIOUS
<1>1. /\ chip = [power |-> "asleep", op |-> "none", out |-> <<>>, answered |-> <<>>]
      /\ driver = [phase |-> "idle", attempt |-> 0, count |-> 0]
      /\ commands = 0
      /\ call = [op |-> "none", wanted |-> 0, buf |-> <<>>, ret |-> 0, taken |-> <<>>, first |-> 1]
  BY DEF AteccInit, Asleep, Resting
<1>2. <<>> \in Seq(Nat) /\ Len(<<>>) = 0 /\ <<>> \in Seq([command : Nat, data : Seq(Nat)])
  OBVIOUS
<1>3. commands \in 0..Len(Draws)
  BY <1>1, AteccAssumption
<1>4. DriverType
  BY <1>1, <1>2, <1>3 DEF DriverType
<1>5. call.taken = <<>> /\ call.buf = <<>> /\ call.wanted = 0 /\ driver.phase = "idle" /\ chip.op = "none"
  BY <1>1
<1>6. ChunkInv /\ BusyInv /\ AnswerInv /\ DoneInv
  BY <1>2, <1>5 DEF ChunkInv, Issued, Placed, BusyInv, AnswerInv, DoneInv
<1> QED BY <1>4, <1>6 DEF DrawInv

LEMMA ExecuteKeeps ==
    ASSUME DrawInv, Execute
    PROVE  DrawInv'
<1>1. PICK data \in Answers(chip.op, commands) : \E bytes \in OnBus(data) :
          chip' = [chip EXCEPT !.op = "none", !.answered = data, !.out = bytes]
  BY DEF Execute
<1>2. PICK bytes \in OnBus(data) : chip' = [chip EXCEPT !.op = "none", !.answered = data, !.out = bytes]
  BY <1>1
<1>3. UNCHANGED <<driver, call, commands>> /\ chip.op # "none"
  BY DEF Execute
<1>4. chip.op \in Ops /\ commands \in 1..Len(Draws) /\ commands \in Nat
  BY <1>3, AteccAssumption DEF DrawInv, DriverType, AnswerInv
<1>5. data \in Seq(Nat)
  BY <1>4, AnswersAre
<1>6. /\ chip'.power = chip.power /\ chip'.op = "none" /\ chip'.out = bytes /\ chip'.answered = data
      /\ chip' = [power |-> chip'.power, op |-> chip'.op, out |-> chip'.out, answered |-> chip'.answered]
  BY <1>2 DEF DrawInv, DriverType
<1>7. DriverType' /\ ChunkInv' /\ BusyInv' /\ DoneInv'
  BY <1>3, <1>5, <1>6 DEF DrawInv, DriverType, ChunkInv, BusyInv, DoneInv
<1>8. driver.phase # "counted"
  BY <1>3 DEF DrawInv, AnswerInv
<1>9. driver.phase = "polling" => \E b : \E d : OnItsWay(d, b)' /\ chip'.out = After(b, d)
  <2>1. SUFFICES ASSUME driver.phase = "polling" PROVE OnItsWay(0, bytes)' /\ chip'.out = After(bytes, 0)
    OBVIOUS
  <2>2. chip.op = call.op
    BY <1>3, <2>1 DEF DrawInv, AnswerInv
  <2>3. PICK S : bytes \in Seq(S)
    BY <1>5, PacketIsSeq
  <2>4. 0 \in 0..Len(bytes)
    BY <2>3
  <2> QED BY <1>1, <1>2, <1>3, <1>6, <2>2, <2>3, <2>4, AfterNothing DEF OnItsWay
<1>10. AnswerInv'
  BY <1>3, <1>6, <1>8, <1>9 DEF DrawInv, AnswerInv
<1> QED BY <1>7, <1>10 DEF DrawInv

LEMMA FallAsleepKeeps ==
    ASSUME DrawInv, FallAsleep
    PROVE  DrawInv'
<1>1. chip' = [power |-> "asleep", op |-> "none", out |-> <<>>, answered |-> <<>>] /\ UNCHANGED <<driver, call, commands>>
  BY DEF FallAsleep, Asleep
<1>2. chip'.op = "none" /\ chip'.power = "asleep" /\ chip'.answered = <<>> /\ <<>> \in Seq(Nat)
  BY <1>1
<1>3. DriverType' /\ ChunkInv' /\ BusyInv' /\ DoneInv'
  BY <1>1, <1>2 DEF DrawInv, DriverType, ChunkInv, BusyInv, DoneInv
<1>4. AnswerInv'
  BY <1>1, <1>2 DEF DrawInv, AnswerInv, Listening
<1> QED BY <1>3, <1>4 DEF DrawInv

\* Waking changes what there is to read, not what the element executes.
LEMMA WokenIs ==
    ASSUME NEW c, c = [power |-> c.power, op |-> c.op, out |-> c.out, answered |-> c.answered], c.answered \in Seq(Nat)
    PROVE  /\ Woken(c).op = c.op /\ Woken(c).answered \in Seq(Nat)
           /\ Woken(c) = [power |-> Woken(c).power, op |-> Woken(c).op, out |-> Woken(c).out, answered |-> Woken(c).answered]
<1>1. CASE c.power = "asleep"
  <2>1. Woken(c) = [c EXCEPT !.power = "awake", !.out = WakeAnswer, !.answered = SubSeq(WakeAnswer, 2, 2)]
    BY <1>1 DEF Woken
  <2>2. \A i \in 2..2 : WakeAnswer[i] \in Nat
    BY DEF WakeAnswer
  <2>3. SubSeq(WakeAnswer, 2, 2) \in Seq(Nat)
    BY <2>2, SubSeqProperties
  <2> HIDE DEF WakeAnswer
  <2> QED BY <2>1, <2>3
<1>2. CASE c.power # "asleep"
  BY <1>2 DEF Woken
<1> QED BY <1>1, <1>2

LEMMA CallKeeps ==
    ASSUME DrawInv, NEW op \in Ops, NEW n \in Nat \ {0}, Call(op, n)
    PROVE  DrawInv'
<1>1. /\ call' = [op |-> op, wanted |-> n, buf |-> <<>>, ret |-> 0, taken |-> <<>>, first |-> commands + 1]
      /\ driver' = [phase |-> "woken", attempt |-> 0, count |-> 0]
      /\ chip' = Woken(chip) /\ commands' = commands
  BY DEF Call, Started
<1>2. commands \in Nat /\ commands \in 0..Len(Draws)
  BY AteccAssumption DEF DrawInv, DriverType
<1>3. <<>> \in Seq(Nat) /\ Len(<<>>) = 0 /\ <<>> \in Seq([command : Nat, data : Seq(Nat)])
  OBVIOUS
<1>4. /\ call'.op = op /\ call'.wanted = n /\ call'.buf = <<>> /\ call'.ret = 0 /\ call'.taken = <<>>
      /\ call'.first = commands + 1 /\ driver'.phase = "woken"
  BY <1>1
<1>5. chip'.op = chip.op /\ chip'.answered \in Seq(Nat)
      /\ chip' = [power |-> chip'.power, op |-> chip'.op, out |-> chip'.out, answered |-> chip'.answered]
  BY <1>1, WokenIs DEF DrawInv, DriverType
<1>6. DriverType'
  BY <1>1, <1>2, <1>3, <1>5 DEF DrawInv, DriverType
<1>7. ChunkInv' /\ DoneInv'
  BY <1>3, <1>4 DEF ChunkInv, Issued, Placed, DoneInv
<1>8. BusyInv'
  <2>1. AnswerLength[op] \in Nat
    BY Sizes
  <2>2. (Len(call.taken) * AnswerLength[call.op])' = 0
    BY <1>3, <1>4, <2>1
  <2> QED BY <1>1, <1>2, <1>3, <1>4, <2>2 DEF BusyInv
<1>9. AnswerInv'
  BY <1>1, <1>4, <1>5 DEF DrawInv, AnswerInv
<1> QED BY <1>6, <1>7, <1>8, <1>9 DEF DrawInv

LEMMA TransmitKeeps ==
    ASSUME DrawInv, Transmit
    PROVE  DrawInv'
<1>1. /\ driver.phase = "woken" /\ commands < Len(Draws) /\ chip.op = "none"
      /\ chip' = [chip EXCEPT !.op = call.op, !.out = <<>>, !.answered = <<>>]
      /\ driver' = [driver EXCEPT !.phase = "polling"]
      /\ commands' = commands + 1 /\ call' = call
  BY DEF Transmit, Listening
<1>2. commands \in Nat /\ Len(Draws) \in Nat /\ commands' \in 1..Len(Draws)
  BY <1>1, AteccAssumption DEF DrawInv, DriverType
<1>3. call.op \in Ops /\ call.op # "none" /\ call.first <= commands' /\ call.first \in Nat /\ call.taken \in Seq([command : Nat, data : Seq(Nat)])
  BY <1>1, AteccAssumption DEF DrawInv, DriverType, BusyInv, Ops
<1>4. chip'.op = call.op /\ chip'.answered \in Seq(Nat)
      /\ chip' = [power |-> chip'.power, op |-> chip'.op, out |-> chip'.out, answered |-> chip'.answered]
      /\ driver'.phase = "polling"
      /\ driver' = [phase |-> driver'.phase, attempt |-> driver'.attempt, count |-> driver'.count]
  <2>1. <<>> \in Seq(Nat)
    OBVIOUS
  <2>2. /\ chip = [power |-> chip.power, op |-> chip.op, out |-> chip.out, answered |-> chip.answered]
        /\ driver = [phase |-> driver.phase, attempt |-> driver.attempt, count |-> driver.count]
    BY DEF DrawInv, DriverType
  <2>3. chip'.op = call.op /\ chip'.answered = <<>> /\ driver'.phase = "polling"
    BY <1>1, <2>2
  <2> QED BY <1>1, <2>1, <2>2, <2>3
<1>5. DriverType'
  BY <1>1, <1>2, <1>3, <1>4 DEF DrawInv, DriverType
<1>6. ChunkInv'
  <2>1. \A i \in 1..Len(call.taken) : call.taken[i].command \in call.first..commands
    BY DEF DrawInv, ChunkInv, Issued
  <2>2. \A i \in 1..Len(call.taken) : call.taken[i].command \in call.first..commands'
    BY <1>1, <1>2, <1>3, <2>1
  <2> QED BY <1>1, <2>2 DEF DrawInv, ChunkInv, Issued
<1>7. BusyInv' /\ DoneInv'
  BY <1>1, <1>2, <1>3, <1>4 DEF DrawInv, BusyInv, DoneInv
<1>8. \A i \in 1..Len(call.taken) : call.taken[i].command < commands'
  BY <1>1, <1>2, <1>3 DEF DrawInv, ChunkInv, Issued
<1>9. commands' \in call.first..Len(Draws)
  BY <1>2, <1>3
<1>10. AnswerInv'
  BY <1>1, <1>2, <1>3, <1>4, <1>8, <1>9 DEF AnswerInv, Listening
<1> QED BY <1>5, <1>6, <1>7, <1>10 DEF DrawInv

-----------------------------------------------------------------------------
(* Steps that end a command.                                               *)

Chunks == Seq([command : Nat, data : Seq(Nat)])

LEMMA OneBehindOther ==
    ASSUME NEW s \in Seq(Nat), NEW u \in Seq(Nat)
    PROVE  /\ s \o u \in Seq(Nat) /\ Len(s \o u) = Len(s) + Len(u)
           /\ \A i \in 1..Len(s) : (s \o u)[i] = s[i]
           /\ \A j \in 1..Len(u) : (s \o u)[Len(s) + j] = u[j]
OBVIOUS

LEMMA OneMore ==
    ASSUME NEW taken \in Chunks, NEW chunk \in [command : Nat, data : Seq(Nat)]
    PROVE  /\ Append(taken, chunk) \in Chunks /\ Len(Append(taken, chunk)) = Len(taken) + 1 /\ Len(taken) \in Nat
           /\ \A i \in 1..Len(taken) : Append(taken, chunk)[i] = taken[i]
           /\ Append(taken, chunk)[Len(taken) + 1] = chunk
BY DEF Chunks

LEMMA InChunk ==
    ASSUME NEW a \in Nat, NEW b \in Nat, NEW size \in Nat, a + size <= b, NEW j \in 1..size
    PROVE  a + j \in 1..b
OBVIOUS

\* What is put behind whole chunks leaves them in their places.
LEMMA PlacedStay ==
    ASSUME NEW size \in Nat \ {0}, NEW wanted, NEW taken \in Chunks, NEW buf \in Seq(Nat), NEW u \in Seq(Nat),
           Len(buf) = Len(taken) * size, Placed(size, wanted, buf, taken)
    PROVE  Placed(size, wanted, buf \o u, taken)
<1> DEFINE all == buf \o u
<1>1. \A i \in 1..Len(buf) : all[i] = buf[i]
  BY OneBehindOther
<1> HIDE DEF all
<1>2. PICK t \in Nat : t = Len(taken)
  BY DEF Chunks
<1>3. ASSUME NEW i \in 1..t, NEW j \in 1..size
      PROVE  (i - 1) * size + j \in 1..Len(buf)
  <2>1. (i - 1) * size \in Nat /\ (i - 1) * size + size <= t * size /\ t * size \in Nat
    BY ChunksInRow
  <2>2. PICK a \in Nat, b \in Nat : a = (i - 1) * size /\ b = t * size /\ a + size <= b
    BY <2>1
  <2>3. size \in Nat
    OBVIOUS
  <2>4. a + j \in 1..b
    BY <2>2, <2>3, InChunk
  <2> QED BY <1>2, <2>2, <2>4
<1> QED BY <1>1, <1>2, <1>3 DEF Placed, all

\* A chunk put behind the others is in its place, as far as there is room.
LEMMA PlacedGrow ==
    ASSUME NEW size \in Nat \ {0}, NEW wanted \in Nat, NEW taken \in Chunks, NEW buf \in Seq(Nat),
           Len(buf) = Len(taken) * size, Placed(size, wanted, buf, taken),
           NEW chunk \in [command : Nat, data : Seq(Nat)], Len(chunk.data) = size,
           NEW n \in Nat, n <= size, n = size \/ Len(buf) + n = wanted
    PROVE  Placed(size, wanted, buf \o SubSeq(chunk.data, 1, n), Append(taken, chunk))
<1>1. PICK u : u = SubSeq(chunk.data, 1, n)
  OBVIOUS
<1>2. u \in Seq(Nat) /\ Len(u) = n /\ \A j \in 1..n : u[j] = chunk.data[j]
  BY <1>1
<1>3. PICK all : all = buf \o u
  OBVIOUS
<1>4. \A j \in 1..n : all[Len(buf) + j] = u[j]
  BY <1>2, <1>3, OneBehindOther
<1>5. Placed(size, wanted, all, taken)
  BY <1>2, <1>3, PlacedStay
<1>6. PICK t \in Nat : t = Len(taken)
  BY DEF Chunks
<1>7. PICK more : more = Append(taken, chunk)
  OBVIOUS
<1>8. Len(more) = t + 1 /\ (\A i \in 1..t : more[i] = taken[i]) /\ more[t + 1] = chunk
  BY <1>6, <1>7, OneMore
<1>9. ASSUME NEW j \in 1..size, t * size + j <= wanted PROVE all[t * size + j] = chunk.data[j]
  <2>1. PICK b \in Nat : b = t * size /\ b = Len(buf)
    BY <1>6
  <2>2. j \in 1..n
    BY <1>9, <2>1
  <2> QED BY <1>2, <1>4, <2>1, <2>2
<1>10. ASSUME NEW i \in 1..t + 1, NEW j \in 1..size, (i - 1) * size + j <= wanted
       PROVE  all[(i - 1) * size + j] = more[i].data[j]
  <2>1. CASE i = t + 1
    <3>1. i - 1 = t
      BY <2>1
    <3> QED BY <1>8, <1>9, <1>10, <2>1, <3>1
  <2>2. CASE i # t + 1
    <3>1. i \in 1..t
      BY <2>2
    <3> QED BY <1>5, <1>6, <1>8, <1>10, <3>1 DEF Placed
  <2> QED BY <2>1, <2>2
<1> QED BY <1>1, <1>3, <1>7, <1>8, <1>10 DEF Placed

\* And a chunk of a later command may follow.
LEMMA IssuedGrow ==
    ASSUME NEW op, NEW first \in Nat, NEW last \in Nat, NEW taken \in Chunks,
           Issued(op, first, last, taken), first <= last,
           \A i \in 1..Len(taken) : taken[i].command < last,
           NEW chunk \in [command : Nat, data : Seq(Nat)], chunk.command = last,
           op = "random" => chunk.data = Draws[last]
    PROVE  Issued(op, first, last, Append(taken, chunk))
<1>1. PICK t \in Nat : t = Len(taken)
  BY DEF Chunks
<1>2. PICK more : more = Append(taken, chunk)
  OBVIOUS
<1>3. Len(more) = t + 1 /\ (\A i \in 1..t : more[i] = taken[i]) /\ more[t + 1] = chunk
  BY <1>1, <1>2, OneMore
<1>4. ASSUME NEW i \in 1..t + 1
      PROVE  /\ more[i].command \in first..last
             /\ \A k \in 1..i - 1 : more[k].command < more[i].command
             /\ op = "random" => more[i].data = Draws[more[i].command]
  <2>1. \A k \in 1..i - 1 : k \in 1..t
    OBVIOUS
  <2>2. CASE i = t + 1
    BY <1>1, <1>3, <2>1, <2>2
  <2>3. CASE i # t + 1
    <3>1. i \in 1..t
      BY <2>3
    <3> QED BY <1>1, <1>3, <2>1, <3>1 DEF Issued
  <2> QED BY <2>2, <2>3
<1> QED BY <1>2, <1>3, <1>4 DEF Issued

\* A call under way: whole chunks are taken, and their bytes are all there is.
LEMMA Underway ==
    ASSUME DrawInv, driver.phase # "idle"
    PROVE  /\ call.op \in Ops /\ call.ret = 0 /\ AnswerLength[call.op] \in Nat \ {0}
           /\ call.taken \in Chunks /\ call.buf \in Seq(Nat) /\ call.wanted \in Nat /\ call.first \in Nat
           /\ Len(call.buf) \in Nat /\ Len(call.taken) \in Nat
           /\ Len(call.buf) < call.wanted
           /\ Len(call.buf) = Len(call.taken) * AnswerLength[call.op]
           /\ Placed(AnswerLength[call.op], call.wanted, call.buf, call.taken)
           /\ Issued(call.op, call.first, commands, call.taken)
<1>1. /\ call.op \in Ops /\ call.ret = 0 /\ Len(call.buf) < call.wanted
      /\ Len(call.buf) = Len(call.taken) * AnswerLength[call.op]
  BY DEF DrawInv, BusyInv
<1>2. call.taken \in Chunks /\ call.buf \in Seq(Nat) /\ call.wanted \in Nat /\ call.first \in Nat
  BY DEF DrawInv, DriverType, Chunks
<1>3. Len(call.buf) \in Nat /\ Len(call.taken) \in Nat
  BY <1>2 DEF Chunks
<1> QED BY <1>1, <1>2, <1>3, Sizes DEF DrawInv, ChunkInv

LEMMA FailKeeps ==
    ASSUME DrawInv, driver.phase # "idle", UNCHANGED commands,
           NEW ret \in Int \ {0}, NEW data, NEW bytes, Return(ret, data, bytes)
    PROVE  DrawInv'
<1>1. PICK size, t, old, missing :
          /\ size = AnswerLength[call.op] /\ t = Len(call.taken) /\ old = call.buf
          /\ missing = call.wanted - Len(call.buf)
  OBVIOUS
<1>2. /\ size \in Nat \ {0} /\ t \in Nat /\ call.op \in Ops
      /\ call.taken \in Chunks /\ old \in Seq(Nat) /\ call.wanted \in Nat
      /\ Len(old) \in Nat /\ Len(old) < call.wanted /\ Len(old) = t * size
      /\ missing \in Nat /\ Len(old) + missing = call.wanted
  BY <1>1, Underway
<1>3. /\ call' = [call EXCEPT !.buf = old \o Zeros(missing), !.ret = ret]
      /\ driver' = [phase |-> "idle", attempt |-> 0, count |-> 0]
      /\ chip' = [chip EXCEPT !.out = bytes]
  BY <1>1 DEF Return, Resting
<1>4. Zeros(missing) \in Seq(Nat) /\ Len(Zeros(missing)) = missing /\ \A i \in 1..missing : Zeros(missing)[i] = 0
  BY <1>2 DEF Zeros
<1>5. PICK zeros, filled : zeros = Zeros(missing) /\ filled = old \o zeros
  OBVIOUS
<1>6. /\ filled \in Seq(Nat) /\ Len(filled) = call.wanted
      /\ \A k \in 1..call.wanted : k > Len(old) => filled[k] = 0
  <2>1. /\ filled \in Seq(Nat) /\ Len(filled) = Len(old) + missing
        /\ \A j \in 1..missing : filled[Len(old) + j] = 0
    <3>1. zeros \in Seq(Nat) /\ Len(zeros) = missing /\ \A j \in 1..missing : zeros[j] = 0
      BY <1>4, <1>5
    <3>2. old \in Seq(Nat)
      BY <1>2
    <3> QED BY <1>5, <3>1, <3>2, OneBehindOther
  <2>2. ASSUME NEW k \in 1..call.wanted, k > Len(old) PROVE filled[k] = 0
    <3>1. k - Len(old) \in 1..missing /\ Len(old) + (k - Len(old)) = k
      BY <1>2, <2>2
    <3> QED BY <2>1, <3>1
  <2> QED BY <1>2, <2>1, <2>2
<1>7. /\ call'.op = call.op /\ call'.wanted = call.wanted /\ call'.taken = call.taken /\ call'.first = call.first
      /\ call'.buf = filled /\ call'.ret = ret
      /\ driver'.phase = "idle" /\ chip'.op = chip.op
  BY <1>3, <1>5 DEF DrawInv, DriverType
<1>8. DriverType'
  BY <1>3, <1>5, <1>6, <1>7 DEF DrawInv, DriverType
<1>9. ChunkInv'
  <2>1. Placed(size, call.wanted, filled, call.taken)
    BY <1>1, <1>2, <1>4, <1>5, PlacedStay, Underway
  <2> QED BY <1>1, <1>7, <2>1, Underway DEF ChunkInv
<1>10. DoneInv'
  <2>1. call.taken # <<>> => (t - 1) * size < call.wanted
    <3>1. SUFFICES ASSUME call.taken # <<>> PROVE (t - 1) * size < call.wanted
      OBVIOUS
    <3>2. t \in 1..t
      BY <1>1, <1>2, <3>1, EmptySeq DEF Chunks
    <3>3. (t - 1) * size \in Nat /\ (t - 1) * size + size <= t * size
      BY <1>2, <3>2, ChunksInRow
    <3> QED BY <1>2, <3>3
  <2> QED BY <1>1, <1>2, <1>6, <1>7, <2>1 DEF DoneInv
<1>11. BusyInv' /\ AnswerInv'
  BY <1>7 DEF DrawInv, BusyInv, AnswerInv
<1> QED BY <1>8, <1>9, <1>10, <1>11 DEF DrawInv

\* The answer of the last command is taken: it is the next chunk.
LEMMA GiveKeeps ==
    ASSUME DrawInv, driver.phase = "counted", UNCHANGED commands,
           chip.answered \in Answers(call.op, commands),
           Len(chip.answered) = AnswerLength[call.op],
           NEW bytes, Return(0, chip.answered, bytes)
    PROVE  DrawInv'
<1>1. PICK size, t, old, missing, chunk :
          /\ size = AnswerLength[call.op] /\ t = Len(call.taken) /\ old = call.buf
          /\ missing = call.wanted - Len(call.buf)
          /\ chunk = [command |-> commands, data |-> chip.answered]
  OBVIOUS
<1>2. /\ size \in Nat \ {0} /\ t \in Nat /\ call.op \in Ops /\ call.ret = 0
      /\ call.taken \in Chunks /\ old \in Seq(Nat) /\ call.wanted \in Nat
      /\ Len(old) \in Nat /\ Len(old) < call.wanted /\ Len(old) = t * size
      /\ missing \in Nat \ {0} /\ Len(old) + missing = call.wanted
      /\ Len(call.taken) = t /\ call.first \in Nat
  <2>1. /\ size \in Nat \ {0} /\ t \in Nat /\ call.op \in Ops /\ call.ret = 0
        /\ call.taken \in Chunks /\ old \in Seq(Nat) /\ call.wanted \in Nat
        /\ Len(old) \in Nat /\ Len(old) < call.wanted /\ Len(old) = t * size
        /\ call.first \in Nat
    BY <1>1, Underway
  <2>2. PICK have \in Nat, want \in Nat : have = Len(old) /\ want = call.wanted /\ have < want /\ missing = want - have
    BY <1>1, <2>1
  <2>3. missing \in Nat \ {0} /\ have + missing = want
    BY <2>2
  <2> QED BY <1>1, <2>1, <2>2, <2>3
<1>3. /\ commands \in call.first..Len(Draws) /\ commands \in 1..Len(Draws) /\ commands \in Nat
      /\ \A i \in 1..t : call.taken[i].command < commands
      /\ chip.op = "none"
  <2>1. /\ commands \in call.first..Len(Draws) /\ commands > 0 /\ chip.op = "none"
        /\ \A i \in 1..Len(call.taken) : call.taken[i].command < commands
    BY DEF DrawInv, AnswerInv
  <2>2. commands \in 0..Len(Draws) /\ Len(Draws) \in Nat
    BY AteccAssumption DEF DrawInv, DriverType
  <2>3. commands \in Nat /\ commands \in 1..Len(Draws)
    BY <2>1, <2>2
  <2> QED BY <1>1, <2>1, <2>3
<1>4. /\ chip.answered \in Seq(Nat) /\ Len(chip.answered) = size
      /\ call.op = "random" => chip.answered = Draws[commands]
  BY <1>1, <1>2, <1>3, AnswersAre
<1>5. /\ chunk \in [command : Nat, data : Seq(Nat)] /\ chunk.command = commands
      /\ chunk.data = chip.answered /\ Len(chunk.data) = size
      /\ call.op = "random" => chunk.data = Draws[commands]
  BY <1>1, <1>3, <1>4
<1>6. PICK n \in Nat : /\ n = (IF missing < size THEN missing ELSE size)
                       /\ n <= size /\ n <= missing /\ n # 0
                       /\ n = size \/ Len(old) + n = call.wanted
                       /\ n < missing => n = size
  BY <1>2
<1>7. PICK more, all : more = Append(call.taken, chunk) /\ all = old \o SubSeq(chunk.data, 1, n)
  OBVIOUS
<1>8. /\ call' = [call EXCEPT !.buf = all, !.taken = more]
      /\ n < missing => driver' = Started /\ chip' = Woken([chip EXCEPT !.out = bytes])
      /\ ~(n < missing) => driver' = Resting /\ chip' = [chip EXCEPT !.out = bytes]
  <2>1. (IF missing < Len(chip.answered) THEN missing ELSE Len(chip.answered)) = n
    BY <1>4, <1>6
  <2> QED BY <1>1, <1>5, <1>7, <2>1 DEF Return
<1>9. /\ more \in Chunks /\ Len(more) = t + 1 /\ more[t + 1] = chunk
  BY <1>2, <1>5, <1>7, OneMore
<1>10. all \in Seq(Nat) /\ Len(all) = Len(old) + n
  <2>1. PICK u : u = SubSeq(chunk.data, 1, n)
    OBVIOUS
  <2>2. PICK data \in Seq(Nat) : data = chunk.data /\ Len(data) = size
    BY <1>5
  <2>3. u \in Seq(Nat) /\ Len(u) = n
    <3>1. n \in Nat /\ n <= size
      BY <1>6
    <3> QED BY <2>1, <2>2, <3>1
  <2>4. old \in Seq(Nat) /\ all = old \o u
    BY <1>2, <1>7, <2>1
  <2> QED BY <2>3, <2>4, OneBehindOther
<1>11. /\ call'.op = call.op /\ call'.wanted = call.wanted /\ call'.taken = more /\ call'.first = call.first
       /\ call'.buf = all /\ call'.ret = 0
       /\ call' \in [op : Ops \cup {"none"}, wanted : Nat, buf : Seq(Nat), ret : Int, taken : Chunks, first : Nat \ {0}]
  BY <1>2, <1>8, <1>9, <1>10 DEF DrawInv, DriverType, Chunks
<1>12. Placed(size, call.wanted, all, more) /\ Issued(call.op, call.first, commands, more)
  <2>1. Placed(size, call.wanted, old, call.taken) /\ Issued(call.op, call.first, commands, call.taken)
    BY <1>1, Underway
  <2>2. Placed(size, call.wanted, all, more)
    BY <1>2, <1>5, <1>6, <1>7, <2>1, PlacedGrow
  <2>3. Issued(call.op, call.first, commands, more)
    <3>1. PICK last \in Nat : last = commands /\ call.first <= last /\ \A i \in 1..Len(call.taken) : call.taken[i].command < last
      BY <1>2, <1>3
    <3>2. chunk.command = last /\ (call.op = "random" => chunk.data = Draws[last])
      BY <1>5, <3>1
    <3>3. Issued(call.op, call.first, last, call.taken)
      BY <2>1, <3>1
    <3>4. Issued(call.op, call.first, last, more)
      BY <1>2, <1>5, <1>7, <3>1, <3>2, <3>3, IssuedGrow
    <3> QED BY <3>1, <3>4
  <2> QED BY <2>2, <2>3
<1>13. ChunkInv'
  BY <1>1, <1>11, <1>12 DEF ChunkInv
<1>14. PICK left : left = [chip EXCEPT !.out = bytes]
  OBVIOUS
<1>15. /\ left = [power |-> left.power, op |-> left.op, out |-> left.out, answered |-> left.answered]
       /\ left.op = "none" /\ left.answered \in Seq(Nat)
  BY <1>3, <1>4, <1>14 DEF DrawInv, DriverType
<1>16. /\ Woken(left) = [power |-> Woken(left).power, op |-> Woken(left).op, out |-> Woken(left).out, answered |-> Woken(left).answered]
       /\ Woken(left).op = "none" /\ Woken(left).answered \in Seq(Nat)
  BY <1>15, WokenIs
<1>17. /\ chip' = [power |-> chip'.power, op |-> chip'.op, out |-> chip'.out, answered |-> chip'.answered]
       /\ chip'.op = "none" /\ chip'.answered \in Seq(Nat)
       /\ driver' = [phase |-> driver'.phase, attempt |-> driver'.attempt, count |-> driver'.count]
       /\ driver'.phase = IF n < missing THEN "woken" ELSE "idle"
  BY <1>8, <1>14, <1>15, <1>16 DEF Started, Resting
<1>18. DriverType'
  BY <1>11, <1>17 DEF DrawInv, DriverType, Chunks
<1>19. AnswerInv'
  BY <1>17 DEF AnswerInv
<1>20. BusyInv'
  <2>1. SUFFICES ASSUME n < missing PROVE Len(all) = Len(more) * size /\ Len(all) < call.wanted /\ call.first <= commands + 1
    BY <1>1, <1>2, <1>11, <1>17 DEF BusyInv
  <2>2. Len(all) = t * size + size /\ (t + 1) * size = t * size + size
    BY <1>2, <1>6, <1>10, <2>1, ChunksInRow
  <2>3. Len(all) < call.wanted
    BY <1>2, <1>6, <1>10, <2>1
  <2>4. call.first <= commands + 1
    BY <1>2, <1>3
  <2> QED BY <1>9, <2>2, <2>3, <2>4
<1>21. DoneInv'
  <2>1. SUFFICES ASSUME ~(n < missing)
                 PROVE  /\ Len(all) = call.wanted
                        /\ \A k \in 1..call.wanted : ~(k > Len(more) * size)
                        /\ (Len(more) - 1) * size < call.wanted
                        /\ more[Len(more)].command = commands
    BY <1>1, <1>11, <1>17 DEF DoneInv
  <2>2. (t + 1) * size = t * size + size
    BY <1>2, ChunksInRow
  <2>3. PICK b \in Nat : b = t * size
    BY <1>2
  <2>4. Len(old) = b /\ Len(all) = b + n /\ n = missing /\ b + missing = call.wanted /\ b < call.wanted
    BY <1>2, <1>6, <1>10, <2>1, <2>3
  <2>5. Len(more) * size = b + size /\ (Len(more) - 1) * size = b
    <3>1. Len(more) - 1 = t
      BY <1>2, <1>9
    <3> QED BY <1>9, <2>2, <2>3, <3>1
  <2>6. \A k \in 1..call.wanted : ~(k > b + size)
    BY <1>2, <1>6, <2>4
  <2> QED BY <1>5, <1>9, <2>4, <2>5, <2>6
<1> QED BY <1>13, <1>18, <1>19, <1>20, <1>21 DEF DrawInv

-----------------------------------------------------------------------------
(* The polling loop.                                                       *)

LEMMA RetryKeeps ==
    ASSUME DrawInv, driver.phase = "polling", UNCHANGED commands,
           NEW out, Retry(out),
           Listening => \E bytes : \E d : OnItsWay(d, bytes) /\ out = After(bytes, d)
    PROVE  DrawInv'
<1>1. CASE driver.attempt + 1 < Attempts
  <2>1. driver' = [driver EXCEPT !.attempt = @ + 1] /\ chip' = [chip EXCEPT !.out = out] /\ call' = call
    BY <1>1 DEF Retry
  <2>2. /\ chip'.power = chip.power /\ chip'.op = chip.op /\ chip'.answered = chip.answered /\ chip'.out = out
        /\ chip' = [power |-> chip'.power, op |-> chip'.op, out |-> chip'.out, answered |-> chip'.answered]
        /\ driver'.phase = "polling"
        /\ driver' = [phase |-> driver'.phase, attempt |-> driver'.attempt, count |-> driver'.count]
    BY <2>1 DEF DrawInv, DriverType
  <2>3. DriverType' /\ ChunkInv' /\ BusyInv' /\ DoneInv'
    BY <2>1, <2>2 DEF DrawInv, DriverType, ChunkInv, BusyInv, DoneInv
  <2>4. AnswerInv'
    <3>1. Listening' => \E bytes : \E d : OnItsWay(d, bytes)' /\ chip'.out = After(bytes, d)
      BY <2>1, <2>2 DEF Listening, OnItsWay
    <3> QED BY <2>1, <2>2, <3>1 DEF DrawInv, AnswerInv
  <2> QED BY <2>3, <2>4 DEF DrawInv
<1>2. CASE ~(driver.attempt + 1 < Attempts)
  <2>1. Return(-1, <<>>, out) /\ -1 \in Int \ {0} /\ driver.phase # "idle"
    BY <1>2 DEF Retry
  <2> QED BY <2>1, FailKeeps
<1> QED BY <1>1, <1>2

LEMMA PollFailsKeeps ==
    ASSUME DrawInv, PollFails
    PROVE  DrawInv'
<1>1. Listening => \E bytes : \E d : OnItsWay(d, bytes) /\ chip.out = After(bytes, d)
  BY DEF PollFails, DrawInv, AnswerInv
<1> QED BY <1>1, RetryKeeps DEF PollFails

LEMMA ReceiveCountKeeps ==
    ASSUME DrawInv, ReceiveCount
    PROVE  DrawInv'
<1>1. driver.phase = "polling" /\ Listening /\ UNCHANGED commands
  BY DEF ReceiveCount
<1>2. PICK bytes, d : OnItsWay(d, bytes) /\ chip.out = After(bytes, d)
  BY <1>1 DEF DrawInv, AnswerInv
<1>3. PICK count : count = Read(chip.out, 1)[1]
  OBVIOUS
<1>4. CASE ~IsCount(count)
  <2>1. Retry(After(chip.out, 1))
    BY <1>3, <1>4 DEF ReceiveCount
  <2>2. PICK S : bytes \in Seq(S)
    BY <1>2, PacketIsSeq DEF OnItsWay, DrawInv, DriverType
  <2>3. PICK e \in 0..Len(bytes) : After(chip.out, 1) = After(bytes, e)
    BY <1>2, <2>2, AfterAfter DEF OnItsWay
  <2>4. OnItsWay(e, bytes)
    BY <1>2, <2>3 DEF OnItsWay
  <2> QED BY <1>1, <2>1, <2>3, <2>4, RetryKeeps
<1>5. CASE IsCount(count)
  <2>1. /\ driver' = [driver EXCEPT !.phase = "counted", !.count = count]
        /\ chip' = [chip EXCEPT !.out = After(@, 1)] /\ call' = call
    BY <1>3, <1>5 DEF ReceiveCount
  <2>2. /\ chip'.power = chip.power /\ chip'.op = "none" /\ chip'.answered = chip.answered
        /\ chip'.out = After(After(bytes, d), 1)
        /\ chip' = [power |-> chip'.power, op |-> chip'.op, out |-> chip'.out, answered |-> chip'.answered]
        /\ driver'.phase = "counted" /\ driver'.count = count
        /\ driver' = [phase |-> driver'.phase, attempt |-> driver'.attempt, count |-> driver'.count]
        /\ chip.op = "none"
    BY <1>1, <1>2, <2>1 DEF DrawInv, DriverType, Listening
  <2>3. DriverType' /\ ChunkInv' /\ BusyInv' /\ DoneInv'
    BY <1>1, <2>1, <2>2 DEF DrawInv, DriverType, ChunkInv, BusyInv, DoneInv
  <2>4. OnItsWay(d, bytes)' /\ driver'.count = Read(After(bytes, d), 1)[1]
    BY <1>1, <1>2, <1>3, <2>1, <2>2 DEF OnItsWay
  <2>5. AnswerInv'
    BY <1>1, <1>5, <2>1, <2>2, <2>4 DEF DrawInv, AnswerInv
  <2> QED BY <2>3, <2>5 DEF DrawInv
<1> QED BY <1>4, <1>5

\* An answer whose sum fits and whose length is right is the element's.
LEMMA ReceiveRestKeeps ==
    ASSUME DrawInv, ReceiveRest
    PROVE  DrawInv'
<1>1. driver.phase = "counted" /\ Listening /\ UNCHANGED commands
  BY DEF ReceiveRest
<1>2. PICK bytes, d : /\ OnItsWay(d, bytes) /\ driver.count = Read(After(bytes, d), 1)[1]
                      /\ chip.out = After(After(bytes, d), 1)
  BY <1>1 DEF DrawInv, AnswerInv
<1>3. /\ IsCount(driver.count) /\ commands \in 1..Len(Draws)
  BY <1>1, Underway, AteccAssumption DEF DrawInv, AnswerInv
<1>4. PICK resp, n, left : /\ resp = Read(chip.out, driver.count - 1) /\ n = AnswerLength[call.op]
                           /\ left = After(chip.out, driver.count - 1)
  OBVIOUS
<1>5. PICK ret : ret = Verdict(driver.count, resp, n)
  OBVIOUS
<1>6. Return(ret, IF ret = 0 THEN SubSeq(resp, 1, n) ELSE <<>>, left)
  BY <1>4, <1>5 DEF ReceiveRest
<1>7. CASE ret # 0
  <2>1. ret \in Int \ {0}
    BY <1>5, <1>7 DEF Verdict
  <2> QED BY <1>1, <1>6, <2>1, FailKeeps
<1>8. CASE ret = 0
  <2>1. SumFits(driver.count, resp) /\ driver.count - 3 = n
    BY <1>5, <1>8 DEF Verdict
  <2>2. call.op \in Ops
    BY <1>1, Underway
  <2>3. SubSeq(resp, 1, n) = chip.answered /\ Len(chip.answered) = n
    BY <1>2, <1>3, <1>4, <2>1, <2>2, ChecksumTells DEF OnItsWay, Ops
  <2>4. Return(0, chip.answered, left)
    BY <1>6, <1>8, <2>3
  <2>5. chip.answered \in Answers(call.op, commands) /\ Len(chip.answered) = AnswerLength[call.op]
    BY <1>2, <1>4, <2>3 DEF OnItsWay
  <2> QED BY <1>1, <2>4, <2>5, GiveKeeps
<1> QED BY <1>7, <1>8

LEMMA DrawStep == DrawInv /\ [AteccNext]_ateccVars => DrawInv'
<1> SUFFICES ASSUME DrawInv, [AteccNext]_ateccVars PROVE DrawInv'
  OBVIOUS
<1>1. CASE UNCHANGED ateccVars
  BY <1>1 DEF ateccVars, DrawInv, DriverType, ChunkInv, BusyInv, AnswerInv, DoneInv, OnItsWay, Listening
<1>2. CASE Execute
  BY <1>2, ExecuteKeeps
<1>3. CASE FallAsleep
  BY <1>3, FallAsleepKeeps
<1>4. ASSUME NEW n \in Wanted, RandomBuffer(n) PROVE DrawInv'
  <2>1. n \in Nat \ {0} /\ "random" \in Ops
    BY AteccAssumption DEF Ops
  <2> QED BY <1>4, <2>1, CallKeeps DEF RandomBuffer
<1>5. ASSUME NEW op \in DOMAIN AnswerLength, Ask(op) PROVE DrawInv'
  BY <1>5, Sizes, CallKeeps DEF Ask, Ops
<1>6. CASE Transmit
  BY <1>6, TransmitKeeps
<1>7. CASE TransmitFails
  <2>1. -1 \in Int \ {0} /\ driver.phase # "idle" /\ UNCHANGED commands /\ Return(-1, <<>>, chip.out)
    BY <1>7 DEF TransmitFails
  <2> QED BY <2>1, FailKeeps
<1>8. CASE PollFails
  BY <1>8, PollFailsKeeps
<1>9. CASE ReceiveCount
  BY <1>9, ReceiveCountKeeps
<1>10. CASE ReceiveRest
  BY <1>10, ReceiveRestKeeps
<1>11. CASE ReceiveFails
  <2>1. -1 \in Int \ {0} /\ driver.phase # "idle" /\ UNCHANGED commands /\ Return(-1, <<>>, chip.out)
    BY <1>11 DEF ReceiveFails
  <2> QED BY <2>1, FailKeeps
<1> QED BY <1>1, <1>2, <1>3, <1>4, <1>5, <1>6, <1>7, <1>8, <1>9, <1>10, <1>11 DEF AteccNext

-----------------------------------------------------------------------------
(* What the callers get.                                                   *)

\* A random number in one piece, mixed with the clocks and mixed again, is
\* what the last command drew.
LEMMA MixedTwice ==
    ASSUME NEW draw \in Seq(Bytes), NEW key \in Keys, Len(draw) = AnswerLength["random"]
    PROVE  LET salt == MixEntropy(SubSeq(draw, 1, SaltLength), key)
           IN MixEntropy(salt, key) = SubSeq(draw, 1, SaltLength)
<1>1. PICK n \in Nat \ {0} : n = SaltLength /\ n <= Len(draw) /\ key \in [1..n -> Bytes]
  BY AteccAssumption
<1>2. PICK rnd : rnd = SubSeq(draw, 1, n)
  OBVIOUS
<1>3. rnd \in Seq(Bytes) /\ Len(rnd) = n
  BY <1>1, <1>2
<1>4. \A i \in 1..n : rnd[i] \in Bytes /\ key[i] \in Bytes
  BY <1>1, <1>3
<1>5. PICK salt : salt = [i \in 1..n |-> Xor(rnd[i], key[i])]
  OBVIOUS
<1>6. MixEntropy(rnd, key) = salt
  BY <1>3, <1>5 DEF MixEntropy
<1>7. salt \in [1..n -> Bytes]
  BY <1>4, <1>5, XorTwice
<1>8. salt \in Seq(Bytes) /\ Len(salt) = n
  BY <1>1, <1>7
<1>9. MixEntropy(salt, key) = [i \in 1..n |-> Xor(Xor(rnd[i], key[i]), key[i])]
  BY <1>5, <1>8 DEF MixEntropy
<1>10. MixEntropy(salt, key) = [i \in 1..n |-> rnd[i]]
  BY <1>4, <1>9, XorTwice
<1>11. rnd = [i \in 1..n |-> rnd[i]]
  BY <1>3
<1> QED BY <1>1, <1>2, <1>6, <1>10, <1>11

LEMMA DrawServes == DrawInv /\ driver.phase = "idle" => CallerServed
<1> SUFFICES ASSUME DrawInv, driver.phase = "idle" PROVE CallerServed
  OBVIOUS
<1>1. PICK size, t : size = AnswerLength[call.op] /\ t = Len(call.taken)
  OBVIOUS
<1>2. t \in Nat
  BY <1>1 DEF DrawInv, DriverType
<1>3. \A i : Start(i) = (i - 1) * size
  BY <1>1 DEF Start
<1>4. Start(t + 1) = t * size
  <2>1. (t + 1) - 1 = t
    BY <1>2
  <2> QED BY <1>3, <2>1
<1>5. /\ Len(call.buf) = call.wanted
      /\ \A k \in 1..call.wanted : k > t * size => call.ret # 0 /\ call.buf[k] = 0
  BY <1>1 DEF DrawInv, DoneInv
<1>6. Issued(call.op, call.first, commands, call.taken) /\ Placed(size, call.wanted, call.buf, call.taken)
  BY <1>1 DEF DrawInv, ChunkInv
<1>7. ASSUME NEW i \in 1..t
      PROVE  /\ call.taken[i].command \in call.first..commands
             /\ \A k \in 1..i - 1 : call.taken[k].command < call.taken[i].command
             /\ call.op = "random" => call.taken[i].data = Draws[call.taken[i].command]
             /\ \A j \in 1..size : Start(i) + j <= call.wanted => call.buf[Start(i) + j] = call.taken[i].data[j]
  BY <1>1, <1>3, <1>6 DEF Issued, Placed
<1> QED BY <1>1, <1>4, <1>5, <1>7 DEF CallerServed

LEMMA DrawGivesSalt == DrawInv /\ driver.phase = "idle" => SaltAsDrawn
<1> SUFFICES ASSUME DrawInv, driver.phase = "idle", call.op = "random", call.wanted = AnswerLength["random"],
                    NEW key \in Keys
             PROVE  LET salt == GetSalt(call.ret, call.buf, key)
                    IN IF call.ret # 0 THEN salt = <<>>
                       ELSE MixEntropy(salt, key) = SubSeq(Draws[commands], 1, SaltLength)
  BY DEF SaltAsDrawn
<1>1. CASE call.ret # 0
  BY <1>1 DEF GetSalt
<1>2. CASE call.ret = 0
  <2>1. PICK size, t : size = AnswerLength["random"] /\ t = Len(call.taken)
    OBVIOUS
  <2>2. size \in Nat \ {0} /\ t \in Nat /\ call.taken \in Chunks /\ call.buf \in Seq(Nat) /\ Len(call.buf) = size
    BY <2>1, AteccAssumption DEF DrawInv, DriverType, DoneInv, Chunks
  <2>3. \A k \in 1..size : ~(k > t * size)
    BY <1>2, <2>1 DEF DrawInv, DoneInv
  <2>4. t # 0
    BY <2>2, <2>3
  <2>5. call.taken # <<>> /\ (t - 1) * size < size /\ call.taken[t].command = commands
    <3>1. call.taken # <<>>
      BY <2>1, <2>4
    <3> QED BY <1>2, <2>1, <3>1 DEF DrawInv, DoneInv
  <2>6. t = 1
    <3>1. CASE t - 1 \in Nat \ {0}
      <4>1. PICK r \in Nat \ {0} : r = t - 1
        BY <3>1
      <4>2. r * size >= size
        BY <2>2
      <4> QED BY <2>2, <2>5, <4>1, <4>2
    <3> QED BY <2>2, <2>4, <3>1
  <2>7. PICK draw : draw = Draws[commands]
    OBVIOUS
  <2>8. call.taken[1].command = commands /\ call.taken[1].data = draw /\ commands \in 1..Len(Draws)
    <3>1. 1 \in 1..Len(call.taken)
      BY <2>1, <2>6
    <3>2. call.taken[1].data = Draws[call.taken[1].command] /\ call.taken[1].command \in call.first..commands
      BY <3>1 DEF DrawInv, ChunkInv, Issued
    <3>3. call.taken[1].command = commands
      BY <2>5, <2>6
    <3>4. commands \in 0..Len(Draws) /\ Len(Draws) \in Nat /\ call.first \in Nat \ {0}
      BY AteccAssumption DEF DrawInv, DriverType
    <3>5. commands \in call.first..commands
      BY <3>2, <3>3
    <3>6. commands \in 1..Len(Draws)
      BY <3>4, <3>5
    <3> QED BY <2>7, <3>2, <3>3, <3>6
  <2>9. draw \in Seq(Bytes) /\ Len(draw) = size
    BY <2>1, <2>7, <2>8, AteccAssumption
  <2>10. \A j \in 1..size : call.buf[j] = draw[j]
    <3>1. ASSUME NEW j \in 1..size PROVE call.buf[j] = draw[j]
      <4>1. 1 \in 1..Len(call.taken) /\ (1 - 1) * size + j = j /\ j <= call.wanted
        BY <2>1, <2>2, <2>6
      <4>2. call.buf[(1 - 1) * size + j] = call.taken[1].data[j]
        BY <2>1, <4>1 DEF DrawInv, ChunkInv, Placed
      <4> QED BY <2>8, <4>1, <4>2
    <3> QED BY <3>1
  <2>11. call.buf = draw
    BY <2>2, <2>9, <2>10, SeqEqual
  <2>12. GetSalt(call.ret, call.buf, key) = MixEntropy(SubSeq(draw, 1, SaltLength), key)
    BY <1>2, <2>11 DEF GetSalt
  <2> QED BY <1>2, <2>1, <2>7, <2>9, <2>12, MixedTwice
<1> QED BY <1>1, <1>2

\* Whatever bits the bus turns, however long the answers take and whenever the
\* element sleeps, refuses or answers something else (atecc_cmd,
\* random_buffer): once nothing is under way, the last caller holds what the
\* element answered to its own commands, chunk behind chunk, or knows that it
\* does not; and the salt of main.c is what was drawn.
THEOREM RandomAsDrawnHolds == AteccSpec => []RandomAsDrawn
<1>1. DrawInv => RandomAsDrawn
  BY DrawServes, DrawGivesSalt DEF RandomAsDrawn
<1> QED BY <1>1, DrawInit, DrawStep, PTL DEF AteccSpec
=============================================================================

----------------------------- MODULE EdgeProofs -----------------------------
(***************************************************************************)
(* The dispatch of requests, the PIN wheel and the buttons, proved for     *)
(* every table of handlers, every number of digits and of buttons, every   *)
(* length, debounce, threshold and width of the tick; and all the edges    *)
(* together, as Edges composes them.                                       *)
(***************************************************************************)
EXTENDS Edges, FrameProofs, ElementProofs, FiniteSetTheorems

-----------------------------------------------------------------------------
(* Requests.                                                               *)

Routes == [ins : Instructions, h : Handlers]

\* A table holds what the map holds: no instruction twice, and each with its
\* handler.
Holds(table, map) ==
    /\ \A i, j \in 1..Len(table) : table[i].ins = table[j].ins => i = j
    /\ DOMAIN map = {table[i].ins : i \in 1..Len(table)}
    /\ \A i \in 1..Len(table) : map[table[i].ins] = table[i].h

(* The table of routes is the map of the handlers registered last, and is  *)
(* full when that map is.                                                  *)
RoutesInv ==
    /\ routes \in Seq(Routes)
    /\ Holds(routes, registered)
    /\ IsFiniteSet(DOMAIN registered) /\ Cardinality(DOMAIN registered) = Len(routes)

ApduInv == RoutesInv /\ ApduAnswered

LEMMA FindHandlerIs ==
    ASSUME NEW table \in Seq(Routes), NEW map, Holds(table, map), NEW ins
    PROVE  FindHandler(table, ins) = IF ins \in DOMAIN map THEN map[ins] ELSE "none"
<1> DEFINE found == {i \in 1..Len(table) : table[i].ins = ins}
           first == CHOOSE i \in found : \A j \in found : i <= j
<1>1. FindHandler(table, ins) = IF found = {} THEN "none" ELSE table[first].h
  BY DEF FindHandler
<1>2. (found = {}) = (ins \notin DOMAIN map)
  BY DEF Holds
<1>3. ASSUME found # {} PROVE table[first].h = map[ins]
  <2>1. PICK i \in 1..Len(table) : table[i].ins = ins
    BY <1>3
  <2>2. \A j \in found : i <= j
    BY <2>1 DEF Holds
  <2>3. i \in found
    BY <2>1
  <2>4. first \in found
    BY <2>2, <2>3
  <2> QED BY <2>4 DEF Holds
<1> QED BY <1>1, <1>2, <1>3

\* A handler that is replaced stays in its place.
LEMMA Replaced ==
    ASSUME NEW table \in Seq(Routes), NEW map, Holds(table, map),
           NEW ins \in Instructions, NEW h \in Handlers, ins \in DOMAIN map
    PROVE  /\ Registered(table, ins, h) \in Seq(Routes) /\ Len(Registered(table, ins, h)) = Len(table)
           /\ Holds(Registered(table, ins, h), Updated(map, ins, h))
<1>1. PICK after : after = Registered(table, ins, h)
  OBVIOUS
<1>2. PICK n \in Nat : n = Len(table)
  OBVIOUS
<1>3. after = [i \in 1..n |-> IF table[i].ins = ins THEN NewRoute(ins, h) ELSE table[i]]
  <2>1. {i \in 1..Len(table) : table[i].ins = ins} # {}
    BY DEF Holds
  <2> QED BY <1>1, <1>2, <2>1 DEF Registered
<1>4. NewRoute(ins, h) \in Routes /\ NewRoute(ins, h).ins = ins /\ NewRoute(ins, h).h = h
  BY DEF NewRoute, Routes
<1>5. \A i \in 1..n : /\ after[i] \in Routes /\ after[i].ins = table[i].ins
                      /\ after[i].h = IF table[i].ins = ins THEN h ELSE table[i].h
  BY <1>2, <1>3, <1>4
<1>6. after \in Seq(Routes) /\ Len(after) = n
  BY <1>3, <1>5
<1>7. PICK over : over = Updated(map, ins, h)
  OBVIOUS
<1>8. DOMAIN over = DOMAIN map /\ \A i \in DOMAIN map : over[i] = IF i = ins THEN h ELSE map[i]
  <2>1. ins \in DOMAIN map
    OBVIOUS
  <2> QED BY <1>7, <2>1 DEF Updated
<1>9. Holds(after, over)
  <2>1. /\ \A i, j \in 1..n : table[i].ins = table[j].ins => i = j
        /\ \A i \in 1..n : table[i].ins \in DOMAIN map /\ map[table[i].ins] = table[i].h
    BY <1>2 DEF Holds
  <2>2. \A x \in DOMAIN map : \E i \in 1..n : table[i].ins = x
    <3>1. DOMAIN map = {table[i].ins : i \in 1..n}
      BY <1>2 DEF Holds
    <3> QED BY <3>1
  <2>3. \A i, j \in 1..n : after[i].ins = after[j].ins => i = j
    BY <1>5, <2>1
  <2>4. \A i \in 1..n : after[i].ins \in DOMAIN over /\ over[after[i].ins] = after[i].h
    BY <1>5, <1>8, <2>1
  <2>5. \A x \in DOMAIN over : \E i \in 1..n : after[i].ins = x
    BY <1>5, <1>8, <2>2
  <2>6. DOMAIN over = {after[i].ins : i \in 1..n}
    BY <2>4, <2>5
  <2> QED BY <1>6, <2>3, <2>4, <2>6 DEF Holds
<1> QED BY <1>1, <1>2, <1>6, <1>7, <1>9

\* A new one is put behind the others, while there is room.
LEMMA PutBehind ==
    ASSUME NEW table \in Seq(Routes), NEW map, Holds(table, map),
           NEW ins \in Instructions, NEW h \in Handlers, ins \notin DOMAIN map
    PROVE  IF Len(table) < MaxRoutes
           THEN /\ Registered(table, ins, h) \in Seq(Routes) /\ Len(Registered(table, ins, h)) = Len(table) + 1
                /\ Holds(Registered(table, ins, h), Updated(map, ins, h))
           ELSE Registered(table, ins, h) = table
<1>1. {i \in 1..Len(table) : table[i].ins = ins} = {}
  BY DEF Holds
<1>2. CASE ~(Len(table) < MaxRoutes)
  BY <1>1, <1>2 DEF Registered
<1>3. CASE Len(table) < MaxRoutes
  <2>1. PICK after, new : after = Registered(table, ins, h) /\ new = NewRoute(ins, h)
    OBVIOUS
  <2>2. PICK n \in Nat : n = Len(table)
    OBVIOUS
  <2>3. new \in Routes /\ new.ins = ins /\ new.h = h
    BY <2>1 DEF NewRoute, Routes
  <2>4. after = Append(table, new)
    BY <1>1, <1>3, <2>1 DEF Registered
  <2>5. /\ after \in Seq(Routes) /\ Len(after) = n + 1
        /\ \A i \in 1..n : after[i] = table[i]
        /\ after[n + 1] = new
    BY <2>2, <2>3, <2>4
  <2>6. PICK over : over = Updated(map, ins, h)
    OBVIOUS
  <2>7. DOMAIN over = DOMAIN map \cup {ins} /\ over[ins] = h /\ \A i \in DOMAIN map : over[i] = map[i]
    BY <2>6 DEF Updated
  <2>8. Holds(after, over)
    <3>1. \A i \in 1..n : table[i].ins # ins /\ table[i].ins \in DOMAIN map /\ map[table[i].ins] = table[i].h
      BY <2>2 DEF Holds
    <3>2. \A i \in 1..n + 1 : i \in 1..n \/ i = n + 1
      BY <2>2
    <3>3. ASSUME NEW i \in 1..n + 1, NEW j \in 1..n + 1, after[i].ins = after[j].ins PROVE i = j
      BY <2>2, <2>3, <2>5, <3>1, <3>2, <3>3 DEF Holds
    <3>4. \A i \in 1..n + 1 : after[i].ins \in DOMAIN over /\ over[after[i].ins] = after[i].h
      BY <2>3, <2>5, <2>7, <3>1, <3>2
    <3>5. ASSUME NEW x \in DOMAIN over PROVE \E i \in 1..n + 1 : after[i].ins = x
      <4>1. CASE x = ins
        <5>1. n + 1 \in 1..n + 1
          BY <2>2
        <5> QED BY <2>3, <2>5, <4>1, <5>1
      <4>2. CASE x \in DOMAIN map
        <5>1. PICK i \in 1..n : table[i].ins = x
          BY <2>2, <4>2 DEF Holds
        <5>2. i \in 1..n + 1 /\ after[i].ins = x
          BY <2>2, <2>5, <5>1
        <5> QED BY <5>2
      <4> QED BY <2>7, <3>5, <4>1, <4>2
    <3>6. DOMAIN over = {after[i].ins : i \in 1..n + 1}
      BY <3>4, <3>5
    <3> QED BY <2>5, <3>3, <3>4, <3>6 DEF Holds
  <2> QED BY <1>3, <2>1, <2>2, <2>5, <2>6, <2>8
<1> QED BY <1>2, <1>3

LEMMA RegisterKeeps ==
    ASSUME RoutesInv, NEW ins \in Instructions, NEW h \in Handlers, ApduRegister(ins, h)
    PROVE  RoutesInv'
<1>1. PICK table, map : table = routes /\ map = registered
  OBVIOUS
<1>2. /\ table \in Seq(Routes) /\ Holds(table, map) /\ IsFiniteSet(DOMAIN map)
      /\ Cardinality(DOMAIN map) = Len(table) /\ Len(table) \in Nat
  BY <1>1 DEF RoutesInv
<1>3. PICK over : over = Updated(map, ins, h)
  OBVIOUS
<1>4. DOMAIN over = DOMAIN map \cup {ins}
  BY <1>3 DEF Updated
<1>5. /\ routes' = Registered(table, ins, h)
      /\ registered' = IF ins \in DOMAIN map \/ Len(table) < MaxRoutes THEN over ELSE map
  BY <1>1, <1>2, <1>3 DEF ApduRegister
<1>6. CASE ins \in DOMAIN map
  <2>1. /\ Registered(table, ins, h) \in Seq(Routes) /\ Len(Registered(table, ins, h)) = Len(table)
        /\ Holds(Registered(table, ins, h), over)
    BY <1>2, <1>3, <1>6, Replaced
  <2>2. routes' \in Seq(Routes) /\ Len(routes') = Len(table) /\ Holds(routes', over) /\ registered' = over
    BY <1>5, <1>6, <2>1
  <2>3. DOMAIN over = DOMAIN map
    BY <1>4, <1>6
  <2> QED BY <1>2, <2>2, <2>3 DEF RoutesInv, Routes
<1>7. CASE ins \notin DOMAIN map /\ Len(table) < MaxRoutes
  <2>1. /\ Registered(table, ins, h) \in Seq(Routes) /\ Len(Registered(table, ins, h)) = Len(table) + 1
        /\ Holds(Registered(table, ins, h), over)
    BY <1>2, <1>3, <1>7, PutBehind
  <2>2. routes' \in Seq(Routes) /\ Len(routes') = Len(table) + 1 /\ Holds(routes', over) /\ registered' = over
    BY <1>5, <1>7, <2>1
  <2>3. IsFiniteSet(DOMAIN over) /\ Cardinality(DOMAIN over) = Len(table) + 1
    <3>1. PICK D : D = DOMAIN map /\ IsFiniteSet(D) /\ ins \notin D /\ Cardinality(D) = Len(table)
      BY <1>2, <1>7
    <3>2. IsFiniteSet(D \cup {ins}) /\ Cardinality(D \cup {ins}) = Cardinality(D) + 1
      BY <3>1, FS_AddElement
    <3> QED BY <1>4, <3>1, <3>2
  <2> QED BY <2>2, <2>3 DEF RoutesInv, Routes
<1>8. CASE ins \notin DOMAIN map /\ ~(Len(table) < MaxRoutes)
  <2>1. routes' = table /\ registered' = map
    BY <1>2, <1>5, <1>8, PutBehind
  <2> QED BY <1>1, <2>1 DEF RoutesInv, Routes
<1> QED BY <1>6, <1>7, <1>8

LEMMA BytesAreNumbers == ApduBytes \subseteq Nat
BY DEF ApduBytes

\* The test of the length in the code is what well-formed means, and what is
\* handed on is what follows the header.
LEMMA LengthTold ==
    ASSUME NEW apdu \in Seq(ApduBytes)
    PROVE  /\ LengthWrong(apdu) <=> ~Formed(apdu)
           /\ Formed(apdu) => /\ Len(Data(apdu)) = IF Len(apdu) = 4 THEN 0 ELSE apdu[5]
                              /\ \A i \in 1..Len(Data(apdu)) : Data(apdu)[i] = apdu[5 + i]
<1>1. PICK n \in Nat : n = Len(apdu)
  OBVIOUS
<1>2. PICK data : data = SubSeq(apdu, 6, n)
  OBVIOUS
<1>3. CASE n <= 5
  <2>1. Len(data) = 0
    BY <1>1, <1>2, <1>3
  <2>2. n = 5 => apdu[5] \in Nat
    <3>1. n = 5 => 5 \in 1..Len(apdu)
      BY <1>1
    <3>2. n = 5 => apdu[5] \in ApduBytes
      BY <3>1
    <3> QED BY <3>2, BytesAreNumbers
  <2>3. (LengthWrong(apdu) <=> (n < 4 \/ 0 # Lc(apdu))) /\ Lc(apdu) = IF n = 5 THEN apdu[5] ELSE 0
    BY <1>1, <1>2, <1>3, <2>1 DEF LengthWrong, Lc, Data
  <2>4. Formed(apdu) <=> (n >= 4 /\ (n = 4 \/ n = 5 + apdu[5]))
    BY <1>1 DEF Formed
  <2>5. n = 5 => (n = 5 + apdu[5] <=> apdu[5] = 0)
    BY <2>2
  <2>6. CASE n < 4
    <3>1. LengthWrong(apdu) /\ ~Formed(apdu)
      BY <1>1, <2>3, <2>4, <2>6
    <3> QED BY <3>1
  <2>7. CASE n = 4
    <3>1. ~LengthWrong(apdu) /\ Formed(apdu)
      BY <1>1, <2>3, <2>4, <2>7
    <3>2. Data(apdu) = data /\ Len(apdu) = 4
      BY <1>1, <1>2, <2>7 DEF Data
    <3> QED BY <2>1, <3>1, <3>2
  <2>8. CASE n = 5
    <3>1. (LengthWrong(apdu) <=> 0 # apdu[5]) /\ (Formed(apdu) <=> apdu[5] = 0)
      BY <1>1, <2>3, <2>4, <2>5, <2>8
    <3>2. Data(apdu) = data /\ Len(apdu) = 5
      BY <1>1, <1>2, <2>8 DEF Data
    <3> QED BY <2>1, <3>1, <3>2
  <2> QED BY <1>1, <1>3, <2>6, <2>7, <2>8
<1>4. CASE n > 5
  <2>1. Len(data) = n - 5 /\ \A i \in 1..Len(data) : data[i] = apdu[5 + i]
    BY <1>1, <1>2, <1>4
  <2>2. apdu[5] \in Nat
    <3>1. 5 \in 1..Len(apdu)
      BY <1>1, <1>4
    <3>2. apdu[5] \in ApduBytes
      BY <3>1
    <3> QED BY <3>2, BytesAreNumbers
  <2>3. LengthWrong(apdu) <=> (n - 5 # apdu[5])
    BY <1>1, <1>2, <1>4, <2>1 DEF LengthWrong, Lc, Data
  <2>4. Formed(apdu) <=> (n = 5 + apdu[5])
    <3>1. Formed(apdu) <=> (n >= 4 /\ (n = 4 \/ n = 5 + apdu[5]))
      BY <1>1 DEF Formed
    <3> QED BY <1>4, <2>2, <3>1
  <2>5. (n - 5 # apdu[5]) <=> ~(n = 5 + apdu[5])
    BY <2>2
  <2>6. n = 5 + apdu[5] => n - 5 = apdu[5]
    BY <2>2
  <2>7. Data(apdu) = data /\ ~(Len(apdu) = 4)
    <3>1. Data(apdu) = data
      BY <1>1, <1>2 DEF Data
    <3>2. ~(Len(apdu) = 4)
      BY <1>1, <1>4
    <3> QED BY <3>1, <3>2
  <2>8. LengthWrong(apdu) <=> ~Formed(apdu)
    BY <2>3, <2>4, <2>5
  <2>9. Formed(apdu) => Len(data) = apdu[5]
    BY <2>1, <2>4, <2>6
  <2> QED BY <2>1, <2>7, <2>8, <2>9
<1> QED BY <1>3, <1>4

LEMMA AnswersWithStatus ==
    ASSUME NEW sw \in StatusWords
    PROVE  Respond(<<>>, sw) = <<sw \div 256, sw % 256>> /\ Respond(AppName, sw) = AppName \o <<sw \div 256, sw % 256>>
<1>1. MaxResp \in Nat /\ Len(AppName) = 17 /\ ~(Len(AppName) + 2 > MaxResp) /\ ~(0 + 2 > MaxResp)
  BY ApduAssumption DEF AppName
<1>2. PICK x, y : x = sw \div 256 /\ y = sw % 256
  OBVIOUS
<1>3. <<>> \o <<x, y>> = <<x, y>> /\ Len(<<>>) = 0
  OBVIOUS
<1> HIDE DEF AppName
<1> QED BY <1>1, <1>2, <1>3 DEF Respond

LEMMA DispatchKeeps ==
    ASSUME RoutesInv, NEW apdu \in Requests, ApduDispatch(apdu)
    PROVE  ApduAnswered'
<1>1. PICK h : h = FindHandler(routes, apdu[2])
  OBVIOUS
<1>2. UNCHANGED <<routes, locked, registered>>
  BY DEF ApduDispatch
<1>3. h = IF apdu[2] \in DOMAIN registered THEN registered[apdu[2]] ELSE "none"
  BY <1>1, FindHandlerIs DEF RoutesInv
<1>4. \A ins \in DOMAIN registered : registered[ins] \in Handlers /\ registered[ins] # "none"
  <2>1. SUFFICES ASSUME NEW ins \in DOMAIN registered PROVE registered[ins] \in Handlers
    BY ApduAssumption
  <2>2. PICK i \in 1..Len(routes) : routes[i].ins = ins
    <3>1. ins \in {routes[i].ins : i \in 1..Len(routes)}
      BY <2>1 DEF RoutesInv, Holds
    <3> QED BY <3>1
  <2>3. routes[i] \in Routes
    BY DEF RoutesInv
  <2> QED BY <2>2, <2>3 DEF RoutesInv, Holds, Routes
<1>5. apdu \in Seq(ApduBytes)
  BY ApduAssumption
<1>6. PICK command : command = <<apdu[1], apdu[2]>>
  OBVIOUS
<1>7. PICK reached \in BOOLEAN : reached = /\ Formed(apdu) /\ apdu[1] = ClaEth /\ command \notin BolosCommands
                                           /\ apdu[2] \in DOMAIN registered
                                           /\ locked => apdu[2] = GetConfigIns
  OBVIOUS
<1>8. PICK answer : answer = exchange'.answer
  OBVIOUS
<1>9. CASE reached
  <2>1. PICK r \in Returns : exchange' = [apdu |-> apdu, returned |-> r, answer |-> Respond(r.out, r.sw),
                                 called |-> [h |-> h, p1 |-> apdu[3], p2 |-> apdu[4], data |-> Data(apdu)]]
    BY <1>1, <1>3, <1>4, <1>5, <1>6, <1>7, <1>9, LengthTold DEF ApduDispatch
  <2>2. Len(r.out) \in Nat /\ MaxResp \in Nat
    BY ApduAssumption
  <2>3. Respond(r.out, r.sw) = IF Len(r.out) > MaxResp - 2 THEN <<>> ELSE r.out \o <<r.sw \div 256, r.sw % 256>>
    BY <2>2 DEF Respond
  <2>4. PICK served : served = [h |-> h, p1 |-> apdu[3], p2 |-> apdu[4], data |-> Data(apdu)]
    OBVIOUS
  <2>5. GivenWhole(served, apdu) /\ served.h = registered[apdu[2]]
    BY <1>3, <1>5, <1>7, <1>9, <2>4, LengthTold DEF GivenWhole
  <2> QED BY <1>2, <1>6, <1>7, <1>9, <2>1, <2>3, <2>4, <2>5 DEF ApduAnswered
<1>10. CASE ~reached
  <2>1. SwOk \in StatusWords /\ SwDeviceLocked \in StatusWords /\ SwWrongLength \in StatusWords /\ SwInsBad \in StatusWords /\ SwClaBad \in StatusWords
    BY DEF StatusWords, SwOk, SwDeviceLocked, SwWrongLength, SwInsBad, SwClaBad
  <2> DEFINE Status(sw) == answer = <<sw \div 256, sw % 256>>
  <2>2. /\ exchange'.called = Nobody /\ exchange'.apdu = apdu
        /\ ~Formed(apdu) => Status(SwWrongLength)
        /\ Formed(apdu) =>
             /\ command \in BolosCommands => Status(SwOk) \/ answer = AppName \o <<SwOk \div 256, SwOk % 256>>
             /\ command \notin BolosCommands =>
                  \/ Status(SwClaBad) /\ apdu[1] # ClaEth
                  \/ Status(SwDeviceLocked) /\ locked
                  \/ Status(SwInsBad) /\ apdu[2] \notin DOMAIN registered
    <3>1. CASE ~Formed(apdu)
      <4>1. LengthWrong(apdu)
        BY <1>5, <3>1, LengthTold
      <4>2. exchange' = [apdu |-> apdu, called |-> Nobody, returned |-> NoReturn, answer |-> Respond(<<>>, SwWrongLength)]
        BY <4>1 DEF ApduDispatch
      <4>3. Respond(<<>>, SwWrongLength) = <<SwWrongLength \div 256, SwWrongLength % 256>>
        BY <2>1, AnswersWithStatus
      <4> QED BY <1>8, <3>1, <4>2, <4>3
    <3>2. CASE Formed(apdu) /\ command \in BolosCommands
      <4>1. ~LengthWrong(apdu)
        BY <1>5, <3>2, LengthTold
      <4>2. exchange' = [apdu |-> apdu, called |-> Nobody, returned |-> NoReturn, answer |-> BolosDispatch(apdu[1], apdu[2])]
        BY <1>6, <3>2, <4>1 DEF ApduDispatch
      <4>3. BolosDispatch(apdu[1], apdu[2]) \in {Respond(<<>>, SwOk), Respond(AppName, SwOk)}
        BY DEF BolosDispatch
      <4> QED BY <1>8, <2>1, <3>2, <4>2, <4>3, AnswersWithStatus
    <3>3. CASE Formed(apdu) /\ command \notin BolosCommands
      <4>1. ~LengthWrong(apdu)
        BY <1>5, <3>3, LengthTold
      <4>2. \E sw \in {SwClaBad, SwDeviceLocked, SwInsBad} :
               /\ exchange' = [apdu |-> apdu, called |-> Nobody, returned |-> NoReturn, answer |-> Respond(<<>>, sw)]
               /\ sw = SwClaBad => apdu[1] # ClaEth
               /\ sw = SwDeviceLocked => locked
               /\ sw = SwInsBad => apdu[2] \notin DOMAIN registered
        <5>1. CASE apdu[1] # ClaEth
          <6>1. exchange' = [apdu |-> apdu, called |-> Nobody, returned |-> NoReturn, answer |-> Respond(<<>>, SwClaBad)]
            BY <1>6, <3>3, <4>1, <5>1 DEF ApduDispatch
          <6> QED BY <5>1, <6>1 DEF SwClaBad, SwDeviceLocked, SwInsBad
        <5>2. CASE apdu[1] = ClaEth /\ locked /\ apdu[2] # GetConfigIns
          <6>1. exchange' = [apdu |-> apdu, called |-> Nobody, returned |-> NoReturn, answer |-> Respond(<<>>, SwDeviceLocked)]
            BY <1>6, <3>3, <4>1, <5>2 DEF ApduDispatch
          <6> QED BY <5>2, <6>1 DEF SwClaBad, SwDeviceLocked, SwInsBad
        <5>3. CASE apdu[1] = ClaEth /\ ~(locked /\ apdu[2] # GetConfigIns)
          <6>1. apdu[2] \notin DOMAIN registered
            BY <1>7, <1>10, <3>3, <5>3
          <6>2. exchange' = [apdu |-> apdu, called |-> Nobody, returned |-> NoReturn, answer |-> Respond(<<>>, SwInsBad)]
            BY <1>1, <1>3, <1>6, <3>3, <4>1, <5>3, <6>1 DEF ApduDispatch
          <6> QED BY <6>1, <6>2 DEF SwClaBad, SwDeviceLocked, SwInsBad
        <5> QED BY <5>1, <5>2, <5>3
      <4>3. \A sw \in StatusWords : Respond(<<>>, sw) = <<sw \div 256, sw % 256>>
        BY AnswersWithStatus
      <4> HIDE DEF Status
      <4>4. \A sw \in StatusWords : exchange'.answer = Respond(<<>>, sw) => Status(sw)
        BY <1>8, <4>3 DEF Status
      <4> QED BY <2>1, <3>3, <4>2, <4>4
    <3> QED BY <3>1, <3>2, <3>3
  <2> QED BY <1>2, <1>6, <1>7, <1>8, <1>10, <2>2 DEF ApduAnswered
<1> QED BY <1>9, <1>10

LEMMA NothingHeld == <<>> \in Seq(Routes) /\ Holds(<<>>, <<>>)
<1>1. Len(<<>>) = 0 /\ <<>> \in Seq(Routes) /\ DOMAIN <<>> = {}
  OBVIOUS
<1>2. \A i \in 1..0 : FALSE
  OBVIOUS
<1> QED BY <1>1, <1>2 DEF Holds

LEMMA ApduInitHolds == ApduInit => ApduInv
<1> SUFFICES ASSUME ApduInit PROVE ApduInv
  OBVIOUS
<1>1. routes = <<>> /\ registered = <<>> /\ exchange = NoExchange /\ DOMAIN registered = {} /\ Len(routes) = 0
  BY DEF ApduInit
<1>2. IsFiniteSet({}) /\ Cardinality({}) = 0
  BY FS_EmptySet
<1>3. RoutesInv
  BY <1>1, <1>2, NothingHeld DEF RoutesInv
<1> QED BY <1>1, <1>3 DEF ApduInv, ApduAnswered

LEMMA ApduStep == ApduInv /\ [ApduNext]_apduVars => ApduInv'
<1> SUFFICES ASSUME ApduInv, [ApduNext]_apduVars PROVE ApduInv'
  OBVIOUS
<1>1. CASE UNCHANGED apduVars
  BY <1>1 DEF apduVars, ApduInv, RoutesInv, Routes, ApduAnswered
<1>2. CASE ApduReset
  <2>1. routes' = <<>> /\ registered' = <<>> /\ exchange' = NoExchange /\ DOMAIN registered' = {} /\ Len(routes') = 0
    BY <1>2 DEF ApduReset
  <2>2. IsFiniteSet({}) /\ Cardinality({}) = 0
    BY FS_EmptySet
  <2>3. RoutesInv'
    BY <2>1, <2>2, NothingHeld DEF RoutesInv, Routes
  <2> QED BY <2>1, <2>3 DEF ApduInv, ApduAnswered
<1>3. ASSUME NEW ins \in Instructions, NEW h \in Handlers, ApduRegister(ins, h) PROVE ApduInv'
  <2>1. exchange' = NoExchange
    BY <1>3 DEF ApduRegister
  <2> QED BY <1>3, <2>1, RegisterKeeps DEF ApduInv, ApduAnswered
<1>4. ASSUME NEW l \in BOOLEAN, ApduSetLocked(l) PROVE ApduInv'
  BY <1>4 DEF ApduSetLocked, ApduInv, RoutesInv, Routes, ApduAnswered
<1>5. ASSUME NEW apdu \in Requests, ApduDispatch(apdu) PROVE ApduInv'
  <2>1. UNCHANGED <<routes, registered>>
    BY <1>5 DEF ApduDispatch
  <2> QED BY <1>5, <2>1, DispatchKeeps DEF ApduInv, RoutesInv, Routes
<1> QED BY <1>1, <1>2, <1>3, <1>4, <1>5 DEF ApduNext

\* Whatever was registered, replaced or found no room, and whatever the host
\* sends (apdu_register, apdu_dispatch): a request reaches the handler that was
\* registered last for it, with all of its data, exactly when it is well formed
\* and the lock lets it through; any other is refused for what is wrong with it.
THEOREM ApduAnsweredHolds == ApduSpec => []ApduAnswered
<1>1. ApduInv => ApduAnswered
  BY DEF ApduInv
<1> QED BY <1>1, ApduInitHolds, ApduStep, PTL DEF ApduSpec

-----------------------------------------------------------------------------
(* The PIN wheel.                                                          *)

PinType ==
    /\ digits \in [1..PinMax -> Nat]
    /\ pinLen \in 0..PinMax
    /\ pos \in 0..Confirm
    /\ confirmed \in BOOLEAN
    /\ dialled \in Seq(Nat)
    /\ awaited \in Nat

(* The buffer up to its length is what was dialled, digit by digit; what   *)
(* is behind it may be anything.                                           *)
DialInv ==
    /\ PinType
    /\ awaited = pos
    /\ Len(dialled) = pinLen
    /\ \A i \in 1..pinLen : digits[i] = dialled[i]
    /\ confirmed => pinLen >= PinMin

LEMMA DialInit == PinEntryInit => DialInv
<1> SUFFICES ASSUME PinEntryInit PROVE DialInv
  OBVIOUS
<1>1. dialled \in Seq(Nat) /\ Len(dialled) = 0
  BY EmptySeq DEF PinEntryInit
<1>2. digits \in [1..PinMax -> Nat]
  BY DEF PinEntryInit
<1>3. pinLen = 0 /\ pos = 0 /\ awaited = 0 /\ ~confirmed /\ confirmed \in BOOLEAN
  BY DEF PinEntryInit
<1>4. PinMax \in Nat /\ Confirm \in Nat
  BY PinAssumption DEF Confirm
<1> QED BY <1>1, <1>2, <1>3, <1>4 DEF DialInv, PinType

\* The wheel turns by one place, over its ends too.
LEMMA TurnByOne ==
    ASSUME NEW p \in 0..Confirm
    PROVE  /\ (p + 1) % WheelCount = IF p = Confirm THEN 0 ELSE p + 1
           /\ (p + (WheelCount - 1)) % WheelCount = IF p = 0 THEN Confirm ELSE p - 1
<1>1. WheelCount \in Nat \ {0} /\ Confirm = WheelCount - 1
  BY PinAssumption DEF WheelCount, Confirm
<1>2. p \in 0..WheelCount - 1
  BY <1>1
<1>3. \A x \in 0..WheelCount - 1 : x % WheelCount = x /\ (x + WheelCount) % WheelCount = x
  BY <1>1
<1>4. (p + 1) % WheelCount = IF p = Confirm THEN 0 ELSE p + 1
  <2>1. CASE p = Confirm
    BY <2>1, <1>1, <1>2, <1>3
  <2>2. CASE p # Confirm
    BY <2>2, <1>1, <1>2, <1>3
  <2> QED BY <2>1, <2>2
<1>5. (p + (WheelCount - 1)) % WheelCount = IF p = 0 THEN Confirm ELSE p - 1
  <2>1. CASE p = 0
    BY <2>1, <1>1, <1>2, <1>3
  <2>2. CASE p # 0
    <3>1. p - 1 \in 0..WheelCount - 1 /\ p + (WheelCount - 1) = (p - 1) + WheelCount
      BY <2>2, <1>1, <1>2
    <3> QED BY <2>2, <3>1, <1>3
  <2> QED BY <2>1, <2>2
<1> QED BY <1>4, <1>5

LEMMA TurnKeeps ==
    ASSUME DialInv, Turn(1) \/ Turn(WheelCount - 1)
    PROVE  DialInv'
<1>1. pos \in 0..Confirm /\ awaited = pos /\ Confirm \in Nat \ {0} /\ WheelCount = Confirm + 1
  BY PinAssumption DEF DialInv, PinType, Confirm, WheelCount
<1>2. UNCHANGED <<digits, pinLen, confirmed, dialled>>
  BY DEF Turn
<1>3. pos' = awaited' /\ pos' \in 0..Confirm
  <2>1. CASE Turn(1)
    BY <1>1, <2>1, TurnByOne DEF Turn
  <2>2. CASE Turn(WheelCount - 1)
    <3>1. WheelCount - 1 # 1
      BY PinAssumption DEF WheelCount
    <3> QED BY <1>1, <2>2, <3>1, TurnByOne DEF Turn
  <2> QED BY <2>1, <2>2
<1>4. Confirm' = Confirm
  BY DEF Confirm
<1> QED BY <1>1, <1>2, <1>3, <1>4 DEF DialInv, PinType

LEMMA TakeBackKeeps ==
    ASSUME DialInv, ~confirmed, TakeBack
    PROVE  DialInv'
<1>1. UNCHANGED <<digits, pos, confirmed, awaited>>
  BY DEF TakeBack
<1>2. CASE pinLen = 0
  <2>1. dialled = <<>>
    BY <1>2, EmptySeq DEF DialInv, PinType
  <2>2. UNCHANGED <<pinLen, dialled>>
    BY <1>2, <2>1 DEF TakeBack
  <2> QED BY <1>1, <2>2 DEF DialInv, PinType, Confirm
<1>3. CASE pinLen # 0
  <2>1. pinLen \in 1..PinMax /\ PinMax \in Nat /\ dialled # <<>>
    BY <1>3, PinAssumption, EmptySeq DEF DialInv, PinType
  <2>2. pinLen' = pinLen - 1 /\ dialled' = SubSeq(dialled, 1, pinLen - 1)
    BY <2>1 DEF TakeBack, DialInv
  <2>3. /\ dialled' \in Seq(Nat) /\ Len(dialled') = pinLen - 1
        /\ \A i \in 1..pinLen - 1 : dialled'[i] = dialled[i]
    BY <2>1, <2>2 DEF DialInv, PinType
  <2> QED BY <1>1, <2>1, <2>2, <2>3 DEF DialInv, PinType, Confirm
<1> QED BY <1>2, <1>3

LEMMA SelectKeeps ==
    ASSUME DialInv, ~confirmed, SelectDigit
    PROVE  DialInv'
<1>1. UNCHANGED <<pos, confirmed, awaited>> /\ PinMax \in Nat /\ pos \in Nat
  BY PinAssumption DEF SelectDigit, DialInv, PinType
<1>2. CASE pinLen < PinMax
  <2>1. pinLen + 1 \in 1..PinMax
    BY <1>1, <1>2 DEF DialInv, PinType
  <2>2. digits' = [digits EXCEPT ![pinLen + 1] = pos] /\ pinLen' = pinLen + 1 /\ dialled' = Append(dialled, pos)
    BY <1>2 DEF SelectDigit, DialInv
  <2>3. /\ dialled' \in Seq(Nat) /\ Len(dialled') = pinLen + 1
        /\ \A i \in 1..pinLen : dialled'[i] = dialled[i]
        /\ dialled'[pinLen + 1] = pos
    BY <1>1, <2>2, AppendProperties DEF DialInv, PinType
  <2>4. digits' \in [1..PinMax -> Nat]
    BY <1>1, <2>1, <2>2 DEF DialInv, PinType
  <2>5. ASSUME NEW i \in 1..pinLen + 1 PROVE digits'[i] = dialled'[i]
    <3>1. CASE i = pinLen + 1
      BY <2>1, <2>2, <2>3, <3>1 DEF DialInv, PinType
    <3>2. CASE i # pinLen + 1
      BY <2>1, <2>2, <2>3, <3>2 DEF DialInv, PinType
    <3> QED BY <3>1, <3>2
  <2> QED BY <1>1, <2>1, <2>2, <2>3, <2>4, <2>5 DEF DialInv, PinType, Confirm
<1>3. CASE ~(pinLen < PinMax)
  <2>1. UNCHANGED <<digits, pinLen, dialled>>
    BY <1>3 DEF SelectDigit, DialInv
  <2> QED BY <1>1, <2>1 DEF DialInv, PinType, Confirm
<1> QED BY <1>2, <1>3

LEMMA DialStep ==
    ASSUME DialInv, [PinEntryNext]_pinEntryVars
    PROVE  DialInv'
<1>1. CASE ~confirmed /\ \E button \in {"UP", "DOWN", "LEFT", "CENTER"} : PinEvent(button)
  <2>1. \/ Turn(1) \/ Turn(WheelCount - 1)
        \/ TakeBack
        \/ SelectDigit
        \/ SelectConfirm
    BY <1>1 DEF PinEvent
  <2>2. CASE SelectConfirm
    BY <1>1, <2>2 DEF SelectConfirm, DialInv, PinType, Confirm
  <2> QED BY <1>1, <2>1, <2>2, TurnKeeps, TakeBackKeeps, SelectKeeps
<1>2. CASE NewEntry
  <2>1. pinLen' = 0 /\ confirmed' = FALSE /\ pos' = 0 /\ dialled' = <<>> /\ awaited' = 0 /\ digits' = digits
    BY <1>2 DEF NewEntry, PinReset
  <2>2. dialled' \in Seq(Nat) /\ Len(dialled') = 0
    BY <2>1, EmptySeq
  <2>3. PinMax \in Nat /\ Confirm \in Nat /\ Confirm' = Confirm
    BY PinAssumption DEF Confirm
  <2>4. digits' \in [1..PinMax -> Nat]
    BY <2>1 DEF DialInv, PinType
  <2>5. confirmed' \in BOOLEAN /\ ~confirmed' /\ PinMax \in Nat
    BY <2>1, <2>3
  <2>6. pinLen' \in 0..PinMax /\ pos' \in 0..Confirm' /\ awaited' \in Nat /\ awaited' = pos'
    BY <2>1, <2>3
  <2>7. PinType'
    BY <2>2, <2>4, <2>5, <2>6 DEF PinType
  <2>8. \A i \in 1..pinLen' : digits'[i] = dialled'[i]
    BY <2>1
  <2> QED BY <2>1, <2>2, <2>5, <2>6, <2>7, <2>8 DEF DialInv
<1>3. CASE UNCHANGED pinEntryVars
  BY <1>3 DEF pinEntryVars, DialInv, PinType, Confirm
<1> QED BY <1>1, <1>2, <1>3 DEF PinEntryNext

\* What is handed to storage_set_pin and storage_check_pin is what the user
\* selected and did not take back, and it has a legal length (pin_event).
THEOREM PinAsDialledHolds == PinEntrySpec => []PinAsDialled
<1>1. DialInv => PinAsDialled
  <2>1. SUFFICES ASSUME DialInv PROVE PinAsDialled
    OBVIOUS
  <2>2. pinLen \in Nat /\ PinMax \in Nat /\ pinLen <= PinMax /\ Len(dialled) = pinLen
    BY <2>1, PinAssumption DEF DialInv, PinType
  <2>3. PinDigits = dialled
    <3>1. Len(PinDigits) = pinLen /\ PinDigits \in Seq(Nat) /\ \A i \in 1..pinLen : PinDigits[i] = digits[i]
      <4>1. \A i \in 1..pinLen : digits[i] \in Nat
        BY <2>1, <2>2 DEF DialInv, PinType
      <4> QED BY <2>2, <4>1, SubSeqProperties DEF PinDigits
    <3> QED BY <2>1, <2>2, <3>1, SeqEqual DEF DialInv, PinType
  <2>4. PinShown.symbol = WheelSymbol(awaited)
    BY <2>1 DEF PinShown, DialInv
  <2>5. \A i \in 1..PinMax : (PinShown.dots[i] = "*") = (i <= Len(dialled))
    BY <2>2 DEF PinShown
  <2>6. confirmed => Len(dialled) \in PinMin..PinMax
    BY <2>1, <2>2, PinAssumption DEF DialInv
  <2> QED BY <2>3, <2>4, <2>5, <2>6 DEF PinAsDialled
<1> QED BY <1>1, DialInit, DialStep, PTL DEF PinEntrySpec

-----------------------------------------------------------------------------
(* The buttons.                                                            *)

Tick == 0..TickMod - 1

ButtonType ==
    /\ raw \in [Ids -> BOOLEAN] /\ stable \in [Ids -> BOOLEAN] /\ longFired \in [Ids -> BOOLEAN]
    /\ pressTick \in [Ids -> Tick] /\ now \in Tick
    /\ age \in [Ids -> Nat]
    /\ booted \subseteq Ids

\* The tick shows age ticks since the press, with one wrap at the most.
Shows(b) == now = pressTick[b] + age[b] \/ now = pressTick[b] + age[b] - TickMod

(* A button that is down and has not fired was reported as pressed, and    *)
(* until the threshold the difference of the ticks is the time since then. *)
HoldInv ==
    /\ ButtonType
    /\ \A b \in Ids \ booted :
         stable[b] /\ ~longFired[b] =>
            /\ b \in fresh
            /\ age[b] < LongPress => Shows(b)

-----------------------------------------------------------------------------
(* Ticks.                                                                  *)

LEMMA TickWraps ==
    ASSUME NEW t \in Tick, NEW gap \in 1..TickMod - LongPress
    PROVE  /\ gap \in Nat
           /\ (t + gap) % TickMod \in Tick
           /\ (t + gap) % TickMod = t + gap \/ (t + gap) % TickMod = t + gap - TickMod
<1>1. TickMod \in Nat \ {0} /\ LongPress \in Nat \ {0} /\ t \in 0..TickMod - 1 /\ gap \in 1..TickMod
  BY ButtonsAssumption DEF Tick
<1>2. \A x \in 0..TickMod - 1 : x % TickMod = x /\ (x + TickMod) % TickMod = x
  BY <1>1
<1>3. CASE t + gap < TickMod
  BY <1>1, <1>2, <1>3 DEF Tick
<1>4. CASE ~(t + gap < TickMod)
  <2>1. (t + gap) - TickMod \in 0..TickMod - 1 /\ t + gap = ((t + gap) - TickMod) + TickMod
    BY <1>1, <1>4
  <2>2. (t + gap) % TickMod = (t + gap) - TickMod
    BY <1>2, <2>1
  <2> QED BY <1>1, <2>1, <2>2 DEF Tick
<1> QED BY <1>3, <1>4

\* What the unsigned difference gives while the tick shows the age.
LEMMA DifferenceShows ==
    ASSUME HoldInv, NEW b \in Ids, Shows(b), age[b] < LongPress
    PROVE  HeldFor(b) = age[b]
<1>1. TickMod \in Nat \ {0} /\ LongPress \in Nat /\ LongPress < TickMod
  BY ButtonsAssumption
<1>2. age[b] \in 0..TickMod - 1 /\ pressTick[b] \in 0..TickMod - 1 /\ now \in 0..TickMod - 1
  BY <1>1 DEF HoldInv, ButtonType, Tick
<1>3. now - pressTick[b] = age[b] \/ now - pressTick[b] = age[b] - TickMod
  BY <1>1, <1>2 DEF Shows
<1>4. \A x \in 0..TickMod - 1 : x % TickMod = x /\ (x - TickMod) % TickMod = x
  BY <1>1
<1> QED BY <1>2, <1>3, <1>4 DEF HeldFor

-----------------------------------------------------------------------------
(* What a poll does, button by button.                                     *)

Eventful == {b \in Ids : Turns(b) \/ LongNow(b)}
IsFirst(b) == b \in Eventful /\ \A c \in Eventful : b <= c
Presses(b) == IsFirst(b) /\ Turns(b) /\ raw[b]
Releases(b) == IsFirst(b) /\ Turns(b) /\ ~raw[b]
Longs(b) == IsFirst(b) /\ LongNow(b)

PollEffect(gap) ==
    /\ raw' = raw
    /\ stable' = [b \in Ids |-> IF Presses(b) \/ Releases(b) THEN raw[b] ELSE stable[b]]
    /\ pressTick' = [b \in Ids |-> IF Presses(b) THEN now ELSE pressTick[b]]
    /\ longFired' = [b \in Ids |-> Longs(b) \/ NextLongFired(b, Presses(b))]
    /\ event' = [b \in Ids |-> IF Presses(b) THEN "PRESS" ELSE IF Releases(b) THEN "RELEASE"
                               ELSE IF Longs(b) THEN "LONG" ELSE NoEvent]
    /\ now' = (now + gap) % TickMod
    /\ age' = [b \in Ids |-> IF Presses(b) THEN gap
                             ELSE IF age[b] + gap < LongPress THEN age[b] + gap ELSE LongPress]
    /\ fresh' = {b \in Ids : Presses(b) \/ (b \in fresh /\ ~IsFirst(b))}
    /\ booted' = booted \ {b \in Ids : Presses(b)}

LEMMA PollDoes ==
    ASSUME Poll
    PROVE  \E gap \in PollGaps : PollEffect(gap)
BY Zenon DEF Poll, PollEffect, Eventful, IsFirst, Presses, Releases, Longs

LEMMA HoldInit == ButtonsInit => HoldInv
<1> SUFFICES ASSUME ButtonsInit PROVE HoldInv
  OBVIOUS
<1>1. TickMod \in Nat \ {0} /\ 0 \in Tick
  BY ButtonsAssumption DEF Tick
<1>2. ButtonType
  BY <1>1 DEF ButtonsInit, ButtonType
<1>3. \A b \in Ids \ booted : ~stable[b]
  BY DEF ButtonsInit
<1> QED BY <1>2, <1>3 DEF HoldInv

LEMMA PollType ==
    ASSUME ButtonType, NEW gap \in PollGaps, PollEffect(gap)
    PROVE  ButtonType'
<1>1. gap \in 1..TickMod - LongPress /\ LongPress \in Nat
  BY ButtonsAssumption
<1>2. gap \in Nat /\ now' \in Tick
  BY <1>1, TickWraps DEF ButtonType, PollEffect
<1>3. \A b \in Ids : raw[b] \in BOOLEAN /\ stable[b] \in BOOLEAN /\ pressTick[b] \in Tick /\ age[b] \in Nat
  BY DEF ButtonType
<1>4. stable' \in [Ids -> BOOLEAN]
  BY <1>3 DEF PollEffect
<1>5. pressTick' \in [Ids -> Tick]
  BY <1>3 DEF PollEffect, ButtonType
<1>6. longFired' \in [Ids -> BOOLEAN]
  BY DEF PollEffect, Longs, IsFirst, NextLongFired
<1>7. age' \in [Ids -> Nat]
  BY <1>1, <1>2, <1>3 DEF PollEffect
<1>8. booted' \subseteq Ids /\ raw' \in [Ids -> BOOLEAN]
  BY DEF PollEffect, ButtonType
<1>9. Tick' = Tick
  BY DEF Tick
<1> QED BY <1>2, <1>4, <1>5, <1>6, <1>7, <1>8, <1>9 DEF ButtonType

LEMMA PollHolds ==
    ASSUME HoldInv, NEW gap \in PollGaps, PollEffect(gap), NEW b \in Ids, b \notin booted',
           stable'[b], ~longFired'[b]
    PROVE  b \in fresh' /\ (age'[b] < LongPress => Shows(b)')
<1>1. gap \in 1..TickMod - LongPress /\ LongPress \in Nat /\ TickMod \in Nat /\ gap \in Nat
  BY ButtonsAssumption
<1>2. now \in Tick /\ now \in 0..TickMod - 1 /\ pressTick[b] \in 0..TickMod - 1 /\ age[b] \in Nat
  BY <1>1 DEF HoldInv, ButtonType, Tick
<1>3. now' \in Tick /\ (now' = now + gap \/ now' = now + gap - TickMod)
  BY <1>1, <1>2, TickWraps DEF PollEffect
<1>4. CASE Presses(b)
  <2>1. b \in fresh'
    BY <1>4 DEF PollEffect
  <2>2. pressTick'[b] = now /\ age'[b] = gap
    BY <1>4 DEF PollEffect
  <2> QED BY <1>3, <2>1, <2>2 DEF Shows
<1>5. CASE ~Presses(b)
  <2>1. ~Releases(b)
    BY <1>5 DEF PollEffect, Releases
  <2>2. stable[b] /\ ~longFired[b] /\ ~Longs(b)
    BY <1>5, <2>1 DEF PollEffect, NextLongFired
  <2>3. ~IsFirst(b)
    BY <1>5, <2>1, <2>2 DEF Presses, Releases, Longs, IsFirst, Eventful
  <2>4. b \in fresh /\ (age[b] < LongPress => Shows(b))
    BY <1>5, <2>2 DEF HoldInv, PollEffect
  <2>5. b \in fresh'
    BY <2>3, <2>4 DEF PollEffect
  <2>6. pressTick'[b] = pressTick[b]
        /\ age'[b] = IF age[b] + gap < LongPress THEN age[b] + gap ELSE LongPress
    BY <1>5 DEF PollEffect
  <2>7. ASSUME age'[b] < LongPress PROVE Shows(b)'
    <3>1. age'[b] = age[b] + gap /\ age[b] < LongPress
      BY <1>1, <1>2, <2>6, <2>7
    <3>2. now = pressTick[b] + age[b] \/ now = pressTick[b] + age[b] - TickMod
      BY <2>4, <3>1 DEF Shows
    <3>3. now' = pressTick[b] + age[b] + gap \/ now' = pressTick[b] + age[b] + gap - TickMod
      <4>1. age[b] + gap < TickMod /\ pressTick[b] <= TickMod - 1 /\ 0 <= now' /\ now' \in Int
        BY <1>1, <1>2, <1>3, <2>6, <2>7, <3>1, ButtonsAssumption DEF Tick
      <4>2. pressTick[b] \in Int /\ age[b] \in Int /\ now \in Int
        BY <1>2
      <4> QED BY <1>1, <1>3, <3>2, <4>1, <4>2
    <3>4. pressTick'[b] \in Int /\ age'[b] \in Int /\ pressTick[b] \in Int /\ age[b] \in Int
          /\ TickMod \in Int /\ gap \in Int
      BY <1>1, <1>2, <2>6, <3>1
    <3>5. pressTick'[b] + age'[b] = pressTick[b] + age[b] + gap
      BY <2>6, <3>1, <3>4
    <3>6. now' = pressTick'[b] + age'[b] \/ now' = pressTick'[b] + age'[b] - TickMod
      BY <3>3, <3>4, <3>5
    <3> QED BY <3>6 DEF Shows
  <2> QED BY <2>5, <2>7
<1> QED BY <1>4, <1>5

LEMMA HoldStep ==
    ASSUME HoldInv, [ButtonsNext]_buttonVars
    PROVE  HoldInv'
<1>1. CASE Poll
  <2>1. PICK gap \in PollGaps : PollEffect(gap)
    BY <1>1, PollDoes
  <2>2. ButtonType'
    BY <2>1, PollType DEF HoldInv
  <2>3. Ids' = Ids
    BY DEF Ids
  <2> QED BY <2>1, <2>2, <2>3, PollHolds DEF HoldInv
<1>2. ASSUME NEW c \in Ids, Toggle(c) PROVE HoldInv'
  <2>1. raw' = [raw EXCEPT ![c] = ~@]
        /\ UNCHANGED <<stable, longFired, pressTick, now, age, fresh, booted>>
    BY <1>2 DEF Toggle
  <2>2. raw' \in [Ids -> BOOLEAN]
    BY <2>1 DEF HoldInv, ButtonType
  <2> QED BY <2>1, <2>2 DEF HoldInv, ButtonType, Shows, Ids, Tick
<1>3. CASE UNCHANGED buttonVars
  BY <1>3 DEF buttonVars, HoldInv, ButtonType, Shows, Ids, Tick
<1> QED BY <1>1, <1>2, <1>3 DEF ButtonsNext

\* A long press, the gesture that signs (main.c), is reported only after the
\* press was reported and has lasted for LONG_PRESS_MS, and once a press,
\* wherever the tick wraps and whatever other buttons do (buttons_poll).
THEOREM LongMeansHeldHolds == ButtonsSpec => LongMeansHeld
<1> DEFINE LongDue(b) == event'[b] = "LONG" /\ now' # now => b \in fresh /\ age[b] >= LongPress
<1>1. HoldInv /\ [ButtonsNext]_buttonVars => [\A b \in Ids \ booted : LongDue(b)]_buttonVars
  <2>1. SUFFICES ASSUME HoldInv, [ButtonsNext]_buttonVars, NEW b \in Ids \ booted,
                        event'[b] = "LONG", now' # now
                 PROVE  b \in fresh /\ age[b] >= LongPress
    OBVIOUS
  <2>2. Poll
    BY <2>1 DEF ButtonsNext, Toggle, buttonVars
  <2>3. PICK gap \in PollGaps : PollEffect(gap)
    BY <2>2, PollDoes
  <2>4. Longs(b)
    BY <2>1, <2>3 DEF PollEffect, NoEvent
  <2>5. stable[b] /\ ~longFired[b] /\ HeldFor(b) >= LongPress
    BY <2>4 DEF Longs, LongNow
  <2>6. b \in fresh /\ (age[b] < LongPress => Shows(b)) /\ age[b] \in Nat /\ LongPress \in Nat
    BY <2>1, <2>5, ButtonsAssumption DEF HoldInv, ButtonType
  <2>7. ~(age[b] < LongPress)
    <3>1. SUFFICES ASSUME age[b] < LongPress PROVE FALSE
      OBVIOUS
    <3>2. HeldFor(b) = age[b]
      BY <2>1, <2>6, <3>1, DifferenceShows
    <3> QED BY <2>5, <2>6, <3>1, <3>2
  <2> QED BY <2>6, <2>7
<1> QED BY <1>1, HoldInit, HoldStep, PTL DEF ButtonsSpec, LongMeansHeld

-----------------------------------------------------------------------------
(* The composition: what every side has proved of itself holds of all of   *)
(* them, whichever side a behaviour exercises.                             *)

LEMMA SidesAsThemselves ==
    EdgesSpec => FrameSpec /\ ApduSpec /\ PinEntrySpec /\ AteccSpec /\ ButtonsSpec
<1>1. EdgesInit => FrameInit /\ ApduInit /\ PinEntryInit /\ AteccInit /\ ButtonsInit
  BY DEF EdgesInit
<1>2. [EdgesNext]_edgeVars => [FrameNext]_frameVars
  BY DEF EdgesNext, HostStep, RequestStep, PollStep, FingerStep, WheelStep, ElementStep, edgeVars
<1>3. [EdgesNext]_edgeVars => [PinEntryNext]_pinEntryVars
  BY DEF EdgesNext, HostStep, RequestStep, PollStep, FingerStep, WheelStep, ElementStep, edgeVars
<1>4. [EdgesNext]_edgeVars => [AteccNext]_ateccVars
  BY DEF EdgesNext, HostStep, RequestStep, PollStep, FingerStep, WheelStep, ElementStep, edgeVars
<1>5. [EdgesNext]_edgeVars => [ButtonsNext]_buttonVars
  BY DEF EdgesNext, HostStep, RequestStep, PollStep, FingerStep, WheelStep, ElementStep, edgeVars, ButtonsNext
<1>6. [EdgesNext]_edgeVars => [ApduNext]_apduVars
  BY DEF EdgesNext, HostStep, RequestStep, PollStep, FingerStep, WheelStep, ElementStep, edgeVars
<1> QED BY <1>1, <1>2, <1>3, <1>4, <1>5, <1>6, PTL DEF EdgesSpec, FrameSpec, ApduSpec, PinEntrySpec, AteccSpec, ButtonsSpec

\* The firmware's edges, one beside the other: every buffer holds, every
\* request reaches the handler it should, every entry is the one dialled, every random buffer the one drawn, every long press a
\* long one, and the link delivers what was sent.
THEOREM EdgesHold ==
    EdgesSpec => []BuffersHold /\ []ApduAnswered /\ []PinAsDialled /\ []RandomAsDrawn /\ LongMeansHeld /\ TransportSpec
BY SidesAsThemselves, BuffersHoldAlways, ApduAnsweredHolds, PinAsDialledHolds, RandomAsDrawnHolds, LongMeansHeldHolds,
   TransportImplemented, PTL
=============================================================================

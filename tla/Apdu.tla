-------------------------------- MODULE Apdu --------------------------------
(***************************************************************************)
(* src/src/protocol/apdu.c byte by byte: the handlers that are registered, *)
(* the one that a complete APDU reaches, and the answer.  HidApp has the   *)
(* same dispatch by kinds of request.                                      *)
(***************************************************************************)
EXTENDS Integers, Sequences, FiniteSets

CONSTANTS
    MaxRoutes,      \* APDU_MAX_ROUTES: 8
    MaxResp,        \* resp_cap, APDU_MAX_RESP: 255
    Instructions,   \* that somebody registers a handler for
    Handlers,       \* handlers, external: they answer as they like
    Returns,        \* status words and data that handlers return: [sw, out]
    Requests        \* APDUs, as sequences of bytes

VARIABLES
    routes,         \* routes[0..n_routes - 1]: [ins, h]
    locked,
    registered,     \* history: instruction |-> its handler, for those with a place
    exchange        \* history: [apdu, called, returned, answer] of the last dispatch,
                    \* as long as nothing was registered, reset or locked since

apduVars == <<routes, locked, registered, exchange>>

ClaEth == 224           \* APDU_CLA_ETH, 0xE0
ClaOs == 176            \* 0xB0
GetConfigIns == 6

SwOk == 36864           \* 0x9000
SwDeviceLocked == 21781 \* 0x5515
SwWrongLength == 26368  \* 0x6700
SwInsBad == 27904       \* 0x6D00
SwClaBad == 28160       \* 0x6E00

\* The name and the version of the application.
AppName == <<1, 8, 69, 116, 104, 101, 114, 101, 117, 109, 6, 49, 46, 49, 48, 46, 50>>

ApduBytes == 0..255
StatusWords == 0..65535

\* A response has room for the longest answer that needs no handler.
ASSUME ApduAssumption ==
    /\ MaxRoutes \in Nat
    /\ MaxResp \in Nat /\ MaxResp >= Len(AppName) + 2
    /\ "none" \notin Handlers
    /\ Returns \subseteq [sw : StatusWords, out : Seq(ApduBytes)]
    /\ Requests \subseteq Seq(ApduBytes)

Nobody == [h |-> "none"]
NoReturn == [sw |-> 0, out |-> <<>>]
NoExchange == [apdu |-> <<>>, called |-> Nobody, returned |-> NoReturn, answer |-> <<>>]

-----------------------------------------------------------------------------
(* The table of handlers.                                                  *)

NewRoute(ins, h) == [ins |-> ins, h |-> h]

\* Fault: an instruction that has a handler gets one more entry.
RegisteredBehind(table, ins, h) ==
    IF Len(table) < MaxRoutes THEN Append(table, NewRoute(ins, h)) ELSE table

\* apdu_register: replaces, or appends while there is room.
Registered(table, ins, h) ==
    LET same == {i \in 1..Len(table) : table[i].ins = ins}
    IN IF same # {} THEN [i \in 1..Len(table) |-> IF i \in same THEN NewRoute(ins, h) ELSE table[i]]
       ELSE IF Len(table) < MaxRoutes THEN Append(table, NewRoute(ins, h))
       ELSE table

FindHandler(table, ins) ==
    LET found == {i \in 1..Len(table) : table[i].ins = ins}
    IN IF found = {} THEN "none" ELSE table[CHOOSE i \in found : \A j \in found : i <= j].h

Updated(map, ins, h) == [i \in DOMAIN map \cup {ins} |-> IF i = ins THEN h ELSE map[i]]

ApduReset ==
    /\ routes' = <<>> /\ locked' = FALSE
    /\ registered' = <<>> /\ exchange' = NoExchange

ApduRegister(ins, h) ==
    /\ routes' = Registered(routes, ins, h)
    /\ registered' = IF ins \in DOMAIN registered \/ Cardinality(DOMAIN registered) < MaxRoutes
                     THEN Updated(registered, ins, h) ELSE registered
    /\ exchange' = NoExchange
    /\ UNCHANGED locked

ApduSetLocked(l) ==
    /\ locked' = l /\ exchange' = NoExchange
    /\ UNCHANGED <<routes, registered>>

-----------------------------------------------------------------------------
(* A request.                                                              *)

\* Empty when there is no room.
Respond(data, sw) ==
    IF Len(data) + 2 > MaxResp THEN <<>> ELSE data \o <<sw \div 256, sw % 256>>

\* getAppNameAndVersion, closeApps, openApp
BolosCommands == {<<ClaOs, 1>>, <<ClaOs, 167>>, <<ClaEth, 216>>}

BolosDispatch(cla, ins) == Respond(IF <<cla, ins>> = <<ClaOs, 1>> THEN AppName ELSE <<>>, SwOk)

\* What is behind the header, and the length stated in it.
Data(apdu) == SubSeq(apdu, 6, Len(apdu))
Lc(apdu) == IF Len(apdu) >= 5 THEN apdu[5] ELSE 0
LengthWrong(apdu) == Len(apdu) < 4 \/ Len(Data(apdu)) # Lc(apdu)

ApduDispatch(apdu) ==
    LET cla == apdu[1]
        ins == apdu[2]
        h == FindHandler(routes, ins)
        Answer(bytes) == exchange' = [apdu |-> apdu, called |-> Nobody, returned |-> NoReturn, answer |-> bytes]
        Call(r) == exchange' = [apdu |-> apdu, returned |-> r, answer |-> Respond(r.out, r.sw),
                                called |-> [h |-> h, p1 |-> apdu[3], p2 |-> apdu[4], data |-> Data(apdu)]]
    IN /\ IF LengthWrong(apdu) THEN Answer(Respond(<<>>, SwWrongLength))
          ELSE IF <<cla, ins>> \in BolosCommands THEN Answer(BolosDispatch(cla, ins))
          ELSE IF cla # ClaEth THEN Answer(Respond(<<>>, SwClaBad))
          ELSE IF locked /\ ins # GetConfigIns THEN Answer(Respond(<<>>, SwDeviceLocked))
          ELSE IF h = "none" THEN Answer(Respond(<<>>, SwInsBad))
          ELSE \E r \in Returns : Call(r)
       /\ UNCHANGED <<routes, locked, registered>>

ApduInit ==
    /\ routes = <<>> /\ locked = FALSE
    /\ registered = <<>> /\ exchange = NoExchange

ApduNext ==
    \/ ApduReset
    \/ \E ins \in Instructions, h \in Handlers : ApduRegister(ins, h)
    \/ \E l \in BOOLEAN : ApduSetLocked(l)
    \/ \E apdu \in Requests : ApduDispatch(apdu)

ApduSpec == ApduInit /\ [][ApduNext]_apduVars

-----------------------------------------------------------------------------
(* Properties.                                                             *)

\* The header is whole and the length in it is the one that follows it.
Formed(apdu) == Len(apdu) >= 4 /\ (Len(apdu) = 4 \/ Len(apdu) = 5 + apdu[5])

\* The bytes a handler is given are all there are behind the header.
GivenWhole(call, apdu) ==
    /\ call.p1 = apdu[3] /\ call.p2 = apdu[4]
    /\ Len(call.data) = IF Len(apdu) = 4 THEN 0 ELSE apdu[5]
    /\ \A i \in 1..Len(call.data) : call.data[i] = apdu[5 + i]

\* Exactly the well-formed requests of the wallet whose instruction has a
\* handler reach one, while locked the configuration alone: the handler that was
\* registered last, however often and in whatever order others were, and it is
\* given the whole of the data and nothing behind it.  Its answer goes back as
\* it is, or not at all when its status has no room; a request that reaches
\* none is always answered, by nothing that depends on what is registered but
\* for the instruction that is unknown.
ApduAnswered ==
    exchange # NoExchange =>
        LET apdu == exchange.apdu
            call == exchange.called
            back == exchange.returned
            answer == exchange.answer
            Status(sw) == answer = <<sw \div 256, sw % 256>>
            command == <<apdu[1], apdu[2]>>
            reached == /\ Formed(apdu) /\ apdu[1] = ClaEth /\ command \notin BolosCommands
                       /\ apdu[2] \in DOMAIN registered
                       /\ locked => apdu[2] = GetConfigIns
        IN IF reached
           THEN /\ call.h = registered[apdu[2]]
                /\ GivenWhole(call, apdu)
                /\ answer = IF Len(back.out) > MaxResp - 2 THEN <<>>
                            ELSE back.out \o <<back.sw \div 256, back.sw % 256>>
           ELSE /\ call = Nobody
                /\ ~Formed(apdu) => Status(SwWrongLength)
                /\ Formed(apdu) =>
                     /\ command \in BolosCommands => Status(SwOk) \/ answer = AppName \o <<SwOk \div 256, SwOk % 256>>
                     /\ command \notin BolosCommands =>
                          \/ Status(SwClaBad) /\ apdu[1] # ClaEth
                          \/ Status(SwDeviceLocked) /\ locked
                          \/ Status(SwInsBad) /\ apdu[2] \notin DOMAIN registered
=============================================================================

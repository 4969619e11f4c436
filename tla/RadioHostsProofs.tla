-------------------------- MODULE RadioHostsProofs --------------------------
(***************************************************************************)
(* Proofs about RadioHosts, for every value of its constants.              *)
(***************************************************************************)
EXTENDS RadioHosts, RadioLinkProofs, Integers

USE PortsAssumption, DeviceAssumption, LibAssumption, AppAssumption

(***************************************************************************)
(* When one counter of a sum counts an event and wraps, the sum counts it  *)
(* modulo the width of the counters.                                       *)
(***************************************************************************)
LEMMA Tally ==
    ASSUME NEW s \in Nat, NEW t \in Nat, s % CounterMod = t % CounterMod,
           NEW x \in Counter, x <= s
    PROVE  /\ (s - x) + Bump(x) \in Nat
           /\ ((s - x) + Bump(x)) % CounterMod = (t + 1) % CounterMod
<1>1. x % CounterMod = x
  BY Remainder DEF Counter
<1>2. Bump(x) = IF x + 1 = CounterMod THEN 0 ELSE x + 1
  BY BumpValue
<1>3. (s + 1) % CounterMod = (t + 1) % CounterMod
  <2>1. (s + 1) % CounterMod = IF (s % CounterMod) + 1 = CounterMod THEN 0
                                                   ELSE (s % CounterMod) + 1
    BY OneMore
  <2>2. (t + 1) % CounterMod = IF (t % CounterMod) + 1 = CounterMod THEN 0
                                                   ELSE (t % CounterMod) + 1
    BY OneMore
  <2> QED
    BY <2>1, <2>2
<1>4. CASE x + 1 = CounterMod
  <2>1. (s - x) + Bump(x) = (s + 1) - CounterMod /\ s + 1 >= CounterMod /\ s + 1 \in Nat
    BY <1>2, <1>4 DEF Counter
  <2>2. ((s + 1) - CounterMod) % CounterMod = (s + 1) % CounterMod
    BY <2>1, LessM
  <2>3. (s + 1) - CounterMod \in Nat
    BY <2>1
  <2> QED
    BY <1>3, <2>1, <2>2, <2>3
<1>5. CASE x + 1 # CounterMod
  <2>1. (s - x) + Bump(x) = s + 1
    BY <1>2, <1>5 DEF Counter
  <2> QED
    BY <1>3, <2>1
<1> QED
  BY <1>4, <1>5

-----------------------------------------------------------------------------
(***************************************************************************)
(* Type correctness, program by program.                                   *)
(***************************************************************************)

\* A datagram sent to the device leaves the ports well-typed.
LEMMA SendPorts ==
    ASSUME PortsTypeOK, NEW m \in Datagram, radioRx' \in Arrivals(radioRx, m),
           UNCHANGED <<fswRx, strays>>
    PROVE  PortsTypeOK'
<1>1. radioRx' \in Seq(Datagram) /\ Len(radioRx') <= RxCap
  BY ArrivalsType DEF PortsTypeOK
<1> QED
  BY <1>1 DEF PortsTypeOK

\* So does a configuration.
LEMMA ConfigPorts ==
    ASSUME PortsTypeOK, NEW w \in ConfigWords, radioRx' \in Arrivals(radioRx, SetConfig(w)),
           UNCHANGED <<fswRx, strays>>
    PROVE  PortsTypeOK'
<1>1. SetConfig(w) \in Datagram
  BY SetConfigType
<1> QED
  BY <1>1, SendPorts

\* Taking a command keeps the two histories in their ranges.
LEMMA BeginType ==
    ASSUME CallTypeOK, NEW d \in BOOLEAN, Begin(d)
    PROVE  given' \in 0..MaxCommands /\ finished' \in 0..given'
BY DEF CallTypeOK, Begin

\* A command served without a call keeps the call's variables well-typed.
LEMMA ServedType == CallTypeOK /\ Begin(TRUE) /\ NoCall => CallTypeOK'
<1> SUFFICES ASSUME CallTypeOK, Begin(TRUE), NoCall PROVE CallTypeOK'
  OBVIOUS
<1>1. given' \in 0..MaxCommands /\ finished' \in 0..given'
  BY BeginType
<1> QED
  BY <1>1 DEF CallTypeOK, NoCall

\* The end of a call keeps the variables it sets well-typed.
LEMMA ReturnType ==
    ASSUME CallTypeOK, Return
    PROVE  /\ given' \in 0..MaxCommands /\ finished' \in 0..given'
           /\ calling' \in BOOLEAN /\ asked' \in Nat /\ returned' \in Nat
<1>1. given' \in 0..MaxCommands /\ finished' \in 0..given'
  BY DEF CallTypeOK, Return
<1>2. calling' \in BOOLEAN
  <2>1. calling' = FALSE
    BY Zenon DEF Return
  <2> QED
    BY <2>1
<1>3. asked \in Nat /\ returned \in Nat
  BY Zenon DEF CallTypeOK
<1>4. asked' = asked /\ returned' = returned + 1
  BY Zenon DEF Return
<1> QED
  BY <1>1, <1>2, <1>3, <1>4

\* A call keeps them and the ports well-typed.
LEMMA CallTypes ==
    ASSUME PortsTypeOK, CallTypeOK, RequestSend \/ RequestHit \/ RequestMiss
    PROVE  PortsTypeOK' /\ CallTypeOK'
<1>1. CASE RequestSend
  <2>1. given' \in 0..MaxCommands /\ finished' \in 0..given'
    BY <1>1, BeginType DEF RequestSend
  <2>2. asked + 1 \in Nat
    BY DEF CallTypeOK
  <2>3. HkRequest(asked + 1) \in Datagram
    BY <2>2, HkRequestType
  <2>4. PortsTypeOK'
    BY <1>1, <2>3, SendPorts DEF RequestSend
  <2> QED
    BY <1>1, <2>1, <2>2, <2>4 DEF RequestSend, CallTypeOK
<1>2. CASE RequestHit
  <2>1. Tail(fswRx) \in Seq(Datagram) /\ Len(Tail(fswRx)) <= RxCap /\ Head(fswRx) \in Datagram
    BY <1>2, TailType DEF RequestHit, PortsTypeOK
  <2>2. PortsTypeOK'
    BY <1>2, <2>1 DEF RequestHit, Return, PortsTypeOK
  <2> QED
    BY <1>2, <2>1, <2>2, ReturnType DEF RequestHit, CallTypeOK
<1>3. CASE RequestMiss
  <2>1. fswRx' \in Seq(Datagram) /\ Len(fswRx') <= RxCap
    BY <1>3, TailType DEF RequestMiss, PortsTypeOK
  <2>2. PortsTypeOK'
    BY <1>3, <2>1 DEF RequestMiss, Return, PortsTypeOK
  <2> QED
    BY <1>3, <2>2, ReturnType DEF RequestMiss, CallTypeOK
<1> QED
  BY <1>1, <1>2, <1>3

\* The counters of the component.
FpNames == {"CommandCount", "CommandErrorCount", "DeviceCount", "DeviceErrorCount"}
FpCounts == [FpNames -> Counter]

\* They start well-typed, and stay so when one or two of them count.
LEMMA FpCountsType ==
    /\ NoCounts \in FpCounts
    /\ \A p \in FpCounts :
          /\ p.CommandCount \in Counter /\ p.DeviceCount \in Counter
          /\ p.DeviceErrorCount \in Counter
          /\ \A a, b \in Counter :
                /\ [p EXCEPT !.CommandCount = a] \in FpCounts
                /\ [p EXCEPT !.CommandCount = a, !.DeviceCount = b] \in FpCounts
                /\ [p EXCEPT !.CommandCount = a, !.DeviceErrorCount = b] \in FpCounts
<1>1. 0 \in Counter
  BY DEF Counter
<1>2. NoCounts \in FpCounts
  BY <1>1 DEF FpCounts, FpNames, NoCounts
<1> QED
  BY <1>2 DEF FpCounts, FpNames

\* The members of HkTelemetryPkt are those of a reset packet.
LEMMA FpDomain == [DOMAIN NoCounts -> 0..CounterMod - 1] = FpCounts
<1>1. DOMAIN NoCounts = FpNames
  BY DEF NoCounts, FpNames
<1> QED
  BY <1>1 DEF FpCounts, Counter

\* A command of the component keeps everything it can reach well-typed.
LEMMA FprimeTypes ==
    ASSUME PortsTypeOK, CallTypeOK, FprimeTypeOK, FpCommand \/ FpReport
    PROVE  PortsTypeOK' /\ CallTypeOK' /\ FprimeTypeOK'
<1>1. /\ pkt \in FpCounts /\ noops \in Nat /\ configs \in Nat
      /\ channel \in [counts : FpCounts, device : Datagram]
  BY FpDomain DEF FprimeTypeOK
<1>2. SUFFICES /\ PortsTypeOK' /\ CallTypeOK'
               /\ pkt' \in FpCounts /\ noops' \in Nat /\ configs' \in Nat
               /\ channel' \in [counts : FpCounts, device : Datagram]
  BY FpDomain DEF FprimeTypeOK
<1>3. Bump(pkt.CommandCount) \in Counter /\ Bump(pkt.DeviceCount) \in Counter
      /\ Bump(pkt.DeviceErrorCount) \in Counter
  BY <1>1, BumpType, FpCountsType
<1>4. \A c \in Counter : [channel EXCEPT !.counts.CommandCount = c]
                             \in [counts : FpCounts, device : Datagram]
  BY <1>1 DEF FpCounts, FpNames
<1>5. CASE FpNoop
  <2>1. PortsTypeOK'
    BY <1>5 DEF FpNoop, portVars, PortsTypeOK
  <2>2. CallTypeOK'
    BY <1>5, ServedType DEF FpNoop
  <2>3. pkt' \in FpCounts
    BY <1>1, <1>3, <1>5, FpCountsType DEF FpNoop
  <2>4. channel' \in [counts : FpCounts, device : Datagram]
    BY <1>4, <1>5, <2>3, FpCountsType DEF FpNoop
  <2> QED
    BY <1>1, <1>5, <2>1, <2>2, <2>3, <2>4 DEF FpNoop
<1>6. CASE FpConfig
  <2>1. PortsTypeOK'
    BY <1>6, ConfigPorts DEF FpConfig, PortsTypeOK
  <2>2. CallTypeOK'
    BY <1>6, ServedType DEF FpConfig
  <2>3. pkt' \in FpCounts
    <3>1. \/ pkt' = [pkt EXCEPT !.CommandCount = Bump(@), !.DeviceCount = Bump(@)]
          \/ pkt' = [pkt EXCEPT !.CommandCount = Bump(@), !.DeviceErrorCount = Bump(@)]
      BY <1>6, Zenon DEF FpConfig
    <3>2. /\ [pkt EXCEPT !.CommandCount = Bump(@), !.DeviceCount = Bump(@)]
               = [pkt EXCEPT !.CommandCount = Bump(pkt.CommandCount),
                             !.DeviceCount = Bump(pkt.DeviceCount)]
          /\ [pkt EXCEPT !.CommandCount = Bump(@), !.DeviceErrorCount = Bump(@)]
               = [pkt EXCEPT !.CommandCount = Bump(pkt.CommandCount),
                             !.DeviceErrorCount = Bump(pkt.DeviceErrorCount)]
      BY <1>1 DEF FpCounts, FpNames
    <3>3. /\ [pkt EXCEPT !.CommandCount = Bump(pkt.CommandCount),
                         !.DeviceCount = Bump(pkt.DeviceCount)] \in FpCounts
          /\ [pkt EXCEPT !.CommandCount = Bump(pkt.CommandCount),
                         !.DeviceErrorCount = Bump(pkt.DeviceErrorCount)] \in FpCounts
      BY <1>1, <1>3, FpCountsType
    <3> QED
      BY <3>1, <3>2, <3>3
  <2> QED
    BY <1>1, <1>6, <2>1, <2>2, <2>3 DEF FpConfig
<1>7. CASE FpReset
  <2>1. PortsTypeOK'
    BY <1>7 DEF FpReset, portVars, PortsTypeOK
  <2>2. CallTypeOK'
    BY <1>7, ServedType DEF FpReset
  <2>3. pkt' \in FpCounts
    BY <1>7, FpCountsType DEF FpReset
  <2>4. channel' \in [counts : FpCounts, device : Datagram]
    BY <1>1, <1>7, FpCountsType DEF FpReset
  <2> QED
    BY <1>7, <2>1, <2>2, <2>3, <2>4 DEF FpReset
<1>8. CASE FpRequest
  BY <1>1, <1>8, CallTypes DEF FpRequest, fprimeVars
<1>9. CASE FpReport
  <2>1. PortsTypeOK' /\ CallTypeOK'
    BY <1>9, CallTypes DEF FpReport
  <2>2. radioHK' \in Datagram
    BY <2>1 DEF CallTypeOK
  <2>3. channel' \in [counts : FpCounts, device : Datagram]
    BY <1>1, <1>9, <2>2 DEF FpReport
  <2> QED
    BY <1>1, <1>9, <2>1, <2>3 DEF FpReport
<1> QED
  BY <1>5, <1>6, <1>7, <1>8, <1>9 DEF FpCommand

\* So does a step of the checkout program.
LEMMA CheckoutTypes ==
    ASSUME PortsTypeOK, CallTypeOK, CheckoutTypeOK,
           CkCreate \/ CkLine \/ CkReport \/ CkEnd \/ CkClose
    PROVE  PortsTypeOK' /\ CallTypeOK' /\ CheckoutTypeOK'
<1>0. callVars' = callVars => (CallTypeOK' <=> CallTypeOK)
  BY DEF callVars, CallTypeOK
<1>1. portVars' = portVars => (PortsTypeOK' <=> PortsTypeOK)
  BY DEF portVars, PortsTypeOK
<1>2. CASE CkCreate
  BY <1>0, <1>1, <1>2 DEF CkCreate, CheckoutTypeOK
<1>3. CASE CkLine
  <2>1. PICK l \in Input :
          /\ inputBuf' = l
          /\ cfgTyped' = IF ~ended /\ l.cc = "cfg" /\ l.args = 1 THEN cfgTyped + 1
                                                                  ELSE cfgTyped
          /\ \/ Settle(l)
             \/ l.cc = "hk" /\ l.args = 0 /\ RequestSend /\ UNCHANGED <<where, cfgSent>>
    BY <1>3 DEF CkLine
  <2>2. l \in Line
    BY DEF Input, Rest, Line, CheckoutTypeOK
  <2>3. cfgTyped' \in Nat /\ ended' = ended /\ sock' = sock
    BY <1>3, <2>1 DEF CkLine, CheckoutTypeOK
  <2>4. CASE Settle(l)
    <3>1. CallTypeOK'
      BY <2>4, ServedType DEF Settle
    <3>2. PortsTypeOK'
      BY <2>4, <1>1, ConfigPorts DEF Settle, PortsTypeOK
    <3>3. where' \in {where, "closing"} /\ cfgSent' \in {cfgSent, cfgSent + 1}
      BY <2>4 DEF Settle
    <3> QED
      BY <2>1, <2>2, <2>3, <3>1, <3>2, <3>3 DEF CheckoutTypeOK
  <2>5. CASE RequestSend /\ UNCHANGED <<where, cfgSent>>
    <3>1. PortsTypeOK' /\ CallTypeOK'
      BY <2>5, CallTypes
    <3> QED
      BY <2>1, <2>2, <2>3, <2>5, <3>1 DEF CheckoutTypeOK
  <2> QED
    BY <2>1, <2>4, <2>5
<1>4. CASE CkReport
  BY <1>4, CallTypes DEF CkReport, checkoutVars, CheckoutTypeOK
<1>5. CASE CkEnd
  BY <1>0, <1>1, <1>5 DEF CkEnd, CheckoutTypeOK
<1>6. CASE CkClose
  <2>1. sock' \in [{"radio", "prox"} -> {"ok", "broken", "none"}]
    BY <1>6 DEF CkClose, CheckoutTypeOK
  <2> QED
    BY <1>0, <1>1, <1>6, <2>1 DEF CkClose, CheckoutTypeOK
<1> QED
  BY <1>2, <1>3, <1>4, <1>5, <1>6

\* A step of the device or of the cFS application is a step of RadioLink.
LEMMA LinkSteps ==
    DeviceSide \/ CfsRuns \/ CfsCommanded => Next /\ UNCHANGED <<programVars, host>>
BY DEF DeviceSide, CfsRuns, CfsCommanded, Next

\* A step of the component leaves the other programs and the device alone.
LEMMA FprimeSteps ==
    FprimeCommanded \/ FprimeReports =>
        (FpCommand \/ FpReport) /\ UNCHANGED checkoutVars /\ Others
BY DEF FprimeCommanded, FprimeReports

\* So does a step of the checkout program.
LEMMA CheckoutSteps ==
    CheckoutTyped \/ CheckoutInputEnds \/ CheckoutRuns =>
        (CkCreate \/ CkLine \/ CkReport \/ CkEnd \/ CkClose) /\ UNCHANGED fprimeVars /\ Others
BY DEF CheckoutTyped, CheckoutInputEnds, CheckoutRuns

\* Every program starts well-typed.
LEMMA HostsInitTypes == HostsInit => HostsTypeOK
<1> SUFFICES ASSUME HostsInit PROVE HostsTypeOK
  OBVIOUS
<1>1. TypeOK
  BY InitTypeOK DEF HostsInit
<1>2. Uninitialised \in Datagram
  BY NoAnswerType DEF Uninitialised, Datagram
<1>3. CallTypeOK /\ host \in {"cfs", "fprime", "checkout"}
  <2>1. PICK s \in Datagram : CallInit(s)
    BY <1>2, NoAnswerType DEF HostsInit
  <2>2. calling \in BOOLEAN
    BY <2>1, Zenon DEF CallInit
  <2>3. host \in {"cfs", "fprime", "checkout"}
    BY DEF HostsInit
  <2> QED
    BY <2>1, <2>2, <2>3 DEF CallInit, CallTypeOK
<1>4. FprimeTypeOK
  BY FpCountsType, FpDomain, NoAnswerType DEF HostsInit, FprimeInit, FprimeTypeOK
<1>5. CheckoutTypeOK
  <2>1. ended \in BOOLEAN
    BY Zenon DEF HostsInit, CheckoutInit
  <2>2. inputBuf \in Line /\ sock \in [{"radio", "prox"} -> {"ok", "broken", "none"}]
    BY DEF HostsInit, CheckoutInit, Line
  <2> QED
    BY <2>1, <2>2 DEF HostsInit, CheckoutInit, CheckoutTypeOK
<1> QED
  BY <1>1, <1>3, <1>4, <1>5 DEF HostsTypeOK

\* And stays so.
LEMMA HostsNextTypes == HostsTypeOK /\ [HostsNext]_hostsVars => HostsTypeOK'
<1> SUFFICES ASSUME HostsTypeOK, [HostsNext]_hostsVars PROVE HostsTypeOK'
  OBVIOUS
<1>0. TypeOK /\ CallTypeOK /\ FprimeTypeOK /\ CheckoutTypeOK
      /\ host \in {"cfs", "fprime", "checkout"}
  BY DEF HostsTypeOK
<1>a. UNCHANGED callVars => CallTypeOK'
  BY <1>0 DEF callVars, CallTypeOK
<1>b. UNCHANGED fprimeVars => FprimeTypeOK'
  BY <1>0 DEF fprimeVars, FprimeTypeOK
<1>c. UNCHANGED checkoutVars => CheckoutTypeOK'
  BY <1>0 DEF checkoutVars, CheckoutTypeOK
<1>d. Others /\ PortsTypeOK' => TypeOK'
  BY <1>0 DEF Others, devVars, appVars, TypeOK, DeviceTypeOK, AppTypeOK
<1>1. CASE DeviceSide \/ CfsRuns \/ CfsCommanded
  <2>1. Next /\ UNCHANGED <<programVars, host>>
    BY <1>1, LinkSteps
  <2>2. TypeOK'
    BY <1>0, <2>1, NextTypeOK
  <2> QED
    BY <1>0, <1>a, <1>b, <1>c, <2>1, <2>2 DEF HostsTypeOK, programVars
<1>2. CASE FprimeCommanded \/ FprimeReports
  <2>1. (FpCommand \/ FpReport) /\ UNCHANGED checkoutVars /\ Others
    BY <1>2, FprimeSteps
  <2>2. PortsTypeOK' /\ CallTypeOK' /\ FprimeTypeOK'
    BY <1>0, <2>1, FprimeTypes DEF TypeOK
  <2>3. host' = host
    BY <2>1 DEF Others
  <2> QED
    BY <1>0, <1>c, <1>d, <2>1, <2>2, <2>3 DEF HostsTypeOK
<1>3. CASE CheckoutTyped \/ CheckoutInputEnds \/ CheckoutRuns
  <2>1. (CkCreate \/ CkLine \/ CkReport \/ CkEnd \/ CkClose)
        /\ UNCHANGED fprimeVars /\ Others
    BY <1>3, CheckoutSteps
  <2>2. PortsTypeOK' /\ CallTypeOK' /\ CheckoutTypeOK'
    BY <1>0, <2>1, CheckoutTypes DEF TypeOK
  <2>3. host' = host
    BY <2>1 DEF Others
  <2> QED
    BY <1>0, <1>b, <1>d, <2>1, <2>2, <2>3 DEF HostsTypeOK
<1>4. CASE UNCHANGED hostsVars
  <2>1. UNCHANGED vars /\ UNCHANGED <<programVars, host>>
    BY <1>4 DEF hostsVars
  <2>2. TypeOK'
    BY <1>0, <2>1, NextTypeOK
  <2> QED
    BY <1>0, <1>a, <1>b, <1>c, <2>1, <2>2 DEF HostsTypeOK, programVars
<1> QED
  BY <1>1, <1>2, <1>3, <1>4 DEF HostsNext

(***************************************************************************)
(* Every variable of the device and of the three programs keeps its type,  *)
(* whichever of the programs drives the device.                            *)
(***************************************************************************)
THEOREM HostsTypes == HostsSpec => []HostsTypeOK
<1>1. HostsInit => HostsTypeOK
  BY HostsInitTypes
<1>2. HostsTypeOK /\ [HostsNext]_hostsVars => HostsTypeOK'
  BY HostsNextTypes
<1> QED
  BY <1>1, <1>2, PTL DEF HostsSpec

-----------------------------------------------------------------------------
(***************************************************************************)
(* What the three programs count and keep.                                 *)
(***************************************************************************)

\* The housekeeping packet's four command counters, added up.
CommandSum == hk.CommandCount + hk.CommandErrorCount + hk.ForwardCount + hk.ForwardErrorCount
CommandTally == CommandSum % CounterMod = taken % CounterMod

\* A step of the main task that counts one command, or none, or starts afresh.
LEMMA MainCounts ==
    ASSUME TypeOK, CommandTally, MainTask
    PROVE  CommandTally'
<1>1. hk \in HkPacket /\ taken \in Nat
  BY DEF TypeOK, AppTypeOK
<1>2. /\ hk.CommandCount \in Counter /\ hk.CommandErrorCount \in Counter
      /\ hk.ForwardCount \in Counter /\ hk.ForwardErrorCount \in Counter
  BY <1>1, PacketFields
<1>3. /\ hk.CommandCount \in Nat /\ hk.CommandErrorCount \in Nat
      /\ hk.ForwardCount \in Nat /\ hk.ForwardErrorCount \in Nat
  BY <1>2 DEF Counter
<1>4. CommandSum \in Nat
  BY <1>3 DEF CommandSum
<1>5. \A x \in Counter : x <= CommandSum =>
          ((CommandSum - x) + Bump(x)) % CounterMod = (taken + 1) % CounterMod
  BY <1>1, <1>4, Tally DEF CommandTally
<1>6. /\ hk.CommandCount <= CommandSum /\ hk.CommandErrorCount <= CommandSum
      /\ hk.ForwardCount <= CommandSum /\ hk.ForwardErrorCount <= CommandSum
  BY <1>3 DEF CommandSum
<1>7. /\ Bump(hk.CommandCount) \in Nat /\ Bump(hk.CommandErrorCount) \in Nat
      /\ Bump(hk.ForwardCount) \in Nat /\ Bump(hk.ForwardErrorCount) \in Nat
  BY <1>2, BumpType DEF Counter
<1>8. CASE /\ taken' = taken + 1
           /\ \E x \in {hk.CommandCount, hk.CommandErrorCount, hk.ForwardCount,
                        hk.ForwardErrorCount} :
                 CommandSum' = (CommandSum - x) + Bump(x)
  BY <1>2, <1>5, <1>6, <1>8 DEF CommandTally
<1>9. ASSUME NEW c \in Counter, taken' = taken + 1,
             \/ hk' = [hk EXCEPT !.CommandCount = Bump(@)]
             \/ hk' = [hk EXCEPT !.CommandErrorCount = Bump(@)]
             \/ hk' = [hk EXCEPT !.ForwardCount = Bump(@)]
             \/ hk' = [hk EXCEPT !.ForwardErrorCount = Bump(@)]
             \/ hk' = [hk EXCEPT !.CommandCount = Bump(@), !.DeviceErrorCount = Bump(@)]
             \/ hk' = [hk EXCEPT !.CommandCount = Bump(@), !.DeviceCounter = (@ + 1) % CountMod]
      PROVE  CommandTally'
  <2>1. CASE \/ hk' = [hk EXCEPT !.CommandCount = Bump(@)]
             \/ hk' = [hk EXCEPT !.CommandCount = Bump(@), !.DeviceErrorCount = Bump(@)]
             \/ hk' = [hk EXCEPT !.CommandCount = Bump(@), !.DeviceCounter = (@ + 1) % CountMod]
    <3>1. /\ hk'.CommandCount = Bump(hk.CommandCount)
          /\ hk'.CommandErrorCount = hk.CommandErrorCount
          /\ hk'.ForwardCount = hk.ForwardCount
          /\ hk'.ForwardErrorCount = hk.ForwardErrorCount
      BY <1>1, <2>1 DEF HkPacket
    <3>2. CommandSum' = (CommandSum - hk.CommandCount) + Bump(hk.CommandCount)
      BY <1>3, <1>7, <3>1 DEF CommandSum
    <3> QED
      BY <1>8, <1>9, <3>2
  <2>2. CASE hk' = [hk EXCEPT !.CommandErrorCount = Bump(@)]
    <3>1. /\ hk'.CommandErrorCount = Bump(hk.CommandErrorCount)
          /\ hk'.CommandCount = hk.CommandCount
          /\ hk'.ForwardCount = hk.ForwardCount
          /\ hk'.ForwardErrorCount = hk.ForwardErrorCount
      BY <1>1, <2>2 DEF HkPacket
    <3>2. CommandSum' = (CommandSum - hk.CommandErrorCount) + Bump(hk.CommandErrorCount)
      BY <1>3, <1>7, <3>1 DEF CommandSum
    <3> QED
      BY <1>8, <1>9, <3>2
  <2>3. CASE hk' = [hk EXCEPT !.ForwardCount = Bump(@)]
    <3>1. /\ hk'.ForwardCount = Bump(hk.ForwardCount)
          /\ hk'.CommandCount = hk.CommandCount
          /\ hk'.CommandErrorCount = hk.CommandErrorCount
          /\ hk'.ForwardErrorCount = hk.ForwardErrorCount
      BY <1>1, <2>3 DEF HkPacket
    <3>2. CommandSum' = (CommandSum - hk.ForwardCount) + Bump(hk.ForwardCount)
      BY <1>3, <1>7, <3>1 DEF CommandSum
    <3> QED
      BY <1>8, <1>9, <3>2
  <2>4. CASE hk' = [hk EXCEPT !.ForwardErrorCount = Bump(@)]
    <3>1. /\ hk'.ForwardErrorCount = Bump(hk.ForwardErrorCount)
          /\ hk'.CommandCount = hk.CommandCount
          /\ hk'.CommandErrorCount = hk.CommandErrorCount
          /\ hk'.ForwardCount = hk.ForwardCount
      BY <1>1, <2>4 DEF HkPacket
    <3>2. CommandSum' = (CommandSum - hk.ForwardErrorCount) + Bump(hk.ForwardErrorCount)
      BY <1>3, <1>7, <3>1 DEF CommandSum
    <3> QED
      BY <1>8, <1>9, <3>2
  <2> QED
    BY <1>9, <2>1, <2>2, <2>3, <2>4
<1>10. CASE Noop \/ Invalid \/ ConfigSent \/ ConfigNotSent \/ Proximity
  BY <1>2, <1>9, <1>10, Zenon DEF Noop, Invalid, ConfigSent, ConfigNotSent, Proximity
<1>11. CASE Reset
  BY <1>11 DEF Reset, ResetCounters, CommandTally, CommandSum
<1>12. CASE HkSend
  BY <1>12 DEF HkSend, CommandTally, CommandSum
<1>13. CASE HkHit \/ HkMiss
  <2>1. /\ hk'.CommandCount = hk.CommandCount
        /\ hk'.CommandErrorCount = hk.CommandErrorCount
        /\ hk'.ForwardCount = hk.ForwardCount
        /\ hk'.ForwardErrorCount = hk.ForwardErrorCount
    BY <1>1, <1>13 DEF HkHit, HkMiss, HkPacket
  <2> QED
    BY <1>13, <2>1 DEF HkHit, HkMiss, CommandTally, CommandSum
<1> QED
  BY <1>10, <1>11, <1>12, <1>13 DEF MainTask

\* The packet is the main task's alone: every other step leaves it as it is.
LEMMA PacketFrame ==
    ASSUME [HostsNext]_hostsVars, ~CfsRuns
    PROVE  hk' = hk /\ taken' = taken
<1>1. CASE DeviceSide
  BY <1>1 DEF DeviceSide, RunStep, CallbackStep, NetworkStep, DeviceFrame, appVars
<1>2. CASE CfsCommanded
  BY <1>2 DEF CfsCommanded, GroundStep, SendCommand
<1>3. CASE FprimeCommanded \/ FprimeReports
  BY <1>3, FprimeSteps DEF Others, appVars
<1>4. CASE CheckoutTyped \/ CheckoutInputEnds \/ CheckoutRuns
  BY <1>4, CheckoutSteps DEF Others, appVars
<1>5. CASE UNCHANGED hostsVars
  BY <1>5 DEF hostsVars, vars, appVars
<1> QED
  BY <1>1, <1>2, <1>3, <1>4, <1>5 DEF HostsNext

(***************************************************************************)
(* The cFS application counts every ground command exactly once, for any   *)
(* number of commands and any width of the counters, wrap included.        *)
(***************************************************************************)
THEOREM CommandsCounted == HostsSpec => []CommandsAccounted
<1>1. CommandTally => CommandsAccounted
  BY DEF CommandTally, CommandSum, CommandsAccounted
<1>2. HostsInit => CommandTally
  BY DEF HostsInit, Init, AppInit, ResetCounters, CommandTally, CommandSum
<1>3. HostsTypeOK /\ CommandTally /\ [HostsNext]_hostsVars => CommandTally'
  <2> SUFFICES ASSUME HostsTypeOK, CommandTally, [HostsNext]_hostsVars PROVE CommandTally'
    OBVIOUS
  <2>1. CASE CfsRuns
    BY <2>1, MainCounts DEF CfsRuns, MainStep, HostsTypeOK
  <2>2. CASE ~CfsRuns
    BY <2>2, PacketFrame DEF CommandTally, CommandSum
  <2> QED
    BY <2>1, <2>2
<1> QED
  BY <1>1, <1>2, <1>3, HostsTypes, PTL DEF HostsSpec

\* A command of the component that is not RESET_COUNTERS counts once, or once in each total.
LEMMA FprimeCounts ==
    ASSUME HostsTypeOK, FprimeAccounted, FpCommand \/ FpReport
    PROVE  FprimeAccounted'
<1>1. pkt \in FpCounts /\ noops \in Nat /\ configs \in Nat
  BY FpDomain DEF HostsTypeOK, FprimeTypeOK
<1>2. /\ pkt.CommandCount \in Counter /\ pkt.DeviceCount \in Counter
      /\ pkt.DeviceErrorCount \in Counter
  BY <1>1, FpCountsType
<1>3. /\ pkt.CommandCount \in Nat /\ pkt.DeviceCount \in Nat /\ pkt.DeviceErrorCount \in Nat
  BY <1>2 DEF Counter
<1>4. pkt.CommandCount % CounterMod = pkt.CommandCount
  <2>1. pkt.CommandCount = (CounterMod * 0) + pkt.CommandCount
    BY <1>3
  <2> QED
    BY <1>2, <1>3, <2>1, Remainder DEF Counter
<1>5. Bump(pkt.CommandCount) = ((noops + configs) + 1) % CounterMod
  <2>1. pkt.CommandCount % CounterMod = (noops + configs) % CounterMod
    BY <1>4 DEF FprimeAccounted
  <2>2. (pkt.CommandCount + 1) % CounterMod = ((noops + configs) + 1) % CounterMod
    <3>1. noops + configs \in Nat /\ CounterMod \in Nat \ {0}
      BY <1>1
    <3>2. (pkt.CommandCount + 1) % CounterMod
            = IF (pkt.CommandCount % CounterMod) + 1 = CounterMod THEN 0
                                             ELSE (pkt.CommandCount % CounterMod) + 1
      BY <1>3, <3>1, OneMore
    <3>3. ((noops + configs) + 1) % CounterMod
            = IF ((noops + configs) % CounterMod) + 1 = CounterMod THEN 0
                                             ELSE ((noops + configs) % CounterMod) + 1
      BY <3>1, OneMore
    <3> QED
      BY <2>1, <3>2, <3>3
  <2> QED
    BY <2>2 DEF Bump
<1>6. \A x \in {pkt.DeviceCount, pkt.DeviceErrorCount} :
          (((pkt.DeviceCount + pkt.DeviceErrorCount) - x) + Bump(x)) % CounterMod
              = (configs + 1) % CounterMod
  <2>1. pkt.DeviceCount + pkt.DeviceErrorCount \in Nat
    BY <1>3
  <2>2. /\ pkt.DeviceCount <= pkt.DeviceCount + pkt.DeviceErrorCount
        /\ pkt.DeviceErrorCount <= pkt.DeviceCount + pkt.DeviceErrorCount
    BY <1>3
  <2>3. (pkt.DeviceCount + pkt.DeviceErrorCount) % CounterMod = configs % CounterMod
    BY DEF FprimeAccounted
  <2>4. \A x \in Counter : x <= pkt.DeviceCount + pkt.DeviceErrorCount =>
            (((pkt.DeviceCount + pkt.DeviceErrorCount) - x) + Bump(x)) % CounterMod
                = (configs + 1) % CounterMod
    BY <1>1, <2>1, <2>3, Tally
  <2> QED
    BY <1>2, <2>2, <2>4
<1>7. Bump(pkt.DeviceCount) \in Nat /\ Bump(pkt.DeviceErrorCount) \in Nat
  BY <1>2, BumpType DEF Counter
<1>8. CASE FpNoop
  <2>1. /\ pkt'.CommandCount = Bump(pkt.CommandCount) /\ pkt'.DeviceCount = pkt.DeviceCount
        /\ pkt'.DeviceErrorCount = pkt.DeviceErrorCount
    BY <1>1, <1>8 DEF FpNoop, FpCounts, FpNames
  <2>2. noops' + configs' = (noops + configs) + 1 /\ configs' = configs
    BY <1>1, <1>8 DEF FpNoop
  <2> QED
    BY <1>5, <2>1, <2>2 DEF FprimeAccounted
<1>9. CASE FpConfig
  <2>1. noops' + configs' = (noops + configs) + 1 /\ configs' = configs + 1
    BY <1>1, <1>9 DEF FpConfig
  <2>2. CASE pkt' = [pkt EXCEPT !.CommandCount = Bump(@), !.DeviceCount = Bump(@)]
    <3>1. /\ pkt'.CommandCount = Bump(pkt.CommandCount)
          /\ pkt'.DeviceCount = Bump(pkt.DeviceCount)
          /\ pkt'.DeviceErrorCount = pkt.DeviceErrorCount
      BY <1>1, <2>2 DEF FpCounts, FpNames
    <3>2. pkt'.DeviceCount + pkt'.DeviceErrorCount
            = ((pkt.DeviceCount + pkt.DeviceErrorCount) - pkt.DeviceCount)
                + Bump(pkt.DeviceCount)
      BY <1>3, <1>7, <3>1
    <3> QED
      BY <1>5, <1>6, <2>1, <3>1, <3>2 DEF FprimeAccounted
  <2>3. CASE pkt' = [pkt EXCEPT !.CommandCount = Bump(@), !.DeviceErrorCount = Bump(@)]
    <3>1. /\ pkt'.CommandCount = Bump(pkt.CommandCount)
          /\ pkt'.DeviceErrorCount = Bump(pkt.DeviceErrorCount)
          /\ pkt'.DeviceCount = pkt.DeviceCount
      BY <1>1, <2>3 DEF FpCounts, FpNames
    <3>2. pkt'.DeviceCount + pkt'.DeviceErrorCount
            = ((pkt.DeviceCount + pkt.DeviceErrorCount) - pkt.DeviceErrorCount)
                + Bump(pkt.DeviceErrorCount)
      BY <1>3, <1>7, <3>1
    <3> QED
      BY <1>5, <1>6, <2>1, <3>1, <3>2 DEF FprimeAccounted
  <2> QED
    BY <1>9, <2>2, <2>3, Zenon DEF FpConfig
<1>10. CASE FpReset
  BY <1>10 DEF FpReset, NoCounts, FprimeAccounted
<1>11. CASE FpRequest \/ FpReport
  BY <1>11 DEF FpRequest, FpReport, fprimeVars, FprimeAccounted
<1> QED
  BY <1>8, <1>9, <1>10, <1>11 DEF FpCommand

\* The component's counters are its own: every other step leaves them as they are.
LEMMA FprimeFrame ==
    ASSUME [HostsNext]_hostsVars, ~(FpCommand \/ FpReport)
    PROVE  UNCHANGED fprimeVars
<1>1. CASE DeviceSide \/ CfsRuns \/ CfsCommanded
  BY <1>1, LinkSteps DEF programVars
<1>2. CASE CheckoutTyped \/ CheckoutInputEnds \/ CheckoutRuns
  BY <1>2, CheckoutSteps
<1>3. CASE UNCHANGED hostsVars
  BY <1>3 DEF hostsVars, programVars
<1> QED
  BY <1>1, <1>2, <1>3, FprimeSteps DEF HostsNext

(***************************************************************************)
(* The F' component's counters agree with the commands it took, wrap       *)
(* included.                                                               *)
(***************************************************************************)
THEOREM FprimeCounted == HostsSpec => []FprimeAccounted
<1>1. HostsInit => FprimeAccounted
  BY DEF HostsInit, FprimeInit, NoCounts, FprimeAccounted
<1>2. HostsTypeOK /\ FprimeAccounted /\ [HostsNext]_hostsVars => FprimeAccounted'
  BY FprimeCounts, FprimeFrame DEF fprimeVars, FprimeAccounted
<1> QED
  BY <1>1, <1>2, HostsTypes, PTL DEF HostsSpec

\* A configuration is sent only for a line that was typed with its argument.
LEMMA LineTyped ==
    ASSUME CheckoutTypeOK, NoConfigReplay, CkLine
    PROVE  NoConfigReplay'
<1>1. PICK l \in Input :
        /\ inputBuf' = l
        /\ cfgTyped' = IF ~ended /\ l.cc = "cfg" /\ l.args = 1 THEN cfgTyped + 1
                                                                ELSE cfgTyped
        /\ \/ Settle(l)
           \/ l.cc = "hk" /\ l.args = 0 /\ RequestSend /\ UNCHANGED <<where, cfgSent>>
  BY DEF CkLine
<1>2. ended => l.args = 0
  BY DEF Input, Rest, Line, CheckoutTypeOK
<1>3. cfgTyped \in Nat /\ cfgSent \in Nat
  BY DEF CheckoutTypeOK
<1>4. \/ cfgSent' = cfgSent
      \/ l.cc = "cfg" /\ l.args = 1 /\ cfgSent' = cfgSent + 1
  BY <1>1, Zenon DEF Settle
<1>5. CASE l.cc = "cfg" /\ l.args = 1
  <2>1. cfgTyped' = cfgTyped + 1
    BY <1>1, <1>2, <1>5
  <2> QED
    BY <1>3, <1>4, <2>1 DEF NoConfigReplay
<1>6. CASE ~(l.cc = "cfg" /\ l.args = 1)
  <2>1. cfgTyped' = cfgTyped /\ cfgSent' = cfgSent
    BY <1>1, <1>4, <1>6
  <2> QED
    BY <2>1 DEF NoConfigReplay
<1> QED
  BY <1>5, <1>6

\* A step that is none of the checkout program's leaves its variables as they are.
LEMMA CheckoutFrame ==
    ASSUME [HostsNext]_hostsVars, ~(CkCreate \/ CkLine \/ CkReport \/ CkEnd \/ CkClose)
    PROVE  UNCHANGED checkoutVars
<1>1. CASE DeviceSide \/ CfsRuns \/ CfsCommanded
  BY <1>1, LinkSteps DEF programVars
<1>2. CASE FprimeCommanded \/ FprimeReports
  BY <1>2, FprimeSteps
<1>3. CASE UNCHANGED hostsVars
  BY <1>3 DEF hostsVars, programVars
<1> QED
  BY <1>1, <1>2, <1>3, CheckoutSteps DEF HostsNext

(***************************************************************************)
(* The checkout program that runs on after the end of its input never      *)
(* sends a configuration nobody typed.                                     *)
(***************************************************************************)
THEOREM NeverReplayed == HostsSpec => []NoConfigReplay
<1>1. HostsInit => NoConfigReplay
  BY DEF HostsInit, CheckoutInit, NoConfigReplay
<1>2. HostsTypeOK /\ NoConfigReplay /\ [HostsNext]_hostsVars => NoConfigReplay'
  <2> SUFFICES ASSUME HostsTypeOK, NoConfigReplay, [HostsNext]_hostsVars PROVE NoConfigReplay'
    OBVIOUS
  <2>1. CASE CkLine
    BY <2>1, LineTyped DEF HostsTypeOK
  <2>2. CASE CkCreate \/ CkReport \/ CkEnd \/ CkClose
    BY <2>2 DEF CkCreate, CkReport, CkEnd, CkClose, checkoutVars, NoConfigReplay
  <2>3. CASE ~(CkCreate \/ CkLine \/ CkReport \/ CkEnd \/ CkClose)
    BY <2>3, CheckoutFrame DEF checkoutVars, NoConfigReplay
  <2> QED
    BY <2>1, <2>2, <2>3
<1> QED
  BY <1>1, <1>2, HostsTypes, PTL DEF HostsSpec

-----------------------------------------------------------------------------
(***************************************************************************)
(* The exchange of the F' component and of the checkout program with the   *)
(* device: it implements the housekeeping service, and what is taken for a *)
(* report is an answer.  The order of requests and answers is that of      *)
(* RadioLinkProofs, with the callers' own counts.                          *)
(***************************************************************************)

\* Where a call of GENERIC_RADIO_RequestHK stands.
CallInv ==
    /\ ChainNow(radioHK.id, asked)
    /\ calling => asked = returned + 1
    /\ ~calling => asked = returned

\* What the structure of the caller holds after a success.
Decoded == returned > failed => radioHK.kind = "reply" /\ radioHK.id > 0

\* The types the argument uses.
LEMMA CallFacts ==
    ASSUME HostsTypeOK
    PROVE  /\ TypeOK /\ CallTypeOK
           /\ radioHK \in Datagram /\ radioHK.id \in Nat
           /\ asked \in Nat /\ returned \in Nat /\ failed \in Nat /\ calling \in BOOLEAN
           /\ radioRx \in Seq(Datagram) /\ fswRx \in Seq(Datagram) /\ job \in Datagram
BY IdType, ChainTypes DEF HostsTypeOK, CallTypeOK

(***************************************************************************)
(* Each half of a call is a step of the service.                           *)
(***************************************************************************)
LEMMA CallServes ==
    ASSUME HostsTypeOK, CallInv, Decoded, UNCHANGED <<dev, job>>,
           RequestSend \/ RequestHit \/ RequestMiss
    PROVE  CallInv' /\ Decoded' /\ HostService!SvcNext
<1> USE CallFacts
<1>a. Chain(radioRx, fswRx, dev, job, radioHK.id, asked)
  BY DEF CallInv, ChainNow
<1>1. CASE RequestSend
  <2>1. /\ ~calling /\ calling' = TRUE /\ asked' = asked + 1
        /\ radioRx' \in Arrivals(radioRx, HkRequest(asked + 1))
        /\ UNCHANGED <<fswRx, radioHK, returned, failed>>
    BY <1>1 DEF RequestSend, Begin
  <2>2. Chain(radioRx', fswRx, dev, job, radioHK.id, asked + 1)
    BY <1>a, <2>1, ChainRequest
  <2>3. asked = returned
    BY <2>1 DEF CallInv
  <2>4. CallInv'
    BY <2>1, <2>2, <2>3 DEF CallInv, ChainNow
  <2>5. HostService!SvcNext
    BY <2>1, <2>3 DEF HostService!SvcNext, HostService!Issue
  <2> QED
    BY <2>1, <2>4, <2>5 DEF Decoded
<1>2. CASE RequestHit
  <2>1. /\ calling /\ calling' = FALSE /\ returned' = returned + 1
        /\ fswRx # <<>> /\ Head(fswRx).kind = "reply"
        /\ fswRx' = Tail(fswRx) /\ radioHK' = Head(fswRx)
        /\ UNCHANGED <<radioRx, asked, failed>>
    BY <1>2 DEF RequestHit, Return
  <2>2. /\ Head(fswRx).id \in Nat /\ radioHK.id < Head(fswRx).id /\ Head(fswRx).id <= asked
        /\ Chain(radioRx, Tail(fswRx), dev, job, Head(fswRx).id, asked)
    BY <1>a, <2>1, ChainRead
  <2>3. asked = returned + 1
    BY <2>1 DEF CallInv
  <2>4. CallInv'
    BY <2>1, <2>2, <2>3 DEF CallInv, ChainNow
  <2>5. radioHK'.id \in radioHK.id + 1..asked
    BY <2>1, <2>2
  <2>6. HostService!SvcNext
    BY <2>1, <2>3, <2>5 DEF HostService!SvcNext, HostService!Hit
  <2>7. Decoded'
    BY <2>1, <2>2 DEF Decoded
  <2> QED
    BY <2>4, <2>6, <2>7
<1>3. CASE RequestMiss
  <2>1. /\ calling /\ calling' = FALSE /\ returned' = returned + 1
        /\ failed' = failed + 1
        /\ fswRx' = fswRx \/ (fswRx # <<>> /\ fswRx' = Tail(fswRx))
        /\ UNCHANGED <<radioRx, asked, radioHK>>
    BY <1>3 DEF RequestMiss, Return
  <2>2. Chain(radioRx, fswRx', dev, job, radioHK.id, asked)
    BY <1>a, <2>1, ChainRead
  <2>3. asked = returned + 1
    BY <2>1 DEF CallInv
  <2>4. CallInv'
    BY <2>1, <2>2, <2>3 DEF CallInv, ChainNow
  <2>5. HostService!SvcNext
    BY <2>1, <2>3 DEF HostService!SvcNext, HostService!Miss
  <2>6. Decoded'
    BY <2>1 DEF Decoded
  <2> QED
    BY <2>4, <2>5, <2>6
<1> QED
  BY <1>1, <1>2, <1>3

\* What a program sends besides requests: nothing, or a configuration.
MaySend ==
    \/ radioRx' = radioRx
    \/ \E w \in ConfigWords : radioRx' \in Arrivals(radioRx, SetConfig(w))

\* Other commands leave the exchange as it is.
LEMMA QuietCall ==
    ASSUME HostsTypeOK, CallInv, UNCHANGED <<dev, job, fswRx>>, NoCall, MaySend
    PROVE  CallInv'
<1> USE CallFacts
<1>a. Chain(radioRx, fswRx, dev, job, radioHK.id, asked)
  BY DEF CallInv, ChainNow
<1>1. Chain(radioRx', fswRx, dev, job, radioHK.id, asked)
  <2>1. CASE radioRx' = radioRx
    BY <1>a, <2>1
  <2>2. ASSUME NEW w \in ConfigWords, radioRx' \in Arrivals(radioRx, SetConfig(w))
        PROVE  Chain(radioRx', fswRx, dev, job, radioHK.id, asked)
    <3>1. w \in Word
      OBVIOUS
    <3>2. SetConfig(w) \in Datagram /\ SetConfig(w).kind # "hk"
      BY <3>1, SetConfigType DEF SetConfig
    <3> QED
      BY <1>a, <2>2, <3>2, ChainSend
  <2> QED
    BY <2>1, <2>2 DEF MaySend
<1> QED
  BY <1>1 DEF CallInv, ChainNow, NoCall

\* So does whatever the device and third parties do.
LEMMA DeviceCall ==
    ASSUME HostsTypeOK, CallInv, DeviceSide
    PROVE  CallInv' /\ UNCHANGED <<programVars, host>>
<1> USE CallFacts
<1>0. UNCHANGED <<programVars, host>> /\ UNCHANGED <<calling, radioHK, asked, returned>>
  BY DEF DeviceSide, programVars, callVars
<1>1. Chain(radioRx', fswRx', dev', job', radioHK.id, asked)
  <2>1. CASE RunStep
    BY <2>1, ChainRun DEF RunStep, CallInv
  <2>2. CASE CallbackStep
    BY <2>2, ChainCallback DEF CallbackStep, CallInv, ChainNow
  <2>3. CASE NetworkStep
    <3>1. dev' = dev /\ job' = job /\ (StrayToRadio \/ StrayToFsw)
      BY <2>3 DEF NetworkStep, devVars
    <3> QED
      BY <3>1, ChainNetwork DEF CallInv
  <2> QED
    BY <2>1, <2>2, <2>3 DEF DeviceSide
<1> QED
  BY <1>0, <1>1 DEF CallInv, ChainNow

(***************************************************************************)
(* The commands of the two programs: a half of a call, or a quiet command. *)
(***************************************************************************)
LEMMA FprimeCalls ==
    ASSUME FpCommand \/ FpReport
    PROVE  \/ RequestSend \/ RequestHit \/ RequestMiss
           \/ NoCall /\ MaySend /\ UNCHANGED fswRx
<1>1. CASE FpNoop \/ FpReset
  BY <1>1 DEF FpNoop, FpReset, MaySend, portVars
<1>2. CASE FpConfig
  BY <1>2 DEF FpConfig, MaySend
<1>3. CASE FpRequest \/ FpReport
  BY <1>3 DEF FpRequest, FpReport
<1> QED
  BY <1>1, <1>2, <1>3 DEF FpCommand

\* The same of the checkout program.
LEMMA CheckoutCalls ==
    ASSUME CkCreate \/ CkLine \/ CkReport \/ CkEnd \/ CkClose
    PROVE  \/ RequestSend \/ RequestHit \/ RequestMiss
           \/ NoCall /\ MaySend /\ UNCHANGED fswRx
<1>1. CASE CkCreate \/ CkEnd \/ CkClose
  BY <1>1 DEF CkCreate, CkEnd, CkClose, callVars, portVars, NoCall, MaySend
<1>2. CASE CkReport
  BY <1>2 DEF CkReport
<1>3. CASE CkLine
  <2>1. PICK l \in Input : Settle(l) \/ RequestSend
    BY <1>3 DEF CkLine
  <2>2. CASE Settle(l)
    <3>1. NoCall /\ UNCHANGED fswRx
      BY <2>2 DEF Settle, portVars
    <3>2. MaySend
      BY <2>2 DEF Settle, portVars, MaySend
    <3> QED
      BY <3>1, <3>2
  <2> QED
    BY <2>1, <2>2
<1> QED
  BY <1>1, <1>2, <1>3

\* What is kept in order: the calls of a program other than the application.
CallsInv == (host # "cfs" => CallInv) /\ Decoded

(***************************************************************************)
(* Every step: for a program other than the application the exchange stays *)
(* in order and takes a step of the service or none.                       *)
(***************************************************************************)
LEMMA HostsServe ==
    ASSUME HostsTypeOK, CallsInv, [HostsNext]_hostsVars
    PROVE  /\ CallsInv'
           /\ HostService!SvcNext \/ UNCHANGED <<asked, returned, failed, radioHK>>
<1>s. ASSUME UNCHANGED callVars
      PROVE  Decoded' /\ UNCHANGED <<asked, returned, failed, radioHK>>
  BY <1>s DEF callVars, Decoded, CallsInv
<1>1. CASE DeviceSide
  <2>1. UNCHANGED callVars /\ host' = host
    BY <1>1 DEF DeviceSide, programVars
  <2>2. CallsInv'
    BY <1>1, <1>s, <2>1, DeviceCall DEF CallsInv
  <2> QED
    BY <1>s, <2>1, <2>2
<1>2. CASE CfsRuns \/ CfsCommanded
  <2>1. UNCHANGED callVars /\ host' = "cfs"
    BY <1>2 DEF CfsRuns, CfsCommanded, programVars
  <2> QED
    BY <1>s, <2>1 DEF CallsInv
<1>3. ASSUME host # "cfs", host' = host, UNCHANGED <<dev, job>>,
             \/ RequestSend \/ RequestHit \/ RequestMiss
             \/ NoCall /\ MaySend /\ UNCHANGED fswRx
      PROVE  /\ CallsInv'
             /\ HostService!SvcNext \/ UNCHANGED <<asked, returned, failed, radioHK>>
  <2>1. CallInv /\ Decoded
    BY <1>3 DEF CallsInv
  <2>2. CASE RequestSend \/ RequestHit \/ RequestMiss
    BY <1>3, <2>1, <2>2, CallServes DEF CallsInv
  <2>3. CASE NoCall /\ MaySend /\ UNCHANGED fswRx
    <3>1. CallInv'
      BY <1>3, <2>1, <2>3, QuietCall
    <3>2. Decoded' /\ UNCHANGED <<asked, returned, failed, radioHK>>
      BY <2>1, <2>3 DEF NoCall, Decoded
    <3> QED
      BY <3>1, <3>2 DEF CallsInv
  <2> QED
    BY <1>3, <2>2, <2>3
<1>4. CASE FprimeCommanded \/ FprimeReports
  <2>1. host # "cfs" /\ host' = host /\ UNCHANGED <<dev, job>> /\ (FpCommand \/ FpReport)
    BY <1>4 DEF FprimeCommanded, FprimeReports, Others, devVars
  <2> QED
    BY <1>3, <2>1, FprimeCalls
<1>5. CASE CheckoutTyped \/ CheckoutInputEnds \/ CheckoutRuns
  <2>1. /\ host # "cfs" /\ host' = host /\ UNCHANGED <<dev, job>>
        /\ CkCreate \/ CkLine \/ CkReport \/ CkEnd \/ CkClose
    BY <1>5 DEF CheckoutTyped, CheckoutInputEnds, CheckoutRuns, Others, devVars
  <2> QED
    BY <1>3, <2>1, CheckoutCalls
<1>6. CASE UNCHANGED hostsVars
  <2>1. UNCHANGED callVars /\ UNCHANGED <<host, radioRx, fswRx, dev, job>>
    BY <1>6 DEF hostsVars, programVars, vars, portVars, devVars
  <2> QED
    BY <1>s, <2>1 DEF CallsInv, CallInv, ChainNow, callVars
<1> QED
  BY <1>1, <1>2, <1>4, <1>5, <1>6 DEF HostsNext

\* And at the start.
LEMMA CallsStart == HostsInit => CallsInv
<1> SUFFICES ASSUME HostsInit PROVE CallsInv
  OBVIOUS
<1>1. /\ calling = FALSE /\ asked = 0 /\ returned = 0 /\ failed = 0 /\ radioHK.id = 0
  BY DEF HostsInit, CallInit, NoAnswer, Uninitialised
<1>2. radioRx = <<>> /\ fswRx = <<>> /\ dev = "recv"
  BY DEF HostsInit, Init, PortsInit, DeviceInit
<1>3. ChainNow(radioHK.id, asked)
  BY <1>1, <1>2 DEF ChainNow, Chain, Ordered, Above, Below, Precede
<1> QED
  BY <1>1, <1>3 DEF CallsInv, CallInv, Decoded

\* The exchange is always in order.
LEMMA CallsAlways == HostsSpec => [](HostsTypeOK /\ CallsInv)
<1>1. HostsTypeOK /\ CallsInv /\ [HostsNext]_hostsVars => CallsInv'
  BY HostsServe
<1> QED
  BY <1>1, CallsStart, HostsTypes, PTL DEF HostsSpec

(***************************************************************************)
(* The F' component and the checkout program, with the device and the      *)
(* network between them, implement the abstract housekeeping service: each *)
(* request is served once, by a failure or by an answer newer than the one *)
(* before.                                                                 *)
(***************************************************************************)
THEOREM HostsImplementService == HostsSpec => HostServiceSpec
<1>1. HostsInit => HostService!SvcInit
  BY DEF HostsInit, CallInit, NoAnswer, Uninitialised, HostService!SvcInit
<1>2. HostsTypeOK /\ CallsInv /\ [HostsNext]_hostsVars
         => [HostService!SvcNext]_(HostService!svcVars)
  BY HostsServe DEF HostService!svcVars
<1> QED
  BY <1>1, <1>2, CallsAlways, PTL DEF HostsSpec, HostServiceSpec, HostService!SvcSpec

(***************************************************************************)
(* What follows from implementing the service: no answer is decoded twice  *)
(* by the F' component or the checkout program, so however many answers    *)
(* come late or never, either lags the newest request by no more than the  *)
(* failures it was told of.  For the cFS application this is SkewBounded.  *)
(***************************************************************************)
THEOREM HostsLagBounded == HostsSpec => []HostSkewBounded
<1> DEFINE Nats == returned \in Nat /\ failed \in Nat /\ radioHK.id \in Nat
<1>1. HostService!SvcInit => HostSkewBounded
  BY DEF HostService!SvcInit, HostSkewBounded
<1>2. HostsTypeOK => Nats /\ asked \in Nat
  BY DEF HostsTypeOK, CallTypeOK, Datagram
<1>3. HostsTypeOK /\ HostsTypeOK' /\ HostSkewBounded
      /\ [HostService!SvcNext]_(HostService!svcVars) => HostSkewBounded'
  <2> SUFFICES ASSUME HostsTypeOK, HostsTypeOK', HostSkewBounded,
                      [HostService!SvcNext]_(HostService!svcVars)
               PROVE  HostSkewBounded'
    OBVIOUS
  <2>1. Nats /\ asked \in Nat
    BY <1>2
  <2>2. CASE HostService!Issue
    BY <2>2 DEF HostService!Issue, HostSkewBounded
  <2>3. CASE HostService!Hit
    <3>1. radioHK'.id \in radioHK.id + 1..asked /\ returned' = returned + 1
          /\ failed' = failed
      BY <2>3 DEF HostService!Hit
    <3> QED
      BY <2>1, <3>1 DEF HostSkewBounded
  <2>4. CASE HostService!Miss
    BY <2>1, <2>4 DEF HostService!Miss, HostSkewBounded
  <2>5. CASE UNCHANGED HostService!svcVars
    BY <2>5 DEF HostService!svcVars, HostSkewBounded
  <2> QED
    BY <2>2, <2>3, <2>4, <2>5 DEF HostService!SvcNext
<1> QED
  BY <1>1, <1>3, HostsTypes, HostsImplementService, PTL
     DEF HostServiceSpec, HostService!SvcSpec

\* The channels of the component show what it decoded, once it has.
Shown == host = "fprime" /\ returned > failed => channel.device.kind = "reply"

\* Every step of every program keeps it so.
LEMMA ShownStays ==
    ASSUME HostsTypeOK, CallsInv, CallsInv', Shown, [HostsNext]_hostsVars
    PROVE  Shown'
<1>s. ASSUME UNCHANGED channel, UNCHANGED <<host, returned, failed>> PROVE Shown'
  BY <1>s DEF Shown
<1>1. CASE DeviceSide \/ CfsRuns \/ CfsCommanded
  BY <1>1, <1>s, LinkSteps DEF programVars, fprimeVars, callVars
<1>2. CASE FprimeCommanded \/ FprimeReports
  <2>0. host' = host /\ (FpCommand \/ FpReport)
    BY <1>2, FprimeSteps DEF Others
  <2>1. CASE FpReport
    <3>1. channel'.device = radioHK'
      BY <2>1 DEF FpReport
    <3> QED
      BY <3>1 DEF Shown, CallsInv, Decoded
  <2>2. CASE FpRequest
    BY <1>s, <2>0, <2>2 DEF FpRequest, fprimeVars, RequestSend
  <2>3. CASE FpConfig
    BY <1>s, <2>0, <2>3 DEF FpConfig, NoCall
  <2>4. CASE FpNoop \/ FpReset
    <3>1. channel'.device = channel.device
      BY <2>4 DEF FpNoop, FpReset, HostsTypeOK, FprimeTypeOK
    <3>2. UNCHANGED <<returned, failed>>
      BY <2>4 DEF FpNoop, FpReset, NoCall
    <3> QED
      BY <2>0, <3>1, <3>2 DEF Shown
  <2> QED
    BY <2>0, <2>1, <2>2, <2>3, <2>4 DEF FpCommand
<1>3. CASE CheckoutTyped \/ CheckoutInputEnds \/ CheckoutRuns
  BY <1>3 DEF CheckoutTyped, CheckoutInputEnds, CheckoutRuns, Others, Shown
<1>4. CASE UNCHANGED hostsVars
  BY <1>4, <1>s DEF hostsVars, programVars, callVars, fprimeVars
<1> QED
  BY <1>1, <1>2, <1>3, <1>4 DEF HostsNext

(***************************************************************************)
(* What the programs take for the device's report is an answer of the      *)
(* device, once any request succeeded.                                     *)
(***************************************************************************)
THEOREM ReportsAreAnswers == HostsSpec => []ReportIsAnswer
<1>1. HostsInit => Shown
  BY DEF HostsInit, CallInit, Shown
<1>2. /\ HostsTypeOK /\ CallsInv /\ Shown /\ [HostsNext]_hostsVars
      /\ (HostsTypeOK /\ CallsInv)'
      => Shown'
  BY ShownStays
<1>3. CallsInv /\ Shown => ReportIsAnswer
  BY DEF CallsInv, Decoded, Shown, ReportIsAnswer
<1> QED
  BY <1>1, <1>2, <1>3, CallsAlways, PTL DEF HostsSpec
=============================================================================

--------------------------- MODULE RadioAppProofs ---------------------------
(***************************************************************************)
(* Facts about the application's main task, the protocol library and the   *)
(* ports, for the modules that put them together with a device, with other *)
(* programs or with a ground script.                                       *)
(***************************************************************************)
EXTENDS RadioApp, Integers, TLAPS

USE PortsAssumption, LibAssumption, AppAssumption

(***************************************************************************)
(* The datagrams the two programs build are datagrams.                     *)
(***************************************************************************)
LEMMA ZeroType == Zero \in Word
BY DEF Zero, Word, Byte

\* A configuration word keeps its type on its way into a command datagram.
LEMMA WireType == \A w \in Word : Wire(w) \in Word
BY DEF Wire, Reversed, Word, Byte

\* What a third party sends is a datagram.
LEMMA StrayType ==
    \A k \in {"unknown", "malformed"} : Stray(k) \in Datagram
BY ZeroType DEF Stray, Datagram

\* The answer recorded before any was decoded is a datagram.
LEMMA NoAnswerType == NoAnswer \in Datagram
BY ZeroType DEF NoAnswer, Datagram

\* The Get Housekeeping command is a datagram.
LEMMA HkRequestType == \A i \in Nat : HkRequest(i) \in Datagram
BY ZeroType DEF HkRequest, Datagram

\* The Set Configuration command is a datagram.
LEMMA SetConfigType == \A w \in Word : SetConfig(w) \in Datagram
BY WireType DEF SetConfig, Datagram

\* A reset leaves a well-typed housekeeping packet.
LEMMA ResetCountersType == ResetCounters \in HkPacket
BY ZeroType DEF ResetCounters, HkPacket, Counter

\* An 8-bit counter stays one when it is incremented.
LEMMA BumpType == \A n \in Counter : Bump(n) \in Counter
BY DEF Bump, Counter

(***************************************************************************)
(* Counting an event in the housekeeping packet keeps it well-typed.       *)
(***************************************************************************)
LEMMA PacketType ==
    ASSUME NEW p \in HkPacket, NEW n \in Counter, NEW d \in Nat, NEW w \in Word
    PROVE  /\ [p EXCEPT !.CommandCount = n] \in HkPacket
           /\ [p EXCEPT !.CommandErrorCount = n] \in HkPacket
           /\ [p EXCEPT !.DeviceErrorCount = n] \in HkPacket
           /\ [p EXCEPT !.ForwardCount = n] \in HkPacket
           /\ [p EXCEPT !.ForwardErrorCount = n] \in HkPacket
           /\ [p EXCEPT !.DeviceCounter = d] \in HkPacket
           /\ [p EXCEPT !.DeviceConfig = w] \in HkPacket
BY DEF HkPacket

\* The fields of a housekeeping packet have the types of their counters.
LEMMA PacketFields ==
    ASSUME NEW p \in HkPacket
    PROVE  /\ p.CommandCount \in Counter /\ p.CommandErrorCount \in Counter
           /\ p.DeviceErrorCount \in Counter /\ p.ForwardCount \in Counter
           /\ p.ForwardErrorCount \in Counter /\ p.DeviceCounter \in Nat
BY DEF HkPacket

(***************************************************************************)
(* Sending to a port keeps its buffer well-typed and within its capacity.  *)
(***************************************************************************)
LEMMA ArrivalsType ==
    ASSUME NEW q \in Seq(Datagram), Len(q) <= RxCap,
           NEW m \in Datagram, NEW r \in Arrivals(q, m)
    PROVE  r \in Seq(Datagram) /\ Len(r) <= RxCap
BY DEF Arrivals

(***************************************************************************)
(* Reading a port does too.                                                *)
(***************************************************************************)
LEMMA TailType ==
    ASSUME NEW q \in Seq(Datagram), Len(q) <= RxCap, q # <<>>
    PROVE  /\ Tail(q) \in Seq(Datagram) /\ Len(Tail(q)) <= RxCap
           /\ Head(q) \in Datagram
OBVIOUS

-----------------------------------------------------------------------------
(***************************************************************************)
(* Counting modulo M.                                                      *)
(***************************************************************************)

\* Quotient and remainder.
LEMMA DivMod ==
    ASSUME NEW M \in Nat \ {0}, NEW n \in Nat
    PROVE  /\ n \div M \in Nat /\ n % M \in 0..M - 1
           /\ n = (M * (n \div M)) + (n % M)
BY SMT

\* The only multiple of M between -M and M is 0.
LEMMA SmallMultiple ==
    ASSUME NEW M \in Nat \ {0}, NEW d \in Int, M * d < M, M * d > -M
    PROVE  d = 0
<1>1. CASE d >= 1
  <2>1. M * d >= M
    BY <1>1, SMT
  <2> QED
    BY <2>1
<1>2. CASE d <= -1
  <2>1. M * d <= -M
    BY <1>2, SMT
  <2> QED
    BY <2>1
<1> QED
  BY <1>1, <1>2

\* The remainder is the only number below M that is off by a multiple of M.
LEMMA Remainder ==
    ASSUME NEW M \in Nat \ {0}, NEW n \in Nat, NEW q \in Int, NEW r \in 0..M - 1,
           n = (M * q) + r
    PROVE  n % M = r
<1> DEFINE p == n \div M
           s == n % M
<1>1. n = (M * p) + s /\ p \in Nat /\ s \in 0..M - 1
  BY DivMod
<1>2. M * (q - p) = (M * q) - (M * p)
  BY <1>1, SMT
<1>3. M * (q - p) = s - r
  BY <1>1, <1>2
<1>4. q - p = 0
  <2>1. q - p \in Int /\ s - r < M /\ s - r > -M
    BY <1>1
  <2> QED
    BY <2>1, <1>3, SmallMultiple
<1>5. M * (q - p) = 0
  BY <1>4, SMT
<1> QED
  BY <1>1, <1>3, <1>5

\* Taking M away leaves the remainder alone.
LEMMA LessM ==
    ASSUME NEW M \in Nat \ {0}, NEW n \in Nat, n >= M
    PROVE  (n - M) % M = n % M
<1>1. /\ n \div M \in Nat /\ n % M \in 0..M - 1
      /\ n = (M * (n \div M)) + (n % M)
  BY DivMod
<1>2. M * ((n \div M) - 1) = (M * (n \div M)) - M
  BY <1>1, SMT
<1>3. n - M = (M * ((n \div M) - 1)) + (n % M)
  BY <1>1, <1>2
<1>4. n - M \in Nat /\ (n \div M) - 1 \in Int
  BY <1>1
<1> QED
  BY <1>1, <1>3, <1>4, Remainder

\* One more.
LEMMA OneMore ==
    ASSUME NEW M \in Nat \ {0}, NEW n \in Nat
    PROVE  (n + 1) % M = IF (n % M) + 1 = M THEN 0 ELSE (n % M) + 1
<1>1. /\ n \div M \in Nat /\ n % M \in 0..M - 1
      /\ n = (M * (n \div M)) + (n % M)
  BY DivMod
<1>2. CASE (n % M) + 1 = M
  <2>1. M * ((n \div M) + 1) = (M * (n \div M)) + M
    BY <1>1, SMT
  <2>2. n + 1 = (M * ((n \div M) + 1)) + 0
    BY <1>1, <1>2, <2>1
  <2>3. (n \div M) + 1 \in Int /\ n + 1 \in Nat /\ 0 \in 0..M - 1
    BY <1>1
  <2>4. (n + 1) % M = 0
    BY <2>2, <2>3, Remainder
  <2> QED
    BY <1>2, <2>4
<1>3. CASE (n % M) + 1 # M
  <2>1. /\ n \div M \in Int /\ n + 1 \in Nat /\ (n % M) + 1 \in 0..M - 1
        /\ n + 1 = (M * (n \div M)) + ((n % M) + 1)
    BY <1>1, <1>3
  <2>2. (n + 1) % M = (n % M) + 1
    BY <2>1, Remainder
  <2> QED
    BY <1>3, <2>2
<1> QED
  BY <1>2, <1>3

\* An 8-bit counter counts one more, and starts again after the last value.
LEMMA BumpValue ==
    \A n \in Counter : Bump(n) = IF n + 1 = CounterMod THEN 0 ELSE n + 1
<1> SUFFICES ASSUME NEW n \in Counter
             PROVE  Bump(n) = IF n + 1 = CounterMod THEN 0 ELSE n + 1
  OBVIOUS
<1>1. n \in Nat /\ CounterMod \in Nat \ {0} /\ n % CounterMod = n
  BY Remainder DEF Counter
<1>2. (n + 1) % CounterMod = IF (n % CounterMod) + 1 = CounterMod THEN 0
                                                 ELSE (n % CounterMod) + 1
  BY <1>1, OneMore
<1> QED
  BY <1>1, <1>2 DEF Bump

-----------------------------------------------------------------------------
(***************************************************************************)
(* Type correctness of the main task and of the ports.                     *)
(***************************************************************************)

\* Serving a command keeps the app and the ports well-typed.
LEMMA MainTypes ==
    PortsTypeOK /\ AppTypeOK /\ MainTask => PortsTypeOK' /\ AppTypeOK'
<1> SUFFICES ASSUME PortsTypeOK, AppTypeOK, MainTask PROVE PortsTypeOK' /\ AppTypeOK'
  OBVIOUS
<1>a. /\ radioRx \in Seq(Datagram) /\ Len(radioRx) <= RxCap
      /\ fswRx \in Seq(Datagram) /\ Len(fswRx) <= RxCap
      /\ strays \in 0..MaxStray
      /\ cmdPipe \in Seq(Command)
      /\ main \in {"pend", "delay"}
      /\ hk \in HkPacket /\ tlm \in HkPacket /\ last \in Datagram
      /\ accepted \in Nat /\ handled \in Nat /\ taken \in Nat
      /\ issued \in Nat /\ done \in Nat /\ misses \in Nat
  BY DEF PortsTypeOK, AppTypeOK
<1>1. ASSUME NEW c, Take(c)
      PROVE  /\ cmdPipe' \in Seq(Command)
             /\ Head(cmdPipe) \in Command
  BY <1>1, <1>a DEF Take
<1>s. ASSUME NEW c, Take(c), Served, hk' \in HkPacket, taken' \in Nat,
             radioRx' \in Seq(Datagram), Len(radioRx') <= RxCap
      PROVE  PortsTypeOK' /\ AppTypeOK'
  BY <1>a, <1>1, <1>s DEF Served, PortsTypeOK, AppTypeOK
<1> DEFINE cc == Bump(hk.CommandCount)
           ec == Bump(hk.CommandErrorCount)
           de == Bump(hk.DeviceErrorCount)
           fc == Bump(hk.ForwardCount)
           fe == Bump(hk.ForwardErrorCount)
<1>0. /\ hk \in HkPacket
      /\ cc \in Counter /\ ec \in Counter /\ de \in Counter
      /\ fc \in Counter /\ fe \in Counter
  BY <1>a, BumpType, PacketFields
<1>2. CASE Noop
  <2>1. hk' \in HkPacket
    BY <1>0, <1>2, PacketType DEF Noop
  <2>2. Take("noop") /\ Served
    BY <1>2, Zenon DEF Noop
  <2>3. taken' = taken + 1 /\ radioRx' = radioRx
    BY <1>2, Zenon DEF Noop
  <2>4. taken' \in Nat
    BY <1>a, <2>3
  <2>5. QED
    <3>1. radioRx' \in Seq(Datagram) /\ Len(radioRx') <= RxCap
      BY <1>a, <2>3, Zenon
    <3>2. QED
      BY <1>s, <2>1, <2>2, <2>4, <3>1
<1>3. CASE Reset
  BY <1>a, <1>3, <1>s, ResetCountersType DEF Reset
<1>4. CASE Invalid
  <2>1. hk' \in HkPacket
    BY <1>0, <1>4, PacketType DEF Invalid
  <2>2. /\ Take("badlength") \/ Take("badcode") \/ Take("badtlm")
        /\ Served
    BY <1>4 DEF Invalid
  <2>3. taken' = taken + 1 /\ radioRx' = radioRx
    BY <1>4, Zenon DEF Invalid
  <2>4. QED
    BY <1>a, <1>s, <2>1, <2>2, <2>3
<1>5. CASE ConfigSent
  <2> DEFINE p1 == [hk EXCEPT !.CommandCount = cc]
         n == (hk.DeviceCounter + 1) % CountMod
  <2>a. p1 \in HkPacket
    BY <1>0, PacketType
  <2>1. n \in Nat
    BY <1>a, PacketFields
  <2>b. hk' = [p1 EXCEPT !.DeviceCounter = n]
    BY <1>a, <1>5 DEF ConfigSent, HkPacket
  <2>2. hk' \in HkPacket
    <3> HIDE DEF p1, n
    <3>1. [p1 EXCEPT !.DeviceCounter = n] \in HkPacket
      BY <1>0, <2>1, <2>a, ZeroType, PacketType
    <3>2. QED
      BY <2>b, <3>1
  <2>3. SetConfig(Head(cmdPipe).word) \in Datagram
    BY <1>1, <1>5, SetConfigType DEF ConfigSent, Command
  <2>4. radioRx' \in Seq(Datagram) /\ Len(radioRx') <= RxCap
    BY <1>a, <1>5, <2>3, ArrivalsType DEF ConfigSent
  <2>5. QED
    <3>1. Take("config") /\ Served
      BY <1>5 DEF ConfigSent
    <3>2. taken' = taken + 1
      BY <1>5, Zenon DEF ConfigSent
    <3>3. taken' \in Nat
      BY <1>a, <3>2
    <3>4. QED
      BY <1>s, <2>2, <2>4, <3>1, <3>3
<1>6. CASE ConfigNotSent
  <2>1. hk' \in HkPacket
    BY <1>0, <1>6, PacketType DEF ConfigNotSent
  <2>2. Take("config") /\ Served
    BY <1>6, Zenon DEF ConfigNotSent
  <2>3. taken' = taken + 1 /\ radioRx' = radioRx
    BY <1>6, Zenon DEF ConfigNotSent
  <2>4. taken' \in Nat
    BY <1>a, <2>3
  <2>5. QED
    <3>1. radioRx' \in Seq(Datagram) /\ Len(radioRx') <= RxCap
      BY <1>a, <2>3, Zenon
    <3>2. QED
      BY <1>s, <2>1, <2>2, <2>4, <3>1
<1>7. CASE Proximity
  <2>1. hk' \in HkPacket
    BY <1>0, <1>7, PacketType DEF Proximity
  <2>2. Take("prox") /\ Served
    BY <1>7, Zenon DEF Proximity
  <2>3. taken' = taken + 1 /\ radioRx' = radioRx
    BY <1>7, Zenon DEF Proximity
  <2>4. taken' \in Nat
    BY <1>a, <2>3
  <2>5. QED
    <3>1. radioRx' \in Seq(Datagram) /\ Len(radioRx') <= RxCap
      BY <1>a, <2>3, Zenon
    <3>2. QED
      BY <1>s, <2>1, <2>2, <2>4, <3>1
<1>8. CASE HkSend
  <2>1. radioRx' \in Seq(Datagram) /\ Len(radioRx') <= RxCap
    BY <1>a, <1>8, ArrivalsType, HkRequestType DEF HkSend
  <2>2. QED
    BY <1>a, <1>1, <1>8, <2>1 DEF HkSend, PortsTypeOK, AppTypeOK
<1>9. CASE HkHit
  <2>1. /\ Tail(fswRx) \in Seq(Datagram) /\ Len(Tail(fswRx)) <= RxCap
        /\ Head(fswRx) \in Datagram
    BY <1>a, <1>9, TailType DEF HkHit
  <2>2. (Head(fswRx).count + 1) % CountMod \in Nat
    BY <2>1 DEF Datagram
  <2>3. hk' \in HkPacket
    BY <1>0, <1>9, <2>1, <2>2, PacketType DEF HkHit, Datagram
  <2>4. QED
    <3>1. /\ tlm' = hk' /\ last' = Head(fswRx) /\ fswRx' = Tail(fswRx)
          /\ misses' = misses /\ done' = done + 1 /\ handled' = handled + 1
          /\ main' = "pend"
          /\ UNCHANGED <<radioRx, strays, cmdPipe, accepted, taken, issued>>
      BY <1>9 DEF HkHit
    <3>2. QED
      BY <1>a, <2>1, <2>3, <3>1 DEF PortsTypeOK, AppTypeOK
<1>10. CASE HkMiss
  <2>1. hk' \in HkPacket
    BY <1>0, <1>10, PacketType DEF HkMiss
  <2>2. fswRx' \in Seq(Datagram) /\ Len(fswRx') <= RxCap
    BY <1>a, <1>10, TailType DEF HkMiss
  <2>3. QED
    <3>1. /\ tlm' = hk' /\ misses' = misses + 1
          /\ done' = done + 1 /\ handled' = handled + 1
          /\ main' = "pend"
          /\ UNCHANGED <<radioRx, strays, cmdPipe, accepted, taken, issued, last>>
      BY <1>10 DEF HkMiss
    <3>2. QED
      BY <1>a, <2>1, <2>2, <3>1 DEF PortsTypeOK, AppTypeOK
<1> QED
  BY <1>2, <1>3, <1>4, <1>5, <1>6, <1>7, <1>8, <1>9, <1>10 DEF MainTask

\* Putting a command on the pipe keeps the app well-typed.
LEMMA SendTypes ==
    PortsTypeOK /\ AppTypeOK /\ SendCommand => PortsTypeOK' /\ AppTypeOK'
<1> SUFFICES ASSUME PortsTypeOK, AppTypeOK, SendCommand PROVE PortsTypeOK' /\ AppTypeOK'
  OBVIOUS
<1> USE DEF PortsTypeOK, AppTypeOK
<1>1. cmdPipe' \in Seq(Command)
  BY DEF SendCommand, Command
<1> QED
  BY <1>1 DEF SendCommand, portVars

\* A third party's datagram keeps the ports well-typed.
LEMMA NetworkTypes ==
    PortsTypeOK /\ (StrayToRadio \/ StrayToFsw) => PortsTypeOK'
<1> SUFFICES ASSUME PortsTypeOK, StrayToRadio \/ StrayToFsw PROVE PortsTypeOK'
  OBVIOUS
<1> USE DEF PortsTypeOK
<1>1. CASE StrayToRadio
  BY <1>1, StrayType, ArrivalsType DEF StrayToRadio
<1>2. CASE StrayToFsw
  BY <1>2, StrayType, ArrivalsType DEF StrayToFsw
<1> QED
  BY <1>1, <1>2
=============================================================================

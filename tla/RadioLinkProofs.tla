-------------------------- MODULE RadioLinkProofs --------------------------
(***************************************************************************)
(* Proofs about RadioLink, for every value of its constants.               *)
(***************************************************************************)
EXTENDS RadioLink, RadioAppProofs

USE PortsAssumption, DeviceAssumption, LibAssumption, AppAssumption

\* Both programs start well-typed.
LEMMA InitTypeOK == Init => TypeOK
<1> SUFFICES ASSUME Init PROVE TypeOK
  OBVIOUS
<1> USE DEF Init
<1>1. PortsTypeOK
  BY DEF PortsInit, PortsTypeOK
<1>2. DeviceTypeOK
  <2>1. job \in Datagram
    BY StrayType DEF DeviceInit, NoJob
  <2>2. enabled \in BOOLEAN /\ keepRunning \in BOOLEAN /\ raced \in BOOLEAN
    BY DEF DeviceInit
  <2>3. lane \in 1..W
    BY DEF DeviceInit
  <2>4. QED
    BY <2>1, <2>2, <2>3, ZeroType DEF DeviceInit, DeviceTypeOK, DevPC, CbPC
<1>3. AppTypeOK
  BY NoAnswerType, ResetCountersType DEF AppInit, AppTypeOK
<1> QED
  BY <1>1, <1>2, <1>3 DEF TypeOK

-----------------------------------------------------------------------------
(***************************************************************************)
(* Type correctness, thread by thread.                                     *)
(***************************************************************************)
\* A byte of the count, at its place.
LEMMA ByteType ==
    ASSUME NEW c \in Nat, NEW i \in 1..W
    PROVE  CountByte(c, i) \in Nat
<1>1. Place[i] \in Nat \ {0} /\ ByteBase \in Nat \ {0}
  BY DeviceAssumption DEF PositionalCount
<1> DEFINE q == c \div Place[i]
<1>2. q \in Nat
  BY <1>1, DivMod
<1>3. q % ByteBase \in Nat
  BY <1>1, <1>2, DivMod
<1> QED
  BY <1>1, <1>3, SMT DEF CountByte

LEMMA RunTypeOK ==
    TypeOK /\ RunThread => PortsTypeOK' /\ DeviceTypeOK'
<1> SUFFICES ASSUME TypeOK, RunThread PROVE PortsTypeOK' /\ DeviceTypeOK'
  OBVIOUS
<1> USE DEF TypeOK, PortsTypeOK, DeviceTypeOK, DevPC, portVars
<1>0. NoJob \in Datagram /\ Zero \in Word
  BY StrayType, ZeroType DEF NoJob
<1>1. CASE DevReceive
  <2>1. Tail(radioRx) \in Seq(Datagram) /\ Len(Tail(radioRx)) <= RxCap
        /\ Head(radioRx) \in Datagram
    BY <1>1, TailType DEF DevReceive
  <2>2. PortsTypeOK'
    BY <1>1, <2>1 DEF DevReceive
  <2>3. job' \in Datagram /\ dev' \in DevPC
    BY <1>1, <2>1 DEF DevReceive
  <2>4. QED
    BY <1>1, <2>2, <2>3 DEF DevReceive
<1>2. CASE DevLoadCount
  BY <1>2 DEF DevLoadCount
<1>3. CASE DevStoreCount
  <2>1. (tmp + 1) % CountMod \in Nat
    OBVIOUS
  <2>2. QED
    BY <1>3, <2>1 DEF DevStoreCount
<1>4. CASE DevStoreConfig
  <2>1. config' \in Word
    BY <1>4 DEF DevStoreConfig, Word, Byte, Datagram
  <2>2. QED
    BY <1>4, <2>1 DEF DevStoreConfig
<1>5. CASE DevLoadConfig
  BY <1>5 DEF DevLoadConfig
<1>6. CASE DevOrConfig
  <2>1. config' \in Word
    BY <1>6 DEF DevOrConfig, Word, Byte, Or, Datagram
  <2>2. QED
    BY <1>0, <1>6, <2>1 DEF DevOrConfig, HandlerEnds
<1>7. CASE DevReadCount
  <2>1. count \in Nat /\ tmp \in Nat /\ lane \in 1..W /\ gen \in Nat
    OBVIOUS
  <2>2. tmp' \in Nat
    <3>1. CountByte(count, lane) \in Nat
      BY <2>1, ByteType
    <3> QED
      BY <1>7, <2>1, <3>1 DEF DevReadCount
  <2>3. lane' \in 1..W /\ dev' \in DevPC /\ jobGen' \in Nat /\ jobUntil' \in Nat
    BY <1>7, <2>1 DEF DevReadCount
  <2>4. QED
    BY <1>7, <2>2, <2>3 DEF DevReadCount
<1>8. CASE DevReadConfig
  <2>1. reg' \in Word
    BY <1>8 DEF DevReadConfig, Word, Byte
  <2>2. lane' \in 1..W /\ dev' \in DevPC
    <3>1. lane \in 1..W /\ (lane' = 1 \/ (lane # W /\ lane' = lane + 1))
      BY <1>8 DEF DevReadConfig
    <3>2. dev' \in {"snapconfig", "reply"}
      BY <1>8 DEF DevReadConfig
    <3> QED
      BY <3>1, <3>2
  <2>3. QED
    BY <1>8, <2>1, <2>2 DEF DevReadConfig
<1>9. CASE DevReply
  <2>1. Answer \in Datagram
    BY DEF Answer, Datagram
  <2>2. fswRx' \in Seq(Datagram) /\ Len(fswRx') <= RxCap
    BY <1>9, <2>1, ArrivalsType DEF DevReply
  <2>3. QED
    BY <1>0, <1>9, <2>2 DEF DevReply, HandlerEnds
<1> QED
  BY <1>1, <1>2, <1>3, <1>4, <1>5, <1>6, <1>7, <1>8, <1>9 DEF RunThread

\* The steps of command_callback keep the device well-typed.
LEMMA CallbackTypeOK ==
    TypeOK /\ CallbackThread => PortsTypeOK' /\ DeviceTypeOK'
<1> SUFFICES ASSUME TypeOK, CallbackThread PROVE PortsTypeOK' /\ DeviceTypeOK'
  OBVIOUS
<1> USE DEF TypeOK, PortsTypeOK, DeviceTypeOK, CbPC, portVars
<1>1. CASE CbEnable
  BY <1>1 DEF CbEnable
<1>2. CASE CbKeepRunning
  BY <1>2 DEF CbKeepRunning
<1>3. CASE CbDisable
  BY <1>3 DEF CbDisable
<1>4. CASE CbClearCount
  BY <1>4 DEF CbClearCount
<1>5. CASE CbClearConfig
  BY <1>5, ZeroType DEF CbClearConfig
<1>6. CASE CbStop
  BY <1>6 DEF CbStop
<1>7. CASE CbOther
  BY <1>7 DEF CbOther
<1>8. CASE CbReply
  BY <1>8 DEF CbReply
<1> QED
  BY <1>1, <1>2, <1>3, <1>4, <1>5, <1>6, <1>7, <1>8 DEF CallbackThread

\* Serving a command keeps the app and the ports well-typed.
LEMMA MainTypeOK == TypeOK /\ MainTask => PortsTypeOK' /\ AppTypeOK'
BY MainTypes DEF TypeOK

\* Putting a command on the pipe does too.
LEMMA GroundTypeOK == TypeOK /\ SendCommand => PortsTypeOK' /\ AppTypeOK'
BY SendTypes DEF TypeOK

\* And so does a third party's datagram.
LEMMA NetworkTypeOK == TypeOK /\ (StrayToRadio \/ StrayToFsw) => PortsTypeOK'
BY NetworkTypes DEF TypeOK

\* TypeOK is inductive.
LEMMA NextTypeOK == TypeOK /\ [Next]_vars => TypeOK'
<1> SUFFICES ASSUME TypeOK, [Next]_vars PROVE TypeOK'
  OBVIOUS
<1>1. CASE RunStep
  BY <1>1, RunTypeOK DEF RunStep, DeviceFrame, TypeOK, AppTypeOK, DeviceTypeOK, appVars
<1>2. CASE CallbackStep
  BY <1>2, CallbackTypeOK DEF CallbackStep, DeviceFrame, TypeOK, AppTypeOK, DeviceTypeOK, appVars
<1>3. CASE MainStep
  BY <1>3, MainTypeOK DEF MainStep, AppFrame, TypeOK, DeviceTypeOK, devVars
<1>4. CASE GroundStep
  BY <1>4, GroundTypeOK DEF GroundStep, AppFrame, TypeOK, DeviceTypeOK, devVars
<1>5. CASE NetworkStep
  BY <1>5, NetworkTypeOK
  DEF NetworkStep, TypeOK, DeviceTypeOK, AppTypeOK, devVars, appVars
<1>6. CASE UNCHANGED vars
  BY <1>6
  DEF vars, portVars, devVars, appVars, TypeOK, PortsTypeOK, DeviceTypeOK, AppTypeOK
<1> QED
  BY <1>1, <1>2, <1>3, <1>4, <1>5, <1>6 DEF Next

(***************************************************************************)
(* Every variable keeps its type: in particular the receive buffers stay   *)
(* within their capacity and the app's counters within a byte.             *)
(***************************************************************************)
THEOREM TypeCorrect == Spec => []TypeOK
<1>1. Init => TypeOK
  BY InitTypeOK
<1>2. TypeOK /\ [Next]_vars => TypeOK'
  BY NextTypeOK
<1> QED
  BY <1>1, <1>2, PTL DEF Spec

-----------------------------------------------------------------------------
(***************************************************************************)
(* Sending and reading keep the numbers of a buffer in order.              *)
(***************************************************************************)
LEMMA IdType == \A d \in Datagram : d.id \in Nat
BY DEF Datagram

\* A buffer keeps its order when something newer than all it holds is sent to it.
LEMMA SendKeepsOrder ==
    ASSUME NEW q \in Seq(Datagram), NEW m \in Datagram, NEW r \in Arrivals(q, m),
           NEW k
    PROVE  /\ \A n \in Nat : Above(q, k, n) /\ (m.kind = k => n < m.id) => Above(r, k, n)
           /\ \A n \in Nat : Below(q, k, n) /\ (m.kind = k => m.id < n) => Below(r, k, n)
           /\ Ordered(q, k) /\ (m.kind = k => Below(q, k, m.id)) => Ordered(r, k)
<1>1. \A i \in 1..Len(q) : q[i].id \in Nat
  BY IdType
<1>2. CASE r = q
  BY <1>2
<1>3. CASE r = Append(q, m)
  <2>1. Len(r) = Len(q) + 1 /\ r[Len(q) + 1] = m
    BY <1>3
  <2>2. \A i \in 1..Len(q) : r[i] = q[i]
    BY <1>3
  <2>3. \A i \in 1..Len(r) : i \in 1..Len(q) \/ i = Len(q) + 1
    BY <2>1
  <2>4. \A n \in Nat : Above(q, k, n) /\ (m.kind = k => n < m.id) => Above(r, k, n)
    BY <2>1, <2>2, <2>3 DEF Above
  <2>5. \A n \in Nat : Below(q, k, n) /\ (m.kind = k => m.id < n) => Below(r, k, n)
    BY <2>1, <2>2, <2>3 DEF Below
  <2>6. Ordered(q, k) /\ (m.kind = k => Below(q, k, m.id)) => Ordered(r, k)
    BY <2>1, <2>2, <2>3 DEF Ordered, Below
  <2>7. QED
    BY <2>4, <2>5, <2>6
<1> QED
  BY <1>2, <1>3 DEF Arrivals

\* A buffer keeps its order and its bounds when its oldest datagram is read.
LEMMA ReadKeepsOrder ==
    ASSUME NEW q \in Seq(Datagram), q # <<>>, NEW k
    PROVE  /\ \A n \in Nat : Above(q, k, n) => Above(Tail(q), k, n)
           /\ \A n \in Nat : Below(q, k, n) => Below(Tail(q), k, n)
           /\ Ordered(q, k) => Ordered(Tail(q), k)
           /\ Ordered(q, k) /\ Head(q).kind = k => Above(Tail(q), k, Head(q).id)
           /\ \A n \in Nat : Above(q, k, n) /\ Head(q).kind = k => n < Head(q).id
           /\ \A n \in Nat : Below(q, k, n) /\ Head(q).kind = k => Head(q).id < n
<1>1. Len(Tail(q)) = Len(q) - 1 /\ Len(q) >= 1 /\ Head(q) = q[1]
  OBVIOUS
<1>2. \A i \in 1..Len(Tail(q)) : Tail(q)[i] = q[i + 1] /\ i + 1 \in 1..Len(q)
  OBVIOUS
<1>3. /\ \A n \in Nat : Above(q, k, n) => Above(Tail(q), k, n)
      /\ \A n \in Nat : Below(q, k, n) => Below(Tail(q), k, n)
  BY <1>2 DEF Above, Below
<1>4. Ordered(q, k) => Ordered(Tail(q), k)
  BY <1>1, <1>2 DEF Ordered
<1>5. Ordered(q, k) /\ Head(q).kind = k => Above(Tail(q), k, Head(q).id)
  BY <1>1, <1>2 DEF Ordered, Above
<1>6. /\ \A n \in Nat : Above(q, k, n) /\ Head(q).kind = k => n < Head(q).id
      /\ \A n \in Nat : Below(q, k, n) /\ Head(q).kind = k => Head(q).id < n
  BY <1>1 DEF Above, Below
<1> QED
  BY <1>3, <1>4, <1>5, <1>6

\* A buffer above a number is above every smaller one.
LEMMA Transitive ==
    ASSUME NEW q \in Seq(Datagram), NEW k, NEW m \in Nat, NEW n \in Nat, m <= n
    PROVE  /\ Above(q, k, n) => Above(q, k, m)
           /\ Below(q, k, m) => Below(q, k, n)
<1>1. \A i \in 1..Len(q) : q[i].id \in Nat
  BY IdType
<1> QED
  BY <1>1 DEF Above, Below

\* Answers stay older than requests when either buffer grows as the programs make it.
LEMMA PrecedeSend ==
    ASSUME NEW q \in Seq(Datagram), NEW r \in Seq(Datagram), NEW m \in Datagram,
           Precede(q, r)
    PROVE  /\ \A s \in Arrivals(r, m) :
                 (m.kind = "hk" => Below(q, "reply", m.id)) => Precede(q, s)
           /\ \A s \in Arrivals(q, m) :
                 (m.kind = "reply" => Above(r, "hk", m.id)) => Precede(s, r)
<1>1. \A i \in 1..Len(q) : q[i].id \in Nat
  BY IdType
<1>2. ASSUME NEW s \in Arrivals(r, m), m.kind = "hk" => Below(q, "reply", m.id)
      PROVE  Precede(q, s)
  <2>1. \A n \in Nat : Above(r, "hk", n) /\ (m.kind = "hk" => n < m.id)
                         => Above(s, "hk", n)
    BY <1>2, SendKeepsOrder
  <2>2. ASSUME NEW i \in 1..Len(q), q[i].kind = "reply"
        PROVE  Above(s, "hk", q[i].id)
    BY <1>1, <1>2, <2>1, <2>2 DEF Precede, Below
  <2>3. QED
    BY <2>2 DEF Precede
<1>3. ASSUME NEW s \in Arrivals(q, m), m.kind = "reply" => Above(r, "hk", m.id)
      PROVE  Precede(s, r)
  <2>1. CASE s = q
    BY <2>1
  <2>2. CASE s = Append(q, m)
    <3>1. /\ Len(s) = Len(q) + 1 /\ s[Len(q) + 1] = m
          /\ \A i \in 1..Len(q) : s[i] = q[i]
      BY <2>2
    <3>2. \A i \in 1..Len(s) : i \in 1..Len(q) \/ i = Len(q) + 1
      BY <3>1
    <3>3. QED
      BY <1>3, <3>1, <3>2 DEF Precede
  <2>3. QED
    BY <2>1, <2>2 DEF Arrivals
<1> QED
  BY <1>2, <1>3

\* Answers stay older than requests when either buffer is read.
LEMMA PrecedeRead ==
    ASSUME NEW q \in Seq(Datagram), NEW r \in Seq(Datagram), Precede(q, r)
    PROVE  /\ r # <<>> => Precede(q, Tail(r))
           /\ q # <<>> => Precede(Tail(q), r)
           /\ q # <<>> /\ Head(q).kind = "reply" => Above(r, "hk", Head(q).id)
           /\ r # <<>> /\ Head(r).kind = "hk" => Below(q, "reply", Head(r).id)
<1>1. \A i \in 1..Len(q) : q[i].id \in Nat
  BY IdType
<1>2. r # <<>> => Precede(q, Tail(r))
  BY <1>1, ReadKeepsOrder DEF Precede
<1>3. q # <<>> => Precede(Tail(q), r)
  <2>1. q # <<>> => \A i \in 1..Len(Tail(q)) : Tail(q)[i] = q[i + 1] /\ i + 1 \in 1..Len(q)
    OBVIOUS
  <2>2. QED
    BY <2>1 DEF Precede
<1>4. q # <<>> /\ Head(q).kind = "reply" => Above(r, "hk", Head(q).id)
  <2>1. q # <<>> => Head(q) = q[1] /\ 1 \in 1..Len(q)
    OBVIOUS
  <2>2. QED
    BY <2>1 DEF Precede
<1>5. r # <<>> /\ Head(r).kind = "hk" => Below(q, "reply", Head(r).id)
  <2>1. r # <<>> => Head(r) = r[1] /\ 1 \in 1..Len(r)
    OBVIOUS
  <2>2. QED
    BY <2>1 DEF Precede, Above, Below
<1> QED
  BY <1>2, <1>3, <1>4, <1>5

-----------------------------------------------------------------------------
(***************************************************************************)
(* The order of requests and answers, for requests in q, answers in r, a   *)
(* device at place d that handles j, a program that decoded the answer to  *)
(* request lo last and sent request hi last.  The same argument serves     *)
(* every program that drives the device.                                   *)
(***************************************************************************)
Chain(q, r, d, j, lo, hi) ==
    /\ d \in {"snapcount", "snapconfig", "reply"} => j.kind = "hk"
    /\ lo <= hi
    /\ Ordered(r, "reply") /\ Above(r, "reply", lo) /\ Below(r, "reply", hi + 1)
    /\ Ordered(q, "hk") /\ Above(q, "hk", lo) /\ Below(q, "hk", hi + 1)
    /\ Precede(r, q)
    /\ d # "recv" /\ j.kind = "hk" => /\ lo < j.id /\ j.id <= hi
                                      /\ Below(r, "reply", j.id)
                                      /\ Above(q, "hk", j.id)

\* The chain as it stands, for a program that has got so far.
ChainNow(lo, hi) == Chain(radioRx, fswRx, dev, job, lo, hi)

\* The types the ordering argument uses.
LEMMA ChainTypes ==
    ASSUME TypeOK
    PROVE  /\ radioRx \in Seq(Datagram) /\ fswRx \in Seq(Datagram)
           /\ job \in Datagram /\ job.id \in Nat
BY IdType DEF TypeOK, PortsTypeOK, DeviceTypeOK

\* A datagram that is no request is sent to the device.
LEMMA ChainSend ==
    ASSUME NEW q \in Seq(Datagram), NEW r \in Seq(Datagram), NEW d, NEW j \in Datagram,
           NEW lo \in Nat, NEW hi \in Nat, Chain(q, r, d, j, lo, hi),
           NEW m \in Datagram, m.kind # "hk", NEW s \in Arrivals(q, m)
    PROVE  Chain(s, r, d, j, lo, hi)
<1>1. /\ Ordered(s, "hk") /\ Above(s, "hk", lo) /\ Below(s, "hk", hi + 1)
      /\ Above(q, "hk", j.id) => Above(s, "hk", j.id)
  BY IdType, SendKeepsOrder DEF Chain
<1>2. Precede(r, s)
  BY PrecedeSend DEF Chain
<1> QED
  BY <1>1, <1>2 DEF Chain

\* A datagram that is no answer is sent to the program.
LEMMA ChainNoise ==
    ASSUME NEW q \in Seq(Datagram), NEW r \in Seq(Datagram), NEW d, NEW j \in Datagram,
           NEW lo \in Nat, NEW hi \in Nat, Chain(q, r, d, j, lo, hi),
           NEW m \in Datagram, m.kind # "reply", NEW s \in Arrivals(r, m)
    PROVE  Chain(q, s, d, j, lo, hi)
<1>1. /\ Ordered(s, "reply") /\ Above(s, "reply", lo) /\ Below(s, "reply", hi + 1)
      /\ Below(r, "reply", j.id) => Below(s, "reply", j.id)
  BY IdType, SendKeepsOrder DEF Chain
<1>2. Precede(s, q)
  BY PrecedeSend DEF Chain
<1> QED
  BY <1>1, <1>2 DEF Chain

\* The next request is sent.
LEMMA ChainRequest ==
    ASSUME NEW q \in Seq(Datagram), NEW r \in Seq(Datagram), NEW d, NEW j \in Datagram,
           NEW lo \in Nat, NEW hi \in Nat, Chain(q, r, d, j, lo, hi),
           NEW s \in Arrivals(q, HkRequest(hi + 1))
    PROVE  Chain(s, r, d, j, lo, hi + 1)
<1> DEFINE m == HkRequest(hi + 1)
<1>1. m \in Datagram /\ m.kind = "hk" /\ m.id = hi + 1 /\ s \in Arrivals(q, m)
  BY HkRequestType DEF HkRequest
<1> HIDE DEF m
<1>2. j.id \in Nat /\ (d # "recv" /\ j.kind = "hk" => j.id < hi + 1)
  BY IdType DEF Chain
<1>3. Below(q, "hk", (hi + 1) + 1) /\ Below(r, "reply", (hi + 1) + 1)
  BY Transitive DEF Chain
<1>4. /\ Ordered(s, "hk") /\ Above(s, "hk", lo) /\ Below(s, "hk", (hi + 1) + 1)
      /\ d # "recv" /\ j.kind = "hk" => Above(s, "hk", j.id)
  <2>1. lo < m.id /\ m.id < (hi + 1) + 1
    BY <1>1 DEF Chain
  <2> QED
    BY <1>1, <1>2, <1>3, <2>1, SendKeepsOrder DEF Chain
<1>5. Precede(r, s)
  BY <1>1, PrecedeSend DEF Chain
<1> QED
  BY <1>2, <1>3, <1>4, <1>5 DEF Chain

\* The program reads a datagram, and decodes it when it is an answer.
LEMMA ChainRead ==
    ASSUME NEW q \in Seq(Datagram), NEW r \in Seq(Datagram), NEW d, NEW j \in Datagram,
           NEW lo \in Nat, NEW hi \in Nat, Chain(q, r, d, j, lo, hi), r # <<>>
    PROVE  /\ Chain(q, Tail(r), d, j, lo, hi)
           /\ Head(r).kind = "reply" =>
                 /\ Head(r).id \in Nat /\ lo < Head(r).id /\ Head(r).id <= hi
                 /\ Chain(q, Tail(r), d, j, Head(r).id, hi)
<1>0. Head(r).id \in Nat /\ j.id \in Nat
  BY IdType
<1>1. /\ Ordered(Tail(r), "reply") /\ Above(Tail(r), "reply", lo)
      /\ Below(Tail(r), "reply", hi + 1) /\ Precede(Tail(r), q)
      /\ d # "recv" /\ j.kind = "hk" => Below(Tail(r), "reply", j.id)
  BY <1>0, ReadKeepsOrder, PrecedeRead DEF Chain
<1>2. Chain(q, Tail(r), d, j, lo, hi)
  BY <1>1 DEF Chain
<1>3. ASSUME Head(r).kind = "reply"
      PROVE  /\ lo < Head(r).id /\ Head(r).id <= hi
             /\ Chain(q, Tail(r), d, j, Head(r).id, hi)
  <2>1. lo < Head(r).id /\ Head(r).id < hi + 1 /\ Above(Tail(r), "reply", Head(r).id)
    BY <1>3, ReadKeepsOrder DEF Chain
  <2>2. Above(q, "hk", Head(r).id)
    BY <1>3, PrecedeRead DEF Chain
  <2>3. d # "recv" /\ j.kind = "hk" => Head(r).id < j.id
    BY <1>0, <1>3, ReadKeepsOrder DEF Chain
  <2>4. Head(r).id <= hi
    BY <1>0, <2>1
  <2> QED
    BY <1>1, <2>1, <2>2, <2>3, <2>4 DEF Chain
<1> QED
  BY <1>0, <1>2, <1>3

\* The steps of run() keep requests and answers in order.
LEMMA ChainRun ==
    ASSUME TypeOK, RunThread, NEW lo \in Nat, NEW hi \in Nat, ChainNow(lo, hi)
    PROVE  Chain(radioRx', fswRx', dev', job', lo, hi)
<1> USE DEF ChainNow
<1>1. CASE DevReceive
  <2>1. /\ dev = "recv" /\ radioRx # <<>> /\ fswRx' = fswRx
        /\ radioRx' = Tail(radioRx)
    BY <1>1 DEF DevReceive
  <2>2. \/ dev' = "recv"
        \/ dev' = "load" /\ job' = Head(radioRx)
    BY <1>1 DEF DevReceive
  <2>3. /\ Ordered(Tail(radioRx), "hk")
        /\ Above(Tail(radioRx), "hk", lo)
        /\ Below(Tail(radioRx), "hk", hi + 1)
        /\ Precede(fswRx, Tail(radioRx))
    BY <2>1, ChainTypes, ReadKeepsOrder, PrecedeRead DEF Chain
  <2>4. Head(radioRx).kind = "hk" => /\ lo < Head(radioRx).id /\ Head(radioRx).id <= hi
                                     /\ Below(fswRx, "reply", Head(radioRx).id)
                                     /\ Above(Tail(radioRx), "hk", Head(radioRx).id)
    <3> SUFFICES ASSUME Head(radioRx).kind = "hk"
                 PROVE  /\ lo < Head(radioRx).id /\ Head(radioRx).id <= hi
                        /\ Below(fswRx, "reply", Head(radioRx).id)
                        /\ Above(Tail(radioRx), "hk", Head(radioRx).id)
      OBVIOUS
    <3>1. Head(radioRx).id \in Nat
      BY <2>1, ChainTypes, IdType
    <3>2. /\ lo < Head(radioRx).id /\ Head(radioRx).id < hi + 1
          /\ Above(Tail(radioRx), "hk", Head(radioRx).id)
      BY <2>1, ChainTypes, ReadKeepsOrder DEF Chain
    <3>3. Below(fswRx, "reply", Head(radioRx).id)
      BY <2>1, ChainTypes, PrecedeRead DEF Chain
    <3> QED
      BY <3>1, <3>2, <3>3
  <2> QED
    BY <2>1, <2>2, <2>3, <2>4 DEF Chain
<1>2. CASE DevReply
  <2>1. /\ dev = "reply" /\ dev' = "recv" /\ job.kind = "hk"
        /\ fswRx' \in Arrivals(fswRx, Answer) /\ radioRx' = radioRx
    BY <1>2 DEF DevReply, HandlerEnds, Chain
  <2>2. Answer \in Datagram /\ Answer.id = job.id /\ Answer.kind = "reply"
    BY DEF Answer, Datagram, TypeOK, DeviceTypeOK
  <2>3. /\ lo < job.id /\ job.id < hi + 1
        /\ Below(fswRx, "reply", job.id)
        /\ Above(radioRx, "hk", job.id)
    BY <2>1, ChainTypes DEF Chain
  <2>4. /\ Ordered(fswRx', "reply")
        /\ Above(fswRx', "reply", lo)
        /\ Below(fswRx', "reply", hi + 1)
    BY <2>1, <2>2, <2>3, ChainTypes, SendKeepsOrder DEF Chain
  <2>5. Precede(fswRx', radioRx)
    BY <2>1, <2>2, <2>3, ChainTypes, PrecedeSend DEF Chain
  <2> QED
    BY <2>1, <2>4, <2>5 DEF Chain
<1>3. CASE DevOrConfig
  <2>1. /\ UNCHANGED <<radioRx, fswRx>>
        /\ \/ dev' = "recv"
           \/ dev = "orstore" /\ dev' = "orload" /\ job' = job
    BY <1>3 DEF DevOrConfig, HandlerEnds, portVars
  <2> QED
    BY <2>1 DEF Chain
<1>4. CASE DevLoadCount \/ DevStoreCount \/ DevStoreConfig \/ DevLoadConfig
           \/ DevReadCount \/ DevReadConfig
  <2>1. /\ UNCHANGED <<radioRx, fswRx, job>>
        /\ dev # "recv" /\ dev' # "recv"
        /\ dev' \in {"snapcount", "snapconfig", "reply"} =>
              dev \in {"snapcount", "snapconfig"} \/ job.kind = "hk"
    BY <1>4 DEF DevLoadCount, DevStoreCount, DevStoreConfig, DevLoadConfig,
                DevReadCount, DevReadConfig, portVars
  <2> QED
    BY <2>1 DEF Chain
<1> QED
  BY <1>1, <1>2, <1>3, <1>4 DEF RunThread

\* The callback has no part in it.
LEMMA ChainCallback == CallbackThread => UNCHANGED <<radioRx, fswRx, dev, job>>
BY Zenon DEF CallbackThread, CbEnable, CbKeepRunning, CbDisable, CbClearCount,
   CbClearConfig, CbStop, CbOther, CbReply, portVars

\* A third party's datagram, which is neither, keeps requests and answers in order.
LEMMA ChainNetwork ==
    ASSUME TypeOK, StrayToRadio \/ StrayToFsw,
           NEW lo \in Nat, NEW hi \in Nat, ChainNow(lo, hi)
    PROVE  Chain(radioRx', fswRx', dev, job, lo, hi)
<1> USE DEF ChainNow
<1>1. CASE StrayToRadio
  <2>1. PICK k \in {"unknown", "malformed"} : radioRx' \in Arrivals(radioRx, Stray(k))
    BY <1>1 DEF StrayToRadio
  <2>2. fswRx' = fswRx /\ Stray(k) \in Datagram /\ Stray(k).kind # "hk"
    BY <1>1, StrayType DEF StrayToRadio, Stray
  <2> QED
    BY <2>1, <2>2, ChainTypes, ChainSend
<1>2. CASE StrayToFsw
  <2>1. /\ fswRx' \in Arrivals(fswRx, Stray("malformed")) /\ radioRx' = radioRx
        /\ Stray("malformed") \in Datagram /\ Stray("malformed").kind # "reply"
    BY <1>2, StrayType DEF StrayToFsw, Stray
  <2> QED
    BY <2>1, ChainTypes, ChainNoise
<1> QED
  BY <1>1, <1>2

-----------------------------------------------------------------------------
(***************************************************************************)
(* The order of requests and answers of the cFS application.               *)
(***************************************************************************)
Ordering == AnswersInOrder /\ SkewBounded

\* The chain, and what the application's own counts say.
Counted ==
    /\ main = "pend" => issued = done
    /\ main = "delay" => issued = done + 1
    /\ SkewBounded

\* The types the ordering argument uses.
LEMMA OrderingTypes ==
    ASSUME TypeOK
    PROVE  /\ radioRx \in Seq(Datagram) /\ fswRx \in Seq(Datagram)
           /\ job \in Datagram /\ last \in Datagram
           /\ job.id \in Nat /\ last.id \in Nat
           /\ issued \in Nat /\ done \in Nat /\ misses \in Nat
BY IdType DEF TypeOK, PortsTypeOK, DeviceTypeOK, AppTypeOK

\* The ordering is the chain of the application and its counts.
LEMMA OrderingIsChain == Ordering <=> ChainNow(last.id, issued) /\ Counted
BY DEF Ordering, AnswersInOrder, OneAtATime, Answering, ChainNow, Chain, Counted

\* The same of the next state.
LEMMA OrderingNext ==
    Ordering' <=> Chain(radioRx', fswRx', dev', job', last'.id, issued') /\ Counted'
BY DEF Ordering, AnswersInOrder, OneAtATime, Answering, Chain, Counted

\* The ordering depends on nothing but the buffers, the device's job and the app's counts.
LEMMA OrderingFrame ==
    ASSUME Ordering,
           UNCHANGED <<radioRx, fswRx, dev, job, last, issued, done, misses, main>>
    PROVE  Ordering'
BY OrderingIsChain, OrderingNext DEF ChainNow, Counted, SkewBounded

\* The steps of run() keep requests and answers in order.
LEMMA RunOrdering ==
    TypeOK /\ Ordering /\ RunThread /\ UNCHANGED appVars => Ordering'
<1> SUFFICES ASSUME TypeOK, Ordering, RunThread, UNCHANGED appVars PROVE Ordering'
  OBVIOUS
<1>1. UNCHANGED <<main, issued, done, misses, last>>
  BY DEF appVars
<1>2. Chain(radioRx', fswRx', dev', job', last.id, issued)
  BY OrderingIsChain, OrderingTypes, ChainRun
<1> QED
  BY <1>1, <1>2, OrderingIsChain, OrderingNext DEF Counted, SkewBounded

\* The steps of the main task keep requests and answers in order.
LEMMA MainOrdering ==
    TypeOK /\ Ordering /\ MainTask /\ UNCHANGED devVars => Ordering'
<1> SUFFICES ASSUME TypeOK, Ordering, MainTask, UNCHANGED devVars PROVE Ordering'
  OBVIOUS
<1>0. dev' = dev /\ job' = job
  BY DEF devVars
<1>a. Chain(radioRx, fswRx, dev, job, last.id, issued) /\ Counted
  BY OrderingIsChain DEF ChainNow
<1>1. CASE Noop \/ Reset \/ Invalid \/ ConfigNotSent \/ Proximity
  <2>1. UNCHANGED <<radioRx, fswRx, last, issued, done, misses, main>>
    BY <1>1, Zenon DEF Noop, Reset, Invalid, ConfigNotSent, Proximity, Served
  <2> QED
    BY <1>0, <2>1, OrderingFrame
<1>2. CASE ConfigSent
  <2>1. /\ radioRx' \in Arrivals(radioRx, SetConfig(Head(cmdPipe).word))
        /\ UNCHANGED <<fswRx, last, issued, done, misses, main>>
    BY <1>2, Zenon DEF ConfigSent, Served
  <2>2. /\ SetConfig(Head(cmdPipe).word).kind # "hk"
        /\ SetConfig(Head(cmdPipe).word) \in Datagram
    <3>1. cmdPipe \in Seq(Command) /\ cmdPipe # <<>>
      BY <1>2 DEF ConfigSent, Take, TypeOK, AppTypeOK
    <3>2. Head(cmdPipe) \in Command
      BY <3>1
    <3>3. Head(cmdPipe).word \in Word
      BY <3>2 DEF Command
    <3> QED
      BY <3>3, SetConfigType DEF SetConfig
  <2>3. Chain(radioRx', fswRx, dev, job, last.id, issued)
    BY <1>a, <2>1, <2>2, OrderingTypes, ChainSend
  <2> QED
    BY <1>0, <1>a, <2>1, <2>3, OrderingNext DEF Counted, SkewBounded
<1>3. CASE HkSend
  <2>1. /\ radioRx' \in Arrivals(radioRx, HkRequest(issued + 1))
        /\ issued' = issued + 1 /\ main' = "delay" /\ main = "pend"
        /\ UNCHANGED <<fswRx, last, done, misses>>
    BY <1>3 DEF HkSend, Take
  <2>2. Chain(radioRx', fswRx, dev, job, last.id, issued + 1)
    BY <1>a, <2>1, OrderingTypes, ChainRequest
  <2>3. Counted'
    BY <1>a, <2>1, OrderingTypes DEF Counted, SkewBounded
  <2> QED
    BY <1>0, <2>1, <2>2, <2>3, OrderingNext
<1>4. CASE HkHit
  <2>1. /\ main = "delay" /\ main' = "pend" /\ fswRx # <<>>
        /\ Head(fswRx).kind = "reply"
        /\ last' = Head(fswRx) /\ fswRx' = Tail(fswRx)
        /\ misses' = misses /\ done' = done + 1
        /\ UNCHANGED <<radioRx, issued>>
    BY <1>4, Zenon DEF HkHit
  <2>2. /\ Head(fswRx).id \in Nat /\ last.id < Head(fswRx).id
        /\ Chain(radioRx, Tail(fswRx), dev, job, Head(fswRx).id, issued)
    BY <1>a, <2>1, OrderingTypes, ChainRead
  <2>3. Counted'
    BY <1>a, <2>1, <2>2, OrderingTypes DEF Counted, SkewBounded
  <2> QED
    BY <1>0, <2>1, <2>2, <2>3, OrderingNext
<1>5. CASE HkMiss
  <2>1. /\ main = "delay" /\ main' = "pend"
        /\ fswRx' = fswRx \/ (fswRx # <<>> /\ fswRx' = Tail(fswRx))
        /\ misses' = misses + 1 /\ done' = done + 1
        /\ UNCHANGED <<radioRx, issued, last>>
    BY <1>5, Zenon DEF HkMiss
  <2>2. Chain(radioRx, fswRx', dev, job, last.id, issued)
    BY <1>a, <2>1, OrderingTypes, ChainRead
  <2>3. Counted'
    BY <1>a, <2>1, OrderingTypes DEF Counted, SkewBounded
  <2> QED
    BY <1>0, <2>1, <2>2, <2>3, OrderingNext
<1> QED
  BY <1>1, <1>2, <1>3, <1>4, <1>5 DEF MainTask

\* So does a datagram of a third party.
LEMMA NetworkOrdering ==
    TypeOK /\ Ordering /\ NetworkStep => Ordering'
<1> SUFFICES ASSUME TypeOK, Ordering, NetworkStep PROVE Ordering'
  OBVIOUS
<1>1. UNCHANGED <<dev, job, last, issued, done, misses, main>>
  BY DEF NetworkStep, devVars, appVars
<1>2. Chain(radioRx', fswRx', dev, job, last.id, issued)
  BY OrderingIsChain, OrderingTypes, ChainNetwork DEF NetworkStep
<1> QED
  BY <1>1, <1>2, OrderingIsChain, OrderingNext DEF Counted, SkewBounded

\* Requests and answers are in order at the start.
LEMMA InitOrdering == Init => Ordering
BY DEF Init, PortsInit, DeviceInit, AppInit, NoAnswer, Ordering, AnswersInOrder,
       OneAtATime, SkewBounded, Ordered, Above, Below, Precede, Answering

\* The ordering is inductive, given the types.
LEMMA NextOrdering == TypeOK /\ Ordering /\ [Next]_vars => Ordering'
<1> SUFFICES ASSUME TypeOK, Ordering, [Next]_vars PROVE Ordering'
  OBVIOUS
<1>1. CASE RunStep
  BY <1>1, RunOrdering DEF RunStep, DeviceFrame
<1>2. CASE CallbackStep
  <2>1. UNCHANGED <<radioRx, fswRx, dev, job>>
    BY <1>2, ChainCallback DEF CallbackStep
  <2>2. UNCHANGED <<last, issued, done, misses, main>>
    BY <1>2 DEF CallbackStep, DeviceFrame, appVars
  <2>3. QED
    BY <2>1, <2>2, OrderingFrame
<1>3. CASE MainStep
  BY <1>3, MainOrdering DEF MainStep, AppFrame
<1>4. CASE GroundStep
  <2>1. UNCHANGED <<radioRx, fswRx, last, issued, done, misses, main>>
    BY <1>4, Zenon DEF GroundStep, SendCommand, portVars
  <2>2. UNCHANGED <<dev, job>>
    BY <1>4 DEF GroundStep, AppFrame, devVars
  <2>3. QED
    BY <2>1, <2>2, OrderingFrame
<1>5. CASE NetworkStep
  BY <1>5, NetworkOrdering
<1>6. CASE UNCHANGED vars
  BY <1>6, OrderingFrame DEF vars, portVars, devVars, appVars
<1> QED
  BY <1>1, <1>2, <1>3, <1>4, <1>5, <1>6 DEF Next

(***************************************************************************)
(* LinkInv is inductive.                                                   *)
(***************************************************************************)
LEMMA LinkInvInductive == Spec => []LinkInv
<1>1. Init => LinkInv
  BY InitTypeOK, InitOrdering DEF LinkInv, Ordering
<1>2. LinkInv /\ [Next]_vars => LinkInv'
  BY NextTypeOK, NextOrdering DEF LinkInv, Ordering
<1> QED
  BY <1>1, <1>2, PTL DEF Spec

(***************************************************************************)
(* Requests and answers keep their order from the app to the device and    *)
(* back, for any buffer size, loss, DISABLE and number of requests.        *)
(***************************************************************************)
THEOREM OrderKept == Spec => []AnswersInOrder
<1>1. LinkInv => AnswersInOrder
  BY DEF LinkInv
<1> QED
  BY <1>1, LinkInvInductive, PTL

(***************************************************************************)
(* The app never lags by more than its failures: no answer is decoded      *)
(* twice and none after a newer one.                                       *)
(***************************************************************************)
THEOREM SkewStaysBounded == Spec => []SkewBounded
<1>1. LinkInv => SkewBounded
  BY DEF LinkInv
<1> QED
  BY <1>1, LinkInvInductive, PTL

-----------------------------------------------------------------------------
(***************************************************************************)
(* The exchange implements the housekeeping service.                       *)
(***************************************************************************)
LEMMA InitRefines == Init => Service!SvcInit
BY DEF Init, AppInit, NoAnswer, Service!SvcInit

\* Every step of the two programs is a step of the service or changes nothing it sees.
LEMMA StepRefines == LinkInv /\ [Next]_vars => [Service!SvcNext]_(Service!svcVars)
<1> SUFFICES ASSUME LinkInv, [Next]_vars
             PROVE  [Service!SvcNext]_(Service!svcVars)
  OBVIOUS
<1> USE DEF Service!svcVars
<1>a. TypeOK /\ OneAtATime /\ AnswersInOrder
  BY DEF LinkInv, AnswersInOrder
<1>1. CASE RunStep \/ CallbackStep
  BY <1>1 DEF RunStep, CallbackStep, DeviceFrame, appVars
<1>2. CASE NetworkStep
  BY <1>2 DEF NetworkStep, appVars
<1>3. CASE GroundStep
  <2>1. UNCHANGED <<last, issued, done, misses>>
    BY <1>3, Zenon DEF GroundStep, SendCommand
  <2>2. QED
    BY <2>1
<1>4. CASE MainStep
  <2>1. CASE Noop \/ Reset \/ Invalid \/ ConfigSent \/ ConfigNotSent \/ Proximity
    <3>1. UNCHANGED <<last, issued, done, misses>>
      BY <2>1, Zenon DEF Noop, Reset, Invalid, ConfigSent, ConfigNotSent,
         Proximity, Served
    <3>2. QED
      BY <3>1
  <2>2. CASE HkSend
    <3>1. /\ main = "pend" /\ issued' = issued + 1
          /\ UNCHANGED <<last, done, misses>>
      BY <2>2, Zenon DEF HkSend, Take
    <3>2. issued = done
      BY <1>a, <3>1 DEF OneAtATime
    <3>3. QED
      BY <3>1, <3>2 DEF Service!SvcNext, Service!Issue
  <2>3. CASE HkHit
    <3>1. /\ main = "delay" /\ fswRx # <<>> /\ Head(fswRx).kind = "reply"
          /\ last' = Head(fswRx) /\ misses' = misses /\ done' = done + 1
          /\ issued' = issued
      BY <2>3, Zenon DEF HkHit
    <3>2. Head(fswRx).id \in Nat
      BY <1>a, <3>1, OrderingTypes, IdType
    <3>3. last.id < Head(fswRx).id /\ Head(fswRx).id < issued + 1
      BY <1>a, <3>1, OrderingTypes, ReadKeepsOrder DEF AnswersInOrder
    <3>4. last'.id \in last.id + 1..issued
      BY <1>a, <3>1, <3>2, <3>3, OrderingTypes
    <3>5. done < issued
      BY <1>a, <3>1, OrderingTypes DEF OneAtATime
    <3>6. QED
      BY <3>1, <3>4, <3>5 DEF Service!SvcNext, Service!Hit
  <2>4. CASE HkMiss
    <3>1. /\ main = "delay" /\ misses' = misses + 1 /\ done' = done + 1
          /\ UNCHANGED <<issued, last>>
      BY <2>4, Zenon DEF HkMiss
    <3>2. done < issued
      BY <1>a, <3>1, OrderingTypes DEF OneAtATime
    <3>3. QED
      BY <3>1, <3>2 DEF Service!SvcNext, Service!Miss
  <2>5. QED
    BY <1>4, <2>1, <2>2, <2>3, <2>4 DEF MainStep, MainTask
<1>5. CASE UNCHANGED vars
  BY <1>5 DEF vars, appVars
<1> QED
  BY <1>1, <1>2, <1>3, <1>4, <1>5 DEF Next

(***************************************************************************)
(* Every behaviour of the app and the device is one of the housekeeping    *)
(* service: each request is served once, by a failure or by the answer to  *)
(* a request newer than the one answered before.                           *)
(***************************************************************************)
THEOREM ImplementsService == Spec => ServiceSpec
<1>1. Init => Service!SvcInit
  BY InitRefines
<1>2. LinkInv /\ [Next]_vars => [Service!SvcNext]_(Service!svcVars)
  BY StepRefines
<1> QED
  BY <1>1, <1>2, LinkInvInductive, PTL DEF Spec, ServiceSpec, Service!SvcSpec

=============================================================================

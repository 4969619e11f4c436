-------------------------- MODULE TcpBridgeProofs --------------------------
(***************************************************************************)
(* Proofs about TcpBridge, for every value of its constants.               *)
(***************************************************************************)
EXTENDS TcpBridge, TLAPS

Places == {"start", "resolve", "connect", "listen", "accept",
           "recv", "stamp", "push", "gone"}
Message == [from : Nat, to : Nat, delay : Nat, due : Nat]
QueueEntry == [from : Nat, to : Nat, due : Nat]

\* What the proof needs of the types: no bound of the model.
FlowType ==
    /\ now \in Nat
    /\ pc \in [Dirs -> Places]
    /\ buf \in [Dirs -> Message]
    /\ queue \in [Dirs -> Seq(QueueEntry)]
    /\ offered \in [Dirs -> Nat]
    /\ read \in [Dirs -> Nat]
    /\ udpIn \in Seq(Nat)
    /\ last \in [Dirs -> [to : Nat, count : Nat]]

(***************************************************************************)
(* FlowOrdered is inductive with the types it speaks of.                   *)
(***************************************************************************)
FlowInv == FlowType /\ FlowOrdered

flowVars == <<offered, read, udpIn, queue, last>>

\* Everything starts empty.
LEMMA FlowInit == Init => FlowInv
BY DEF Init, FlowInv, FlowType, FlowOrdered, DirOrdered, PortOrdered, Busy,
       Dirs, Places, Message, Empty

\* A step that moves no item, and leaves a thread no busier, keeps the order.
LEMMA FlowFrame ==
    ASSUME FlowInv, FlowType', UNCHANGED flowVars,
           \A d \in Dirs : Busy(d)' => /\ Busy(d)
                                       /\ buf'[d].from = buf[d].from
                                       /\ buf'[d].to = buf[d].to
    PROVE  FlowInv'
<1>1. PortOrdered'
  BY DEF FlowInv, FlowOrdered, PortOrdered, flowVars
<1>2. ASSUME NEW d \in Dirs PROVE DirOrdered(d)'
  BY <1>2 DEF FlowInv, FlowOrdered, DirOrdered, flowVars
<1> QED
  BY <1>1, <1>2 DEF FlowInv, FlowOrdered

\* Starting up moves no item.
LEMMA FlowStartUp == FlowInv /\ StartUp /\ ThreadFrame => FlowInv'
<1> SUFFICES ASSUME FlowInv, StartUp, ThreadFrame PROVE FlowInv'
  OBVIOUS
<1>1. UNCHANGED <<flowVars, buf, now>>
  BY DEF StartUp, ThreadFrame, DownStart, Resolve, Connect, UpStart, Listen,
         Accept, TcpInitFails, netVars, flowVars
<1>2. \E d \in Dirs, p \in Places \ {"stamp", "push"} :
         pc' = [pc EXCEPT ![d] = p] \/ pc' = pc
  BY DEF StartUp, DownStart, Resolve, Connect, UpStart, Listen,
         Accept, TcpInitFails, Failed, Dirs, Places
<1>3. PICK d \in Dirs, p \in Places \ {"stamp", "push"} :
         pc' = [pc EXCEPT ![d] = p] \/ pc' = pc
  BY <1>2
<1>4. FlowType'
  BY <1>1, <1>3 DEF FlowInv, FlowType, flowVars
<1>5. \A e \in Dirs : Busy(e)' => Busy(e)
  BY <1>3 DEF FlowInv, FlowType, Busy
<1> QED
  BY <1>1, <1>4, <1>5, FlowFrame

\* A due time is a natural number.
LEMMA CappedType ==
    ASSUME NEW t \in Nat PROVE Capped(t) \in Nat
BY BridgeAssumption DEF Capped

\* A stamped message holds the items it held before.
LEMMA StampType ==
    ASSUME NEW m \in Message, NEW c \in Nat
    PROVE  LET n == [m EXCEPT !.due = c, !.delay = 0]
           IN  n \in Message /\ n.from = m.from /\ n.to = m.to
BY DEF Message

\* Stamping a message moves no item.
LEMMA FlowStamp ==
    ASSUME FlowInv, NEW d \in Dirs, Stamp(d), ThreadFrame
    PROVE  FlowInv'
<1>1. UNCHANGED <<flowVars, now>>
  BY DEF Stamp, ThreadFrame, netVars, flowVars
<1>2. Capped(now + buf[d].delay) \in Nat
  <2>1. now + buf[d].delay \in Nat
    BY DEF FlowInv, FlowType, Message
  <2> QED
    BY <2>1, CappedType
<1> DEFINE n == [buf[d] EXCEPT !.due = Capped(now + buf[d].delay), !.delay = 0]
<1>t. n \in Message /\ n.from = buf[d].from /\ n.to = buf[d].to
  BY <1>2, StampType DEF FlowInv, FlowType
<1>3. /\ pc[d] = "stamp"
      /\ buf' = [buf EXCEPT ![d] = n]
      /\ pc' = [pc EXCEPT ![d] = "push"]
  BY Zenon DEF Stamp
<1> HIDE DEF n
<1>4. buf' \in [Dirs -> Message] /\ pc' \in [Dirs -> Places]
  BY <1>t, <1>3 DEF FlowInv, FlowType, Places
<1>5. FlowType'
  BY <1>1, <1>4 DEF FlowInv, FlowType, flowVars
<1>6. \A e \in Dirs : Busy(e)' => /\ Busy(e)
                                  /\ buf'[e].from = buf[e].from
                                  /\ buf'[e].to = buf[e].to
  BY <1>t, <1>3 DEF FlowInv, FlowType, Busy
<1> QED
  BY <1>1, <1>5, <1>6, FlowFrame

(***************************************************************************)
(* The items received come after everything received before them, and the  *)
(* thread that receives them has nothing else in hand.                     *)
(***************************************************************************)
LEMMA FlowReceive ==
    ASSUME FlowInv, NEW d \in Dirs, NEW a \in Nat, NEW b \in Nat,
           Receive(d, a, b), read[d] < a, a <= b, b <= offered[d],
           UNCHANGED <<now, queue, offered, last>>
    PROVE  /\ \A e \in Dirs : DirOrdered(e)'
           /\ now' \in Nat /\ pc' \in [Dirs -> Places] /\ buf' \in [Dirs -> Message]
           /\ read' \in [Dirs -> Nat]
           /\ read' = [read EXCEPT ![d] = b]
<1>1. pc[d] = "recv" /\ read' = [read EXCEPT ![d] = b]
  BY DEF Receive
<1>2. \/ UNCHANGED <<buf, pc>>
      \/ \E t \in Nat : /\ buf' = [buf EXCEPT ![d] =
                                     [from |-> a, to |-> b, delay |-> t, due |-> 0]]
                        /\ pc' = [pc EXCEPT ![d] = "stamp"]
  BY BridgeAssumption DEF Receive
<1>3. pc' \in [Dirs -> Places] /\ buf' \in [Dirs -> Message]
  <2>1. pc \in [Dirs -> Places] /\ buf \in [Dirs -> Message]
    BY DEF FlowInv, FlowType
  <2>2. \A t \in Nat : [from |-> a, to |-> b, delay |-> t, due |-> 0] \in Message
    BY DEF Message
  <2>3. "stamp" \in Places
    BY DEF Places
  <2> QED
    BY <1>2, <2>1, <2>2, <2>3
<1>4. read' \in [Dirs -> Nat] /\ now' \in Nat
  BY <1>1 DEF FlowInv, FlowType
<1>5. ASSUME NEW e \in Dirs, e # d PROVE DirOrdered(e)'
  <2>1. read'[e] = read[e] /\ pc'[e] = pc[e] /\ buf'[e] = buf[e]
    BY <1>1, <1>2, <1>5 DEF FlowInv, FlowType
  <2> QED
    BY <2>1 DEF FlowInv, FlowOrdered, DirOrdered, Busy
<1>6. DirOrdered(d)'
  <2>1. read'[d] = b
    BY <1>1 DEF FlowInv, FlowType
  <2>2. Busy(d)' => buf'[d].from = a /\ buf'[d].to = b
    BY <1>1, <1>2 DEF FlowInv, FlowType, Busy
  <2>3. DirOrdered(d) /\ last[d].to \in Nat /\ read[d] \in Nat /\ offered[d] \in Nat
    BY DEF FlowInv, FlowOrdered, FlowType
  <2>4. \A i \in 1..Len(queue[d]) : queue[d][i].to \in Nat /\ queue[d][i].from \in Nat
    <3>1. queue[d] \in Seq(QueueEntry)
      BY DEF FlowInv, FlowType
    <3>2. \A i \in 1..Len(queue[d]) : queue[d][i] \in QueueEntry
      BY <3>1
    <3> QED
      BY <3>2 DEF QueueEntry
  <2>5. last'[d].to <= read'[d] /\ read'[d] <= offered'[d]
    BY <2>1, <2>3 DEF DirOrdered
  <2>6. \A i \in 1..Len(queue[d]) : queue[d][i].to < a
    <3>1. \A i \in 1..Len(queue[d]) : queue[d][i].to <= read[d]
      BY <2>3 DEF DirOrdered
    <3> QED
      BY <2>3, <2>4, <3>1
  <2>7. \A i \in 1..Len(queue[d]) : queue[d][i].to <= b
    BY <2>4, <2>6
  <2>8. last[d].to < a
    BY <2>3 DEF DirOrdered
  <2> QED
    BY <2>1, <2>2, <2>3, <2>5, <2>6, <2>7, <2>8 DEF DirOrdered
<1> QED
  BY <1>1, <1>3, <1>4, <1>5, <1>6

\* Taking the oldest telemetry datagram keeps the order.
LEMMA FlowDownReceive ==
    ASSUME FlowInv, DownReceive, ThreadFrame
    PROVE  FlowInv'
<1>1. udpIn # <<>> /\ udpIn \in Seq(Nat)
  BY DEF DownReceive, FlowInv, FlowType
<1> DEFINE h == Head(udpIn)
<1>2. h = udpIn[1] /\ 1 \in 1..Len(udpIn) /\ h \in Nat
  BY <1>1
<1>3. read["down"] < h /\ h <= offered["down"]
  BY <1>2 DEF FlowInv, FlowOrdered, PortOrdered
<1>4. /\ Receive("down", h, h) /\ udpIn' = Tail(udpIn)
      /\ UNCHANGED <<now, queue, offered, last>>
  BY DEF DownReceive, ThreadFrame
<1>5. /\ \A e \in Dirs : DirOrdered(e)'
      /\ now' \in Nat /\ pc' \in [Dirs -> Places] /\ buf' \in [Dirs -> Message]
      /\ read' \in [Dirs -> Nat]
      /\ read' = [read EXCEPT !["down"] = h]
  <2> HIDE DEF h
  <2> QED
    BY <1>2, <1>3, <1>4, FlowReceive DEF Dirs
<1>6. /\ udpIn' \in Seq(Nat) /\ Len(udpIn') = Len(udpIn) - 1
      /\ \A i \in 1..Len(udpIn') : udpIn'[i] = udpIn[i + 1]
  BY <1>1, <1>4
<1>7. PortOrdered'
  <2>1. read'["down"] = udpIn[1]
    BY <1>2, <1>5 DEF Dirs, FlowInv, FlowType
  <2>2. \A i \in 1..Len(udpIn') : i + 1 \in 1..Len(udpIn) /\ 1 < i + 1
    BY <1>1, <1>6
  <2> QED
    BY <1>2, <1>4, <1>6, <2>1, <2>2 DEF FlowInv, FlowOrdered, PortOrdered
<1> QED
  BY <1>4, <1>5, <1>6, <1>7 DEF FlowInv, FlowType, FlowOrdered

\* Taking the next bytes of the uplink keeps the order.
LEMMA FlowUpReceive ==
    ASSUME FlowInv, UpReceive, ThreadFrame
    PROVE  FlowInv'
<1>1. read["up"] \in Nat /\ offered["up"] \in Nat
  BY DEF FlowInv, FlowType, Dirs
<1>2. PICK b \in (read["up"] + 1)..offered["up"] : Receive("up", read["up"] + 1, b)
  BY DEF UpReceive
<1>3. UNCHANGED <<now, queue, offered, last, udpIn>>
  BY DEF UpReceive, ThreadFrame, netVars
<1> DEFINE a == read["up"] + 1
<1>4. /\ \A e \in Dirs : DirOrdered(e)'
      /\ now' \in Nat /\ pc' \in [Dirs -> Places] /\ buf' \in [Dirs -> Message]
      /\ read' \in [Dirs -> Nat]
      /\ read' = [read EXCEPT !["up"] = b]
  <2>1. a \in Nat /\ b \in Nat /\ read["up"] < a /\ a <= b /\ b <= offered["up"]
    BY <1>1, <1>2
  <2>2. Receive("up", a, b)
    BY <1>2
  <2> HIDE DEF a
  <2> QED
    BY <1>3, <2>1, <2>2, FlowReceive DEF Dirs
<1>5. PortOrdered'
  BY <1>3, <1>4 DEF FlowInv, FlowType, FlowOrdered, PortOrdered, Dirs
<1> QED
  BY <1>3, <1>4, <1>5 DEF FlowInv, FlowType, FlowOrdered

(***************************************************************************)
(* A message joins the end of its queue.                                   *)
(***************************************************************************)
LEMMA FlowPush ==
    ASSUME FlowInv, NEW d \in Dirs, Push(d), ThreadFrame
    PROVE  FlowInv'
<1>1. /\ pc[d] = "push"
      /\ queue' = [queue EXCEPT ![d] = Append(queue[d], Entry(d))]
      /\ buf' = [buf EXCEPT ![d] = Empty]
      /\ pc' = [pc EXCEPT ![d] = "recv"]
      /\ UNCHANGED <<now, read, offered, udpIn, last>>
  BY DEF Push, ThreadFrame, netVars
<1>2. /\ Entry(d) \in QueueEntry
      /\ Entry(d).from = buf[d].from /\ Entry(d).to = buf[d].to
  BY DEF Entry, QueueEntry, FlowInv, FlowType, Message
<1>3. FlowType'
  BY <1>1, <1>2 DEF FlowInv, FlowType, Empty, Message, Places
<1>4. PortOrdered'
  BY <1>1 DEF FlowInv, FlowOrdered, PortOrdered
<1>5. ASSUME NEW e \in Dirs, e # d PROVE DirOrdered(e)'
  <2>1. queue'[e] = queue[e] /\ pc'[e] = pc[e] /\ buf'[e] = buf[e]
    BY <1>1, <1>5 DEF FlowInv, FlowType
  <2> QED
    BY <1>1, <2>1 DEF FlowInv, FlowOrdered, DirOrdered, Busy
<1>6. DirOrdered(d)'
  <2> DEFINE q == queue[d]
             m == Entry(d)
  <2>1. q \in Seq(QueueEntry) /\ queue'[d] = Append(q, m)
    BY <1>1 DEF FlowInv, FlowType
  <2>2. /\ Len(queue'[d]) = Len(q) + 1
        /\ \A i \in 1..Len(q) : queue'[d][i] = q[i]
        /\ queue'[d][Len(q) + 1] = m
    BY <2>1, <1>2
  <2>3. ~Busy(d)'
    BY <1>1 DEF FlowInv, FlowType, Busy
  <2>4. DirOrdered(d) /\ Busy(d) /\ Len(q) \in Nat
    BY <1>1, <2>1 DEF FlowInv, FlowOrdered, Busy
  <2>5. \A i \in 1..Len(queue'[d]) : i \in 1..Len(q) \/ i = Len(q) + 1
    BY <2>2, <2>4
  <2>6. \A i \in 1..Len(queue'[d]) :
           /\ last[d].to < queue'[d][i].from
           /\ queue'[d][i].from <= queue'[d][i].to
           /\ queue'[d][i].to <= read[d]
    BY <1>2, <2>2, <2>4, <2>5 DEF DirOrdered
  <2>7. \A i, j \in 1..Len(queue'[d]) :
           i < j => queue'[d][i].to < queue'[d][j].from
    <3>1. SUFFICES ASSUME NEW i \in 1..Len(queue'[d]), NEW j \in 1..Len(queue'[d]), i < j
                   PROVE  queue'[d][i].to < queue'[d][j].from
      OBVIOUS
    <3>2. i \in 1..Len(q)
      BY <2>2, <2>4, <3>1
    <3>3. CASE j = Len(q) + 1
      BY <1>2, <2>2, <2>4, <3>2, <3>3 DEF DirOrdered
    <3>4. CASE j \in 1..Len(q)
      BY <2>2, <2>4, <3>1, <3>2, <3>4 DEF DirOrdered
    <3> QED
      BY <2>5, <3>3, <3>4
  <2>8. last[d].to <= read[d] /\ read[d] <= offered[d]
    BY <2>4 DEF DirOrdered
  <2> QED
    BY <1>1, <2>3, <2>6, <2>7, <2>8 DEF DirOrdered
<1> QED
  BY <1>3, <1>4, <1>5, <1>6 DEF FlowInv, FlowOrdered

(***************************************************************************)
(* The head leaves its queue, and may be the next delivery.                *)
(***************************************************************************)
LEMMA FlowForward ==
    ASSUME FlowInv, NEW d \in Dirs, Forward(d)
    PROVE  FlowInv'
<1> DEFINE q == queue[d]
<1>1. /\ q # <<>>
      /\ queue' = [queue EXCEPT ![d] = Tail(q)]
      /\ UNCHANGED <<now, pc, buf, read, offered, udpIn>>
  BY DEF Forward, Due, threadVars
<1>2. \/ last' = last
      \/ last' = [last EXCEPT ![d] = [to |-> Head(q).to, count |-> @.count + 1]]
  BY DEF Forward, SendDown, SendUp, Delivered, Dirs
<1>3. q \in Seq(QueueEntry) /\ queue'[d] = Tail(q)
  BY <1>1 DEF FlowInv, FlowType
<1>4. /\ Head(q) = q[1] /\ 1 \in 1..Len(q) /\ Len(q) \in Nat
      /\ Len(Tail(q)) = Len(q) - 1 /\ Tail(q) \in Seq(QueueEntry)
      /\ \A i \in 1..Len(Tail(q)) : Tail(q)[i] = q[i + 1]
      /\ \A i \in 1..Len(q) : q[i] \in QueueEntry
  BY <1>1, <1>3
<1> HIDE DEF q
<1>5. Head(q).to \in Nat
  BY <1>4 DEF QueueEntry
<1>6. last' \in [Dirs -> [to : Nat, count : Nat]]
  <2>1. last \in [Dirs -> [to : Nat, count : Nat]] /\ last[d].count + 1 \in Nat
    BY DEF FlowInv, FlowType
  <2>2. [to |-> Head(q).to, count |-> last[d].count + 1] \in [to : Nat, count : Nat]
    BY <1>5, <2>1
  <2>3. \/ last' = last
        \/ last' = [last EXCEPT ![d] =
                      [to |-> Head(q).to, count |-> last[d].count + 1]]
    BY <1>2
  <2> QED
    BY <2>1, <2>2, <2>3
<1>7. FlowType'
  BY <1>1, <1>4, <1>6 DEF FlowInv, FlowType
<1>8. PortOrdered'
  BY <1>1 DEF FlowInv, FlowOrdered, PortOrdered
<1>9. ASSUME NEW e \in Dirs, e # d PROVE DirOrdered(e)'
  <2>1. queue'[e] = queue[e] /\ last'[e] = last[e]
    BY <1>1, <1>2, <1>9 DEF FlowInv, FlowType
  <2> QED
    BY <1>1, <2>1 DEF FlowInv, FlowOrdered, DirOrdered, Busy
<1>10. DirOrdered(d)'
  <2>1. last'[d].to = last[d].to \/ last'[d].to = q[1].to
    BY <1>2, <1>4 DEF FlowInv, FlowType
  <2>2. /\ last[d].to \in Nat /\ read[d] \in Nat /\ offered[d] \in Nat
        /\ \A i \in 1..Len(q) : q[i].from \in Nat /\ q[i].to \in Nat
        /\ buf[d].from \in Nat /\ buf[d].to \in Nat
    BY <1>4 DEF FlowInv, FlowType, QueueEntry, Message
  <2>3. DirOrdered(d) /\ q = queue[d]
    BY DEF FlowInv, FlowOrdered, q
  <2>4. \A i \in 1..Len(Tail(q)) : i + 1 \in 1..Len(q) /\ 1 < i + 1
    BY <1>4
  <2>5. last'[d].to <= read[d] /\ read[d] <= offered[d]
    BY <1>4, <2>1, <2>2, <2>3 DEF DirOrdered
  <2>6. \A i \in 1..Len(Tail(q)) :
           /\ last'[d].to < Tail(q)[i].from
           /\ Tail(q)[i].from <= Tail(q)[i].to
           /\ Tail(q)[i].to <= read[d]
    BY <1>4, <2>1, <2>3, <2>4 DEF DirOrdered
  <2>7. \A i, j \in 1..Len(Tail(q)) :
           i < j => Tail(q)[i].to < Tail(q)[j].from
    <3>1. SUFFICES ASSUME NEW i \in 1..Len(Tail(q)), NEW j \in 1..Len(Tail(q)), i < j
                   PROVE  Tail(q)[i].to < Tail(q)[j].from
      OBVIOUS
    <3>2. i + 1 < j + 1 /\ i + 1 \in 1..Len(q) /\ j + 1 \in 1..Len(q)
      BY <1>4, <2>4, <3>1
    <3> QED
      BY <1>4, <2>3, <3>2 DEF DirOrdered
  <2>8. Busy(d) => /\ last'[d].to < buf[d].from
                   /\ buf[d].from <= buf[d].to /\ buf[d].to <= read[d]
                   /\ \A i \in 1..Len(Tail(q)) : Tail(q)[i].to < buf[d].from
    BY <1>4, <2>1, <2>3, <2>4 DEF DirOrdered
  <2> QED
    BY <1>1, <1>3, <2>5, <2>6, <2>7, <2>8 DEF DirOrdered, Busy
<1> QED
  BY <1>7, <1>8, <1>9, <1>10 DEF FlowInv, FlowOrdered

\* The end of a drain, and the next tick, move no item.
LEMMA FlowTick ==
    ASSUME FlowInv, Tick \/ \E d \in Dirs : EndDrain(d)
    PROVE  FlowInv'
<1>1. UNCHANGED <<flowVars, pc, buf>>
  BY DEF Tick, EndDrain, threadVars, netVars, flowVars
<1>2. now' \in Nat
  <2>1. now + 1 \in Nat
    BY DEF FlowInv, FlowType
  <2> QED
    BY <2>1, CappedType DEF Tick, EndDrain, FlowInv, FlowType
<1>3. FlowType'
  BY <1>1, <1>2 DEF FlowInv, FlowType, flowVars
<1> QED
  BY <1>1, <1>3, FlowFrame DEF Busy

\* What the flight software and the ground send is newer than all there is.
LEMMA FlowOutside == FlowInv /\ Outside => FlowInv'
<1> SUFFICES ASSUME FlowInv, Outside PROVE FlowInv'
  OBVIOUS
<1>0. UNCHANGED <<now, pc, buf, read, queue, last>>
  BY DEF Outside, OutsideFrame, threadVars
<1>1. CASE UNCHANGED <<offered, udpIn>>
  <2>1. FlowType'
    BY <1>0, <1>1 DEF FlowInv, FlowType
  <2> QED
    BY <1>0, <1>1, <2>1, FlowFrame DEF flowVars, Busy
<1>2. CASE FswSends
  <2> DEFINE n == offered["down"] + 1
  <2>1. /\ offered' = [offered EXCEPT !["down"] = n]
        /\ udpIn' = Append(udpIn, n) \/ udpIn' = udpIn
    BY <1>2 DEF FswSends
  <2>2. n \in Nat /\ udpIn \in Seq(Nat) /\ "down" \in Dirs
        /\ read["down"] \in Nat /\ offered["down"] \in Nat
        /\ \A i \in 1..Len(udpIn) : udpIn[i] \in Nat
    BY DEF FlowInv, FlowType, Dirs
  <2>3. FlowType'
    <3>1. udpIn' \in Seq(Nat)
      <4>1. udpIn \in Seq(Nat) /\ n \in Nat
        BY <2>2
      <4>2. udpIn' = Append(udpIn, n) \/ udpIn' = udpIn
        BY <2>1
      <4> HIDE DEF n
      <4>3. Append(udpIn, n) \in Seq(Nat)
        BY <4>1
      <4> QED
        BY <4>1, <4>2, <4>3, Zenon
    <3>2. offered' \in [Dirs -> Nat]
      BY <2>1, <2>2 DEF FlowInv, FlowType
    <3> QED
      BY <1>0, <3>1, <3>2 DEF FlowInv, FlowType
  <2>4. offered'["down"] = n
    BY <2>1, <2>2 DEF FlowInv, FlowType
  <2>5. ASSUME NEW e \in Dirs PROVE DirOrdered(e)'
    <3>1. offered'[e] \in Nat /\ offered[e] \in Nat /\ offered[e] <= offered'[e]
          /\ read[e] \in Nat
      BY <2>1, <2>2 DEF FlowInv, FlowType
    <3> QED
      BY <1>0, <3>1 DEF FlowInv, FlowOrdered, DirOrdered, Busy
  <2>6. PortOrdered'
    <3>0. PortOrdered /\ read["down"] <= offered["down"]
      BY <2>2 DEF FlowInv, FlowOrdered, DirOrdered
    <3>1. CASE udpIn' = udpIn
      BY <1>0, <2>2, <2>4, <3>0, <3>1 DEF PortOrdered
    <3>2. CASE udpIn' = Append(udpIn, n)
      <4>1. /\ Len(udpIn) \in Nat /\ Len(udpIn') = Len(udpIn) + 1
            /\ udpIn'[Len(udpIn) + 1] = n
            /\ \A i \in 1..Len(udpIn) : udpIn'[i] = udpIn[i]
        BY <2>2, <3>2
      <4>2. \A i \in 1..Len(udpIn') : i \in 1..Len(udpIn) \/ i = Len(udpIn) + 1
        BY <4>1
      <4>3. \A i \in 1..Len(udpIn') : read["down"] < udpIn'[i] /\ udpIn'[i] <= n
        <5>1. \A i \in 1..Len(udpIn) :
                 read["down"] < udpIn[i] /\ udpIn[i] <= offered["down"]
          BY <3>0 DEF PortOrdered
        <5>2. \A i \in 1..Len(udpIn) : read["down"] < udpIn[i] /\ udpIn[i] <= n
          BY <2>2, <5>1
        <5>3. read["down"] < n /\ n <= n
          BY <2>2, <3>0
        <5> HIDE DEF n
        <5> QED
          BY <4>1, <4>2, <5>2, <5>3
      <4>4. \A i, j \in 1..Len(udpIn') : i < j => udpIn'[i] < udpIn'[j]
        <5>1. SUFFICES ASSUME NEW i \in 1..Len(udpIn'), NEW j \in 1..Len(udpIn'), i < j
                       PROVE  udpIn'[i] < udpIn'[j]
          OBVIOUS
        <5>2. i \in 1..Len(udpIn)
          BY <4>1, <5>1
        <5>3. CASE j = Len(udpIn) + 1
          BY <2>2, <3>0, <4>1, <5>2, <5>3 DEF PortOrdered
        <5>4. CASE j \in 1..Len(udpIn)
          BY <3>0, <4>1, <5>1, <5>2, <5>4 DEF PortOrdered
        <5> QED
          BY <4>2, <5>3, <5>4
      <4> QED
        BY <1>0, <2>4, <4>3, <4>4 DEF PortOrdered
    <3> QED
      BY <2>1, <3>1, <3>2
  <2> QED
    BY <2>3, <2>5, <2>6 DEF FlowInv, FlowOrdered
<1>3. CASE GroundWrites
  <2>1. /\ offered' = [offered EXCEPT !["up"] = offered["up"] + 1]
        /\ udpIn' = udpIn
    BY <1>3 DEF GroundWrites
  <2>2. FlowType'
    BY <1>0, <2>1 DEF FlowInv, FlowType, Dirs
  <2>3. ASSUME NEW e \in Dirs PROVE DirOrdered(e)'
    <3>1. offered'[e] \in Nat /\ offered[e] \in Nat /\ offered[e] <= offered'[e]
          /\ read[e] \in Nat
      BY <2>1 DEF FlowInv, FlowType
    <3> QED
      BY <1>0, <3>1 DEF FlowInv, FlowOrdered, DirOrdered, Busy
  <2>4. PortOrdered'
    BY <1>0, <2>1 DEF FlowInv, FlowType, FlowOrdered, PortOrdered, Dirs
  <2> QED
    BY <2>2, <2>3, <2>4 DEF FlowInv, FlowOrdered
<1> QED
  BY <1>1, <1>2, <1>3
     DEF Outside, ServerStarts, GroundReads, GroundCloses, GroundConnects

\* FlowInv is inductive.
LEMMA FlowNext == FlowInv /\ [Next]_vars => FlowInv'
<1> SUFFICES ASSUME FlowInv, [Next]_vars PROVE FlowInv'
  OBVIOUS
<1>1. CASE Thread
  BY <1>1, FlowStartUp, FlowDownReceive, FlowUpReceive, FlowStamp, FlowPush DEF Thread
<1>2. CASE Tick \/ Drain
  BY <1>2, FlowTick, FlowForward DEF Drain
<1>3. CASE Outside
  BY <1>3, FlowOutside
<1>4. CASE UNCHANGED vars
  <2>1. FlowType'
    BY <1>4 DEF FlowInv, FlowType, vars, threadVars, netVars
  <2> QED
    BY <1>4, <2>1, FlowFrame DEF vars, threadVars, netVars, flowVars, Busy
<1> QED
  BY <1>1, <1>2, <1>3, <1>4 DEF Next

(***************************************************************************)
(* Both directions keep their order, whatever the delays, the retries, the *)
(* buffer sizes and the failures, and whenever the ground connects, closes *)
(* or stops reading.                                                       *)
(***************************************************************************)
THEOREM FlowStaysOrdered == Spec => []FlowOrdered
<1>1. FlowInv => FlowOrdered
  BY DEF FlowInv
<1> QED
  BY FlowInit, FlowNext, <1>1, PTL DEF Spec

(***************************************************************************)
(* What a step does to the deliveries and the items of one direction: it   *)
(* is a step of a lossy pipe.                                              *)
(***************************************************************************)
PipeStep(d) ==
    \/ /\ offered'[d] = offered[d] + 1
       /\ last'[d] = last[d]
    \/ /\ last'[d].to \in (last[d].to + 1)..offered[d]
       /\ last'[d].count = last[d].count + 1
       /\ offered'[d] = offered[d]
    \/ last'[d] = last[d] /\ offered'[d] = offered[d]

\* Every step is such a step, in either direction.
LEMMA StepIsPipeStep ==
    ASSUME FlowInv, [Next]_vars, NEW d \in Dirs PROVE PipeStep(d)
<1>1. CASE last' = last /\ offered' = offered
  BY <1>1 DEF PipeStep
<1>2. CASE \E e \in Dirs : Forward(e)
  <2>1. PICK e \in Dirs : Forward(e)
    BY <1>2
  <2> DEFINE h == Head(queue[e])
  <2>2. /\ queue[e] # <<>> /\ offered' = offered
        /\ \/ last' = last
           \/ last' = [last EXCEPT ![e] = [to |-> h.to, count |-> @.count + 1]]
    BY <2>1 DEF Forward, Due, SendDown, SendUp, Delivered, Dirs
  <2>3. queue[e] \in Seq(QueueEntry)
    BY DEF FlowInv, FlowType
  <2>4. h = queue[e][1] /\ 1 \in 1..Len(queue[e]) /\ h \in QueueEntry
    BY <2>2, <2>3
  <2>5. /\ last[e].to < h.from /\ h.from <= h.to /\ h.to <= read[e]
        /\ read[e] <= offered[e]
    BY <2>4 DEF FlowInv, FlowOrdered, DirOrdered
  <2>6. last[e].to \in Nat /\ read[e] \in Nat /\ offered[e] \in Nat
    BY DEF FlowInv, FlowType
  <2>7. h.to \in (last[e].to + 1)..offered[e]
    <3> HIDE DEF h
    <3> QED
      BY <2>4, <2>5, <2>6 DEF QueueEntry
  <2> HIDE DEF h
  <2> QED
    BY <2>2, <2>7 DEF PipeStep, FlowInv, FlowType
<1>3. CASE FswSends /\ last' = last
  BY <1>3 DEF FswSends, PipeStep, FlowInv, FlowType, Dirs
<1>4. CASE GroundWrites /\ last' = last
  BY <1>4 DEF GroundWrites, PipeStep, FlowInv, FlowType, Dirs
<1>5. CASE Thread
  <2>1. last' = last
    BY <1>5 DEF Thread, ThreadFrame
  <2>2. offered' = offered
    BY <1>5 DEF Thread, StartUp, DownStart, Resolve, Connect, UpStart, Listen,
                Accept, TcpInitFails, DownReceive, UpReceive, Stamp, Push, netVars
  <2> QED
    BY <1>1, <2>1, <2>2
<1>6. CASE Tick \/ \E e \in Dirs : EndDrain(e)
  BY <1>1, <1>6 DEF Tick, EndDrain, netVars
<1>7. CASE Outside
  <2>1. last' = last
    BY <1>7 DEF Outside, OutsideFrame
  <2> QED
    BY <1>1, <1>3, <1>4, <1>7, <2>1
       DEF Outside, ServerStarts, GroundReads, GroundCloses, GroundConnects
<1>8. CASE UNCHANGED vars
  BY <1>1, <1>8 DEF vars, netVars
<1> QED
  BY <1>2, <1>5, <1>6, <1>7, <1>8 DEF Next, Drain

(***************************************************************************)
(* The downlink implements the lossy pipe: the ground never receives two   *)
(* telemetry messages in the wrong order, nor one of them twice.           *)
(***************************************************************************)
THEOREM TelemetryIsPipe == Spec => TelemetryPipe
<1>1. Init => Telemetry!PipeInit
  BY DEF Init, Telemetry!PipeInit, Dirs
<1>2. FlowInv /\ [Next]_vars => [Telemetry!PipeNext]_(Telemetry!pipeVars)
  BY StepIsPipeStep DEF PipeStep, Dirs, Telemetry!PipeNext, Telemetry!Offer,
     Telemetry!Deliver, Telemetry!pipeVars
<1> QED
  BY FlowInit, FlowNext, <1>1, <1>2, PTL
     DEF Spec, TelemetryPipe, Telemetry!PipeSpec

(***************************************************************************)
(* The uplink implements it too: the flight software receives the ground's *)
(* bytes in their order and none of them twice, however recv() cuts the    *)
(* stream into datagrams.                                                  *)
(***************************************************************************)
THEOREM CommandsArePipe == Spec => CommandPipe
<1>1. Init => Commands!PipeInit
  BY DEF Init, Commands!PipeInit, Dirs
<1>2. FlowInv /\ [Next]_vars => [Commands!PipeNext]_(Commands!pipeVars)
  BY StepIsPipeStep DEF PipeStep, Dirs, Commands!PipeNext, Commands!Offer,
     Commands!Deliver, Commands!pipeVars
<1> QED
  BY FlowInit, FlowNext, <1>1, <1>2, PTL
     DEF Spec, CommandPipe, Commands!PipeSpec

-----------------------------------------------------------------------------
\* The attempts a retry loop of the downlink has left.
Retrying == pc["down"] \in {"start", "resolve", "connect"} => tries <= MaxRetries

\* The contents of the queues and the messages in hand.
Held == [from : Items, to : Items, delay : Delays, due : 0..MaxTime]
Waiting == [from : Items, to : Items, due : 0..MaxTime]

\* The parts of TypeOK that name the relay threads and their data.
LEMMA BridgeFacts ==
    ASSUME TypeOK
    PROVE  /\ "down" \in Dirs /\ "up" \in Dirs /\ Dirs = {"down", "up"}
           /\ pc \in [Dirs -> Places] /\ buf \in [Dirs -> Held]
           /\ queue \in [Dirs -> Seq(Waiting)]
           /\ offered \in [Dirs -> Items] /\ read \in [Dirs -> Items]
           /\ MaxRetries \in Nat /\ MaxOffered \in Nat /\ MaxTime \in Nat
           /\ UdpCap \in Nat /\ SndCap \in Nat
BY BridgeAssumption DEF TypeOK, Dirs, Places, Held, Waiting

\* A time that is capped is one of the bound's times.
LEMMA CappedBound ==
    ASSUME NEW t \in Nat PROVE Capped(t) \in 0..MaxTime
BY BridgeAssumption DEF Capped

\* A message keeps its type when it is stamped.
LEMMA StampBound ==
    ASSUME NEW m \in Held, NEW c \in 0..MaxTime
    PROVE  [m EXCEPT !.due = c, !.delay = 0] \in Held
BY BridgeAssumption DEF Held

\* Starting up: a retry loop that fails once more than the limit has ended.
LEMMA TypesStartUp ==
    ASSUME TypeOK, Retrying, StartUp, ThreadFrame
    PROVE  TypeOK' /\ Retrying'
<1>f. /\ "down" \in Dirs /\ "up" \in Dirs /\ Dirs = {"down", "up"}
      /\ pc \in [Dirs -> Places] /\ buf \in [Dirs -> Held]
      /\ queue \in [Dirs -> Seq(Waiting)]
      /\ offered \in [Dirs -> Items] /\ read \in [Dirs -> Items]
      /\ MaxRetries \in Nat /\ MaxOffered \in Nat /\ MaxTime \in Nat
      /\ UdpCap \in Nat /\ SndCap \in Nat
  BY BridgeFacts
<1> USE <1>f
<1>1. CASE DownStart
  BY <1>1 DEF DownStart, ThreadFrame, netVars, TypeOK, Retrying, Places
<1>2. CASE Resolve
  BY <1>2 DEF Resolve, Failed, ThreadFrame, netVars, TypeOK, Retrying, Places
<1>3. CASE Connect
  BY <1>3 DEF Connect, Failed, ThreadFrame, TypeOK, Retrying, Places
<1>4. CASE UpStart
  BY <1>4 DEF UpStart, ThreadFrame, netVars, TypeOK, Retrying, Places
<1>5. CASE Listen
  BY <1>5 DEF Listen, ThreadFrame, TypeOK, Retrying, Places
<1>6. CASE Accept
  BY <1>6 DEF Accept, ThreadFrame, netVars, TypeOK, Retrying, Places
<1>7. CASE TcpInitFails
  BY <1>7 DEF TcpInitFails, ThreadFrame, TypeOK, Retrying, Places
<1> QED
  BY <1>1, <1>2, <1>3, <1>4, <1>5, <1>6, <1>7 DEF StartUp

\* A thread that receives keeps the types of its members.
LEMMA TypesReceive ==
    ASSUME TypeOK, Retrying, NEW d \in Dirs, NEW a \in Items, NEW b \in Items,
           Receive(d, a, b)
    PROVE  /\ pc' \in [Dirs -> Places] /\ buf' \in [Dirs -> Held]
           /\ read' \in [Dirs -> Items]
           /\ pc'["down"] \in {"start", "resolve", "connect"} => pc["down"] \in {"start", "resolve", "connect"}
<1>f. /\ "down" \in Dirs /\ "up" \in Dirs /\ Dirs = {"down", "up"}
      /\ pc \in [Dirs -> Places] /\ buf \in [Dirs -> Held]
      /\ queue \in [Dirs -> Seq(Waiting)]
      /\ offered \in [Dirs -> Items] /\ read \in [Dirs -> Items]
      /\ MaxRetries \in Nat /\ MaxOffered \in Nat /\ MaxTime \in Nat
      /\ UdpCap \in Nat /\ SndCap \in Nat
  BY BridgeFacts
<1> USE <1>f
<1>1. read' \in [Dirs -> Items]
  BY DEF Receive
<1>2. \/ UNCHANGED <<buf, pc>>
      \/ \E t \in Delays : /\ buf' = [buf EXCEPT ![d] =
                                        [from |-> a, to |-> b, delay |-> t, due |-> 0]]
                           /\ pc' = [pc EXCEPT ![d] = "stamp"]
  BY DEF Receive
<1>3. \A t \in Delays : [from |-> a, to |-> b, delay |-> t, due |-> 0] \in Held
  BY DEF Held
<1> QED
  BY <1>1, <1>2, <1>3 DEF Places

\* The loops of the threads.
LEMMA TypesThread ==
    ASSUME TypeOK, Retrying, Thread
    PROVE  TypeOK' /\ Retrying'
<1>f. /\ "down" \in Dirs /\ "up" \in Dirs /\ Dirs = {"down", "up"}
      /\ pc \in [Dirs -> Places] /\ buf \in [Dirs -> Held]
      /\ queue \in [Dirs -> Seq(Waiting)]
      /\ offered \in [Dirs -> Items] /\ read \in [Dirs -> Items]
      /\ MaxRetries \in Nat /\ MaxOffered \in Nat /\ MaxTime \in Nat
      /\ UdpCap \in Nat /\ SndCap \in Nat
  BY BridgeFacts
<1> USE <1>f
<1>1. CASE StartUp /\ ThreadFrame
  BY <1>1, TypesStartUp
<1>2. CASE DownReceive /\ ThreadFrame
  <2>1. Head(udpIn) \in Items /\ Tail(udpIn) \in Seq(Items) /\ Len(Tail(udpIn)) <= UdpCap
    BY <1>2 DEF DownReceive, TypeOK
  <2>2. Receive("down", Head(udpIn), Head(udpIn))
    BY <1>2 DEF DownReceive
  <2>3. /\ pc' \in [Dirs -> Places] /\ buf' \in [Dirs -> Held]
        /\ read' \in [Dirs -> Items]
        /\ pc'["down"] \in {"start", "resolve", "connect"} => pc["down"] \in {"start", "resolve", "connect"}
    BY <2>1, <2>2, TypesReceive
  <2> QED
    BY <1>2, <2>1, <2>3 DEF DownReceive, ThreadFrame, TypeOK, Retrying, Places, Held
<1>3. CASE UpReceive /\ ThreadFrame
  <2>1. PICK b \in (read["up"] + 1)..offered["up"] : Receive("up", read["up"] + 1, b)
    BY <1>3 DEF UpReceive
  <2>2. read["up"] + 1 \in Items /\ b \in Items
    BY <2>1 DEF Items
  <2>3. /\ pc' \in [Dirs -> Places] /\ buf' \in [Dirs -> Held]
        /\ read' \in [Dirs -> Items]
        /\ pc'["down"] \in {"start", "resolve", "connect"} => pc["down"] \in {"start", "resolve", "connect"}
    BY <2>1, <2>2, TypesReceive
  <2> QED
    BY <1>3, <2>3 DEF UpReceive, ThreadFrame, netVars, TypeOK, Retrying, Places, Held
<1>4. ASSUME NEW d \in Dirs, Stamp(d), ThreadFrame PROVE TypeOK' /\ Retrying'
  <2>0. now \in 0..MaxTime /\ buf[d] \in Held /\ buf[d].delay \in Delays /\ buf[d].delay \in Nat
    BY BridgeAssumption DEF TypeOK, Held
  <2>1. now + buf[d].delay \in Nat
    BY <2>0
  <2>2. Capped(now + buf[d].delay) \in 0..MaxTime
    BY <2>1, CappedBound
  <2> DEFINE c == Capped(now + buf[d].delay)
             n == [buf[d] EXCEPT !.due = c, !.delay = 0]
  <2>3. buf' = [buf EXCEPT ![d] = n] /\ pc' = [pc EXCEPT ![d] = "push"]
    BY <1>4, Zenon DEF Stamp
  <2>4. n \in Held
    BY <2>0, <2>2, StampBound
  <2> HIDE DEF n
  <2>5. buf' \in [Dirs -> Held]
    BY <2>3, <2>4
  <2>6. pc' \in [Dirs -> Places] /\ (pc'["down"] = pc["down"] \/ pc'["down"] = "push")
    BY <2>3 DEF Places
  <2>7. UNCHANGED <<now, tick, tries, read, fwdAddr, queue, netVars, last>>
    BY <1>4 DEF Stamp, ThreadFrame
  <2> QED
    BY <2>5, <2>6, <2>7 DEF netVars, TypeOK, Retrying, Places, Held
<1>5. ASSUME NEW d \in Dirs, Push(d), ThreadFrame PROVE TypeOK' /\ Retrying'
  <2>1. Entry(d) \in Waiting
    BY DEF Entry, Held, Waiting
  <2>2. /\ queue' = [queue EXCEPT ![d] = Append(queue[d], Entry(d))]
        /\ buf' = [buf EXCEPT ![d] = Empty]
        /\ pc' = [pc EXCEPT ![d] = "recv"]
    BY <1>5 DEF Push
  <2>3. Empty \in Held
    BY BridgeAssumption DEF Empty, Held, Items
  <2>4. queue' \in [Dirs -> Seq(Waiting)]
    <3>1. queue[d] \in Seq(Waiting)
      OBVIOUS
    <3>2. Append(queue[d], Entry(d)) \in Seq(Waiting)
      BY <2>1, <3>1
    <3> QED
      BY <2>2, <3>2
  <2>5. buf' \in [Dirs -> Held]
    BY <2>2, <2>3
  <2>6. pc' \in [Dirs -> Places] /\ (pc'["down"] = pc["down"] \/ pc'["down"] = "recv")
    BY <2>2 DEF Places
  <2>7. UNCHANGED <<now, tick, tries, read, fwdAddr, netVars, last>>
    BY <1>5 DEF Push, ThreadFrame
  <2> QED
    BY <2>4, <2>5, <2>6, <2>7 DEF netVars, TypeOK, Retrying, Places, Held, Waiting
<1> QED
  BY <1>1, <1>2, <1>3, <1>4, <1>5 DEF Thread

\* The tick callback.
LEMMA TypesDrain ==
    ASSUME TypeOK, Retrying, Tick \/ Drain
    PROVE  TypeOK' /\ Retrying'
<1>f. /\ "down" \in Dirs /\ "up" \in Dirs /\ Dirs = {"down", "up"}
      /\ pc \in [Dirs -> Places] /\ buf \in [Dirs -> Held]
      /\ queue \in [Dirs -> Seq(Waiting)]
      /\ offered \in [Dirs -> Items] /\ read \in [Dirs -> Items]
      /\ MaxRetries \in Nat /\ MaxOffered \in Nat /\ MaxTime \in Nat
      /\ UdpCap \in Nat /\ SndCap \in Nat
  BY BridgeFacts
<1> USE <1>f
<1>1. CASE Tick
  <2>1. now + 1 \in Nat
    BY DEF TypeOK
  <2>2. now' \in 0..MaxTime
    BY <1>1, <2>1, CappedBound DEF Tick
  <2> QED
    BY <1>1, <2>2 DEF Tick, threadVars, netVars, TypeOK, Retrying
<1>2. ASSUME NEW d \in Dirs, EndDrain(d) PROVE TypeOK' /\ Retrying'
  BY <1>2 DEF EndDrain, threadVars, netVars, TypeOK, Retrying
<1>3. ASSUME NEW d \in Dirs, Forward(d) PROVE TypeOK' /\ Retrying'
  <2>1. queue[d] # <<>> /\ queue[d] \in Seq(Waiting)
    BY <1>3 DEF Forward, Due
  <2>2. Head(queue[d]) \in Waiting /\ Tail(queue[d]) \in Seq(Waiting)
    BY <2>1
  <2>3. queue' \in [Dirs -> Seq(Waiting)]
    BY <1>3, <2>2 DEF Forward
  <2>4. Delivered(d) => last' \in [Dirs -> [to : Items, count : Nat]]
    <3>1. Head(queue[d]).to \in Items
      BY <2>2 DEF Waiting
    <3>2. last \in [Dirs -> [to : Items, count : Nat]] /\ last[d].count \in Nat
      BY DEF TypeOK
    <3> DEFINE n == [to |-> Head(queue[d]).to, count |-> last[d].count + 1]
    <3>3. n \in [to : Items, count : Nat]
      BY <3>1, <3>2
    <3>4. Delivered(d) => last' = [last EXCEPT ![d] = n]
      BY DEF Delivered
    <3> HIDE DEF n
    <3> QED
      BY <3>2, <3>3, <3>4
  <2>5. /\ last' \in [Dirs -> [to : Items, count : Nat]]
        /\ tick' \in {"idle", "down", "up", "killed"}
        /\ conn' \in {"none", "open", "closed", "reset"}
        /\ window' \in 0..SndCap
    <3>1. CASE d = "down" /\ SendDown
      BY <2>4, <3>1 DEF SendDown, TypeOK
    <3>2. CASE d = "up" /\ SendUp
      BY <2>4, <3>2 DEF SendUp, TypeOK
    <3> QED
      BY <1>3, <3>1, <3>2 DEF Forward
  <2> QED
    BY <1>3, <2>3, <2>5 DEF Forward, threadVars, TypeOK, Retrying, Waiting
<1> QED
  BY <1>1, <1>2, <1>3 DEF Drain

\* The flight software and the ground.
LEMMA TypesOutside ==
    ASSUME TypeOK, Retrying, Outside
    PROVE  TypeOK' /\ Retrying'
<1>f. /\ "down" \in Dirs /\ "up" \in Dirs /\ Dirs = {"down", "up"}
      /\ pc \in [Dirs -> Places] /\ buf \in [Dirs -> Held]
      /\ queue \in [Dirs -> Seq(Waiting)]
      /\ offered \in [Dirs -> Items] /\ read \in [Dirs -> Items]
      /\ MaxRetries \in Nat /\ MaxOffered \in Nat /\ MaxTime \in Nat
      /\ UdpCap \in Nat /\ SndCap \in Nat
  BY BridgeFacts
<1> USE <1>f
<1>0. OutsideFrame
  BY DEF Outside
<1>1. CASE FswSends
  <2>1. offered["down"] + 1 \in Items
    BY <1>1 DEF FswSends, Items
  <2>2. udpIn' \in Seq(Items) /\ Len(udpIn') <= UdpCap
    BY <1>1, <2>1 DEF FswSends, TypeOK
  <2>3. offered' \in [Dirs -> Items]
    BY <1>1, <2>1 DEF FswSends
  <2> QED
    BY <1>0, <1>1, <2>2, <2>3 DEF FswSends, OutsideFrame, threadVars, TypeOK, Retrying
<1>2. CASE GroundWrites
  <2>1. offered["up"] + 1 \in Items
    BY <1>2 DEF GroundWrites, Items
  <2>2. offered' \in [Dirs -> Items]
    BY <1>2, <2>1 DEF GroundWrites
  <2> QED
    BY <1>0, <1>2, <2>2 DEF GroundWrites, OutsideFrame, threadVars, TypeOK, Retrying
<1>3. CASE ServerStarts \/ GroundReads \/ GroundCloses \/ GroundConnects
  <2>1. /\ server' \in BOOLEAN
        /\ conn' \in {"none", "open", "closed", "reset"}
        /\ window' \in 0..SndCap
        /\ link' \in {"none", "listening", "open", "closed", "failed"}
    <3>1. CASE GroundReads
      BY <3>1 DEF GroundReads, TypeOK
    <3>2. CASE GroundCloses
      BY <3>2 DEF GroundCloses, TypeOK
    <3>3. CASE ServerStarts \/ GroundConnects
      BY <3>3 DEF ServerStarts, GroundConnects, TypeOK
    <3> QED
      BY <1>3, <3>1, <3>2, <3>3
  <2>2. UNCHANGED <<offered, udpIn>>
    BY <1>3 DEF ServerStarts, GroundReads, GroundCloses, GroundConnects
  <2> QED
    BY <1>0, <2>1, <2>2 DEF OutsideFrame, threadVars, TypeOK, Retrying
<1> QED
  BY <1>1, <1>2, <1>3 DEF Outside

(***************************************************************************)
(* Every variable of the TCP relay keeps its type.  The retry counter is   *)
(* the one that needs an argument: it passes MAX_RETRIES by one, with the  *)
(* attempt after which the downlink's thread gives up.                     *)
(***************************************************************************)
THEOREM BridgeTypes == Spec => []TypeOK
<1>1. Init => TypeOK /\ Retrying
  <2> SUFFICES ASSUME Init PROVE TypeOK /\ Retrying
    OBVIOUS
  <2>1. /\ 0 \in Items /\ 0 \in Delays /\ 0 \in 0..MaxTime /\ 0 \in 0..SndCap
        /\ 0 \in 0..(MaxRetries + 1) /\ 0 <= MaxRetries /\ UdpCap \in Nat
    BY BridgeAssumption DEF Items
  <2>2. Empty \in Held
    BY <2>1 DEF Empty, Held
  <2>3. buf \in [Dirs -> Held] /\ queue \in [Dirs -> Seq(Waiting)]
    BY <2>2 DEF Init
  <2>4. pc \in [Dirs -> Places]
    BY DEF Init, Places
  <2>5. offered \in [Dirs -> Items] /\ read \in [Dirs -> Items] /\ udpIn \in Seq(Items)
        /\ last \in [Dirs -> [to : Items, count : Nat]]
    BY <2>1 DEF Init
  <2>6. udpIn = <<>> /\ Len(udpIn) <= UdpCap
    BY <2>1 DEF Init
  <2>7. /\ now \in 0..MaxTime /\ window \in 0..SndCap
        /\ tries \in 0..(MaxRetries + 1) /\ tries <= MaxRetries
    BY <2>1 DEF Init
  <2>8. /\ tick = "idle" /\ server = FALSE /\ conn = "none"
        /\ link = "none" /\ fwdAddr = "unset"
    BY DEF Init
  <2> QED
    BY <2>3, <2>4, <2>5, <2>6, <2>7, <2>8 DEF TypeOK, Retrying, Held, Waiting, Places
<1>2. TypeOK /\ Retrying /\ [Next]_vars => TypeOK' /\ Retrying'
  <2>1. TypeOK /\ Retrying /\ UNCHANGED vars => TypeOK' /\ Retrying'
    BY DEF vars, threadVars, netVars, TypeOK, Retrying
  <2> QED
    BY <2>1, TypesThread, TypesDrain, TypesOutside DEF Next
<1> QED
  BY <1>1, <1>2, PTL DEF Spec

-----------------------------------------------------------------------------
(***************************************************************************)
(* Deliveries without gaps.  The entries of a queue follow each other item *)
(* by item from p, the last delivery; what is in hand follows them and     *)
(* ends with the last item read; and what waits in the port follows that.  *)
(***************************************************************************)
Linked(q, p) ==
    \A i \in 1..Len(q) : q[i].from = (IF i = 1 THEN p ELSE q[i - 1].to) + 1

EndOf(q, p) == IF q = <<>> THEN p ELSE q[Len(q)].to

Whole(q, p, busy, m, r) ==
    /\ Linked(q, p)
    /\ busy => m.from = EndOf(q, p) + 1 /\ m.to = r
    /\ ~busy => r = EndOf(q, p)

\* What is sent is lost, and will always be.
Broken(d) ==
    \/ d = "down" /\ conn \in {"closed", "reset"}
    \/ d = "up" /\ fwdAddr = "garbage"

Gapless(d) ==
    Lossless(d) /\ ~Broken(d) => Whole(queue[d], last[d].to, Busy(d), buf[d], read[d])

PortGapless ==
    Lossless("down") =>
        /\ offered["down"] = read["down"] + Len(udpIn)
        /\ \A i \in 1..Len(udpIn) : udpIn[i] = read["down"] + i

\* A connection, and an address, are set once.
SetOnce ==
    /\ pc["down"] \in {"start", "resolve", "connect"} => conn = "none"
    /\ pc["up"] = "start" => fwdAddr = "unset"

GapInv == PortGapless /\ SetOnce /\ \A d \in Dirs : Gapless(d)

\* An entry that follows the others is queued.
LEMMA LinkAppend ==
    ASSUME NEW q \in Seq(QueueEntry), NEW p \in Nat, NEW e \in QueueEntry,
           Linked(q, p), e.from = EndOf(q, p) + 1
    PROVE  Linked(Append(q, e), p) /\ EndOf(Append(q, e), p) = e.to
<1> DEFINE r == Append(q, e)
<1>1. /\ Len(r) = Len(q) + 1 /\ Len(q) \in Nat /\ r[Len(q) + 1] = e /\ r # <<>>
      /\ \A i \in 1..Len(q) : r[i] = q[i]
      /\ q = <<>> <=> Len(q) = 0
  OBVIOUS
<1> HIDE DEF r
<1>2. EndOf(r, p) = e.to
  BY <1>1 DEF EndOf
<1>3. Linked(r, p)
  <2> SUFFICES ASSUME NEW i \in 1..Len(r)
               PROVE  r[i].from = (IF i = 1 THEN p ELSE r[i - 1].to) + 1
    BY DEF Linked
  <2>1. CASE i \in 1..Len(q)
    <3>1. i = 1 \/ i - 1 \in 1..Len(q)
      BY <2>1
    <3> QED
      BY <1>1, <2>1, <3>1 DEF Linked
  <2>2. CASE i = Len(q) + 1
    <3>1. i = 1 \/ (i - 1 = Len(q) /\ i - 1 \in 1..Len(q))
      BY <1>1, <2>2
    <3> QED
      BY <1>1, <2>2, <3>1 DEF EndOf
  <2> QED
    BY <1>1, <2>1, <2>2
<1> QED
  BY <1>2, <1>3 DEF r

\* The oldest entry is taken out.
LEMMA LinkTail ==
    ASSUME NEW q \in Seq(QueueEntry), NEW p \in Nat, q # <<>>, Linked(q, p)
    PROVE  /\ Head(q).from = p + 1
           /\ Linked(Tail(q), Head(q).to)
           /\ EndOf(Tail(q), Head(q).to) = EndOf(q, p)
<1> DEFINE r == Tail(q)
<1>1. /\ Len(r) = Len(q) - 1 /\ Len(q) \in Nat /\ Len(q) >= 1 /\ Head(q) = q[1]
      /\ \A i \in 1..(Len(q) - 1) : r[i] = q[i + 1]
      /\ (r = <<>> <=> Len(r) = 0)
  <2>1. Len(q) \in Nat /\ Len(q) >= 1 /\ Head(q) = q[1]
    OBVIOUS
  <2>2. /\ r \in Seq(QueueEntry) /\ Len(r) = Len(q) - 1
        /\ \A i \in 1..(Len(q) - 1) : r[i] = q[i + 1]
    OBVIOUS
  <2> HIDE DEF r
  <2>3. r = <<>> <=> Len(r) = 0
    BY <2>2
  <2> QED
    BY <2>1, <2>2, <2>3
<1> HIDE DEF r
<1>2. Head(q).from = p + 1
  BY <1>1 DEF Linked
<1>3. Linked(r, Head(q).to)
  <2> SUFFICES ASSUME NEW i \in 1..Len(r)
               PROVE  r[i].from = (IF i = 1 THEN Head(q).to ELSE r[i - 1].to) + 1
    BY DEF Linked
  <2>1. i + 1 \in 1..Len(q) /\ r[i] = q[i + 1] /\ i + 1 # 1 /\ (i + 1) - 1 = i
    BY <1>1
  <2>2. q[i + 1].from = q[i].to + 1
    BY <2>1 DEF Linked
  <2>3. i = 1 \/ (i - 1 \in 1..(Len(q) - 1) /\ r[i - 1] = q[i])
    BY <1>1
  <2> QED
    BY <1>1, <2>1, <2>2, <2>3
<1>4. EndOf(r, Head(q).to) = EndOf(q, p)
  <2>1. CASE Len(q) = 1
    BY <1>1, <2>1 DEF EndOf
  <2>2. CASE Len(q) > 1
    <3>1. Len(r) \in 1..(Len(q) - 1) /\ r[Len(r)] = q[Len(q)]
      BY <1>1, <2>2
    <3> QED
      BY <1>1, <2>2, <3>1 DEF EndOf
  <2> QED
    BY <1>1, <2>1, <2>2
<1> QED
  BY <1>2, <1>3, <1>4 DEF r

\* The types the argument uses.
LEMMA GapTypes ==
    ASSUME FlowInv
    PROVE  /\ "down" \in Dirs /\ "up" \in Dirs
           /\ udpIn \in Seq(Nat) /\ Len(udpIn) \in Nat
           /\ \A d \in Dirs : /\ queue[d] \in Seq(QueueEntry) /\ last[d].to \in Nat
                              /\ buf[d] \in Message /\ read[d] \in Nat /\ offered[d] \in Nat
                              /\ buf[d].from \in Nat /\ buf[d].to \in Nat /\ buf[d].due \in Nat
<1>1. "down" \in Dirs /\ "up" \in Dirs /\ udpIn \in Seq(Nat) /\ Len(udpIn) \in Nat
  BY DEF FlowInv, FlowType, Dirs
<1>2. ASSUME NEW d \in Dirs
      PROVE  /\ queue[d] \in Seq(QueueEntry) /\ last[d].to \in Nat
             /\ buf[d] \in Message /\ read[d] \in Nat /\ offered[d] \in Nat
             /\ buf[d].from \in Nat /\ buf[d].to \in Nat /\ buf[d].due \in Nat
  <2>1. /\ queue[d] \in Seq(QueueEntry) /\ buf[d] \in Message
        /\ last[d] \in [to : Nat, count : Nat] /\ read[d] \in Nat /\ offered[d] \in Nat
    BY DEF FlowInv, FlowType
  <2> QED
    BY <2>1 DEF Message
<1> QED
  BY <1>1, <1>2

\* A step that moves no item of direction d makes no gap in it.
LEMMA GapFrame ==
    ASSUME NEW d \in Dirs, Gapless(d), Broken(d) => Broken(d)',
           queue'[d] = queue[d], last'[d] = last[d], read'[d] = read[d],
           buf'[d].from = buf[d].from, buf'[d].to = buf[d].to,
           Busy(d)' <=> Busy(d)
    PROVE  Gapless(d)'
BY DEF Gapless, Whole, Linked, EndOf, Lossless

\* The threads start.
LEMMA GapStartUp ==
    ASSUME FlowInv, GapInv, StartUp, ThreadFrame
    PROVE  GapInv'
<1>1. UNCHANGED <<queue, last, read, buf, offered, udpIn>>
  BY DEF StartUp, ThreadFrame, DownStart, Resolve, Connect, UpStart, Listen,
         Accept, TcpInitFails, netVars
<1>2. \E d \in Dirs, p \in Places \ {"stamp", "push"} :
         pc[d] \notin {"stamp", "push"} /\ (pc' = [pc EXCEPT ![d] = p] \/ pc' = pc)
  BY DEF StartUp, DownStart, Resolve, Connect, UpStart, Listen,
         Accept, TcpInitFails, Failed, Dirs, Places
<1>3. \A d \in Dirs : Busy(d)' <=> Busy(d)
  BY <1>2 DEF FlowInv, FlowType, Busy
<1>4. PortGapless'
  BY <1>1 DEF GapInv, PortGapless, Lossless
<1>5. SetOnce' /\ \A d \in Dirs : Broken(d) => Broken(d)'
  BY DEF StartUp, ThreadFrame, DownStart, Resolve, Connect, UpStart, Listen, Accept,
     TcpInitFails, Failed, netVars, GapInv, SetOnce, Broken, FlowInv, FlowType, Dirs
<1>6. \A d \in Dirs : Gapless(d)'
  BY <1>1, <1>3, <1>5, GapFrame DEF GapInv
<1> QED
  BY <1>4, <1>5, <1>6 DEF GapInv

\* The items received follow those received before.
LEMMA GapReceive ==
    ASSUME FlowInv, GapInv, NEW d \in Dirs, NEW b \in Nat,
           Receive(d, read[d] + 1, b),
           UNCHANGED <<queue, last, conn, fwdAddr>>
    PROVE  SetOnce' /\ \A e \in Dirs : Gapless(e)'
<1>1. /\ pc[d] = "recv" /\ read' = [read EXCEPT ![d] = b]
      /\ (\E t : buf' = [buf EXCEPT ![d] =
                           [from |-> read[d] + 1, to |-> b, delay |-> t, due |-> 0]]
                 /\ pc' = [pc EXCEPT ![d] = "stamp"])
         \/ UNCHANGED <<buf, pc>>
  BY DEF Receive
<1>2. SetOnce'
  <2>1. \A e \in Dirs : pc'[e] = pc[e] \/ pc'[e] = "stamp"
    BY <1>1 DEF FlowInv, FlowType
  <2>2. "down" \in Dirs /\ "up" \in Dirs
    BY DEF Dirs
  <2> QED
    BY <2>1, <2>2 DEF GapInv, SetOnce
<1>3. ASSUME NEW e \in Dirs, e # d PROVE Gapless(e)'
  <2>1. read'[e] = read[e] /\ buf'[e] = buf[e] /\ (Busy(e)' <=> Busy(e))
    BY <1>1, <1>3 DEF FlowInv, FlowType, Busy
  <2>2. Broken(e) <=> Broken(e)'
    BY DEF Broken
  <2> QED
    BY <2>1, <2>2, GapFrame DEF GapInv
<1>4. ASSUME Lossless(d), ~Broken(d)
      PROVE  Whole(queue[d], last[d].to, Busy(d)', buf'[d], read'[d])
  <2>1. Whole(queue[d], last[d].to, FALSE, buf[d], read[d])
    <3>1. ~Busy(d)
      BY <1>1 DEF Busy
    <3> QED
      BY <1>4, <3>1 DEF GapInv, Gapless, Whole
  <2>2. \E t : buf' = [buf EXCEPT ![d] =
                         [from |-> read[d] + 1, to |-> b, delay |-> t, due |-> 0]]
               /\ pc' = [pc EXCEPT ![d] = "stamp"]
    BY <1>4 DEF Receive, Capable, Lossless
  <2>3. buf'[d].from = read[d] + 1 /\ buf'[d].to = b /\ Busy(d)' /\ read'[d] = b
    BY <1>1, <2>2 DEF Busy, FlowInv, FlowType
  <2> QED
    BY <2>1, <2>3 DEF Whole
<1>5. Gapless(d)'
  BY <1>4 DEF Gapless, Broken, Lossless, Busy, Whole, Linked, EndOf
<1> QED
  BY <1>2, <1>3, <1>5

\* Telemetry is taken from the port, bytes from the connection.
LEMMA GapDownReceive ==
    ASSUME FlowInv, GapInv, DownReceive, ThreadFrame
    PROVE  GapInv'
<1>1. /\ udpIn # <<>> /\ udpIn' = Tail(udpIn) /\ Receive("down", Head(udpIn), Head(udpIn))
      /\ UNCHANGED <<queue, last, conn, fwdAddr, offered>>
      /\ read' = [read EXCEPT !["down"] = Head(udpIn)]
  BY DEF DownReceive, ThreadFrame, Receive
<1>2. /\ Head(udpIn) = udpIn[1] /\ Head(udpIn) \in Nat /\ 1 \in 1..Len(udpIn)
      /\ Len(Tail(udpIn)) = Len(udpIn) - 1
      /\ \A i \in 1..(Len(udpIn) - 1) : Tail(udpIn)[i] = udpIn[i + 1]
  BY <1>1, GapTypes
<1>3. CASE Lossless("down")
  <2>1. Head(udpIn) = read["down"] + 1
    BY <1>2, <1>3 DEF GapInv, PortGapless
  <2>2. SetOnce' /\ \A e \in Dirs : Gapless(e)'
    BY <1>1, <1>2, <2>1, GapTypes, GapReceive
  <2>3. read'["down"] = read["down"] + 1
    BY <1>1, <2>1 DEF FlowInv, FlowType, Dirs
  <2>4. /\ offered["down"] = read["down"] + Len(udpIn)
        /\ \A i \in 1..Len(udpIn) : udpIn[i] = read["down"] + i
    BY <1>3 DEF GapInv, PortGapless
  <2>5. /\ offered["down"] = read'["down"] + Len(udpIn')
        /\ \A i \in 1..Len(udpIn') : udpIn'[i] = read'["down"] + i
    <3>1. read["down"] \in Nat /\ Len(udpIn) \in Nat
      BY GapTypes
    <3> QED
      BY <1>1, <1>2, <2>3, <2>4, <3>1
  <2>6. PortGapless'
    BY <1>1, <2>5 DEF PortGapless
  <2> QED
    BY <2>2, <2>6 DEF GapInv
<1>4. CASE ~Lossless("down")
  <2>1. PortGapless' /\ Gapless("down")'
    BY <1>4 DEF PortGapless, Gapless, Lossless
  <2>2. /\ read'["up"] = read["up"] /\ buf'["up"] = buf["up"] /\ pc'["up"] = pc["up"]
        /\ pc["down"] = "recv" /\ (pc'["down"] = "recv" \/ pc'["down"] = "stamp")
    BY <1>1 DEF Receive, FlowInv, FlowType, Dirs
  <2>3. SetOnce' /\ (Broken("up") <=> Broken("up")') /\ (Busy("up")' <=> Busy("up"))
    BY <1>1, <2>2 DEF GapInv, SetOnce, Broken, Busy
  <2>4. Gapless("up")'
    BY <1>1, <2>2, <2>3, GapTypes, GapFrame DEF GapInv
  <2> QED
    BY <2>1, <2>3, <2>4 DEF GapInv, Dirs
<1> QED
  BY <1>3, <1>4

\* Bytes of the connection.
LEMMA GapUpReceive ==
    ASSUME FlowInv, GapInv, UpReceive, ThreadFrame
    PROVE  GapInv'
<1>1. PICK b \in (read["up"] + 1)..offered["up"] : Receive("up", read["up"] + 1, b)
  BY DEF UpReceive
<1>2. b \in Nat
  BY GapTypes
<1>3. UNCHANGED <<queue, last, conn, fwdAddr, offered, udpIn>>
  BY DEF UpReceive, ThreadFrame, netVars
<1>4. read'["down"] = read["down"]
  BY <1>1 DEF Receive, FlowInv, FlowType, Dirs
<1>5. PortGapless'
  BY <1>3, <1>4 DEF GapInv, PortGapless, Lossless
<1> QED
  BY <1>1, <1>2, <1>3, <1>5, GapTypes, GapReceive DEF GapInv

\* What is in hand is stamped, and queued behind what it follows.
LEMMA GapStampPush ==
    ASSUME FlowInv, GapInv, NEW d \in Dirs, Stamp(d) \/ Push(d), ThreadFrame
    PROVE  GapInv'
<1>1. /\ pc[d] \in {"stamp", "push"}
      /\ UNCHANGED <<last, read, conn, fwdAddr, offered, udpIn>>
      /\ \E p \in {"push", "recv"} : pc' = [pc EXCEPT ![d] = p]
  BY DEF Stamp, Push, ThreadFrame, netVars
<1>2. SetOnce' /\ PortGapless'
  BY <1>1 DEF GapInv, SetOnce, PortGapless, Lossless, FlowInv, FlowType, Dirs
<1>3. \A e \in Dirs : Broken(e) <=> Broken(e)'
  BY <1>1 DEF Broken
<1>4. ASSUME NEW e \in Dirs, e # d PROVE Gapless(e)'
  <2>1. /\ queue'[e] = queue[e] /\ buf'[e] = buf[e] /\ (Busy(e)' <=> Busy(e))
    BY <1>1, <1>4 DEF Stamp, Push, FlowInv, FlowType, Busy
  <2> QED
    BY <1>1, <1>3, <2>1, GapFrame DEF GapInv
<1>5. CASE Stamp(d)
  <2>1. /\ queue'[d] = queue[d] /\ Busy(d) /\ Busy(d)'
        /\ buf'[d].from = buf[d].from /\ buf'[d].to = buf[d].to
    <3>1. buf[d] \in Message /\ d \in DOMAIN buf /\ d \in DOMAIN pc
      BY DEF FlowInv, FlowType
    <3>2. /\ pc[d] = "stamp" /\ pc' = [pc EXCEPT ![d] = "push"] /\ queue' = queue
          /\ buf' = [buf EXCEPT ![d] = [buf[d] EXCEPT
                       !.due = Capped(now + buf[d].delay), !.delay = 0]]
      BY <1>5, Zenon DEF Stamp
    <3> QED
      BY <3>1, <3>2 DEF Busy, Message
  <2>2. Gapless(d)'
    BY <1>1, <1>3, <2>1, GapFrame DEF GapInv
  <2> QED
    BY <1>2, <1>4, <2>2 DEF GapInv
<1>6. CASE Push(d)
  <2>1. /\ pc[d] = "push" /\ queue'[d] = Append(queue[d], Entry(d)) /\ Busy(d) /\ ~Busy(d)'
    BY <1>6 DEF Push, Busy, FlowInv, FlowType
  <2>2. Entry(d) \in QueueEntry /\ Entry(d).from = buf[d].from /\ Entry(d).to = buf[d].to
    BY GapTypes DEF Entry, QueueEntry
  <2>3. ASSUME Lossless(d), ~Broken(d)
        PROVE  Linked(queue'[d], last[d].to) /\ EndOf(queue'[d], last[d].to) = read[d]
    <3>1. /\ Linked(queue[d], last[d].to) /\ buf[d].to = read[d]
          /\ buf[d].from = EndOf(queue[d], last[d].to) + 1
      BY <2>1, <2>3 DEF GapInv, Gapless, Whole
    <3> QED
      BY <2>1, <2>2, <3>1, GapTypes, LinkAppend
  <2>4. Gapless(d)'
    BY <1>1, <1>3, <2>1, <2>3 DEF Gapless, Whole, Lossless, Linked, EndOf
  <2> QED
    BY <1>2, <1>4, <2>4 DEF GapInv
<1> QED
  BY <1>5, <1>6

\* What a message taken from its queue does to the deliveries: it is delivered,
\* or its direction is lossy, or nothing will be delivered any more.
LEMMA Released ==
    ASSUME FlowInv, NEW d \in Dirs, Forward(d)
    PROVE  /\ queue[d] # <<>> /\ queue' = [queue EXCEPT ![d] = Tail(queue[d])]
           /\ UNCHANGED <<pc, buf, read, offered, udpIn, fwdAddr>>
           /\ conn' = conn \/ (conn = "closed" /\ conn' = "reset")
           /\ \/ ~Broken(d) /\ last' = [last EXCEPT ![d] = [to |-> Head(queue[d]).to,
                                                            count |-> last[d].count + 1]]
              \/ (~Lossless(d) \/ Broken(d)) /\ last' = last
<1>1. d = "down" \/ d = "up"
  BY DEF Dirs
<1>2. CASE d = "down"
  BY <1>2 DEF Forward, Due, SendDown, Delivered, Broken, Lossless, threadVars
<1>3. CASE d = "up"
  BY <1>3 DEF Forward, Due, SendUp, Delivered, Broken, Lossless, threadVars
<1> QED
  BY <1>1, <1>2, <1>3

\* A delivery goes on where the one before it ended.
LEMMA GapForward ==
    ASSUME FlowInv, GapInv, NEW d \in Dirs, Forward(d)
    PROVE  /\ GapInv'
           /\ Lossless(d) /\ last'[d] # last[d] => Head(queue[d]).from = last[d].to + 1
<1>1. /\ queue[d] # <<>> /\ queue' = [queue EXCEPT ![d] = Tail(queue[d])]
      /\ UNCHANGED <<pc, buf, read, offered, udpIn, fwdAddr>>
      /\ conn' = conn \/ (conn = "closed" /\ conn' = "reset")
  BY Released
<1>2. /\ \A e \in Dirs : Broken(e) <=> Broken(e)'
      /\ \A e \in Dirs : Busy(e) <=> Busy(e)'
  BY <1>1 DEF Broken, Busy
<1>3. SetOnce' /\ PortGapless'
  BY <1>1 DEF GapInv, SetOnce, PortGapless, Lossless
<1>4. ASSUME NEW e \in Dirs, e # d PROVE Gapless(e)'
  <2>1. queue'[e] = queue[e] /\ last'[e] = last[e]
    BY <1>1, <1>4, Released DEF FlowInv, FlowType
  <2> QED
    BY <1>1, <1>2, <2>1, GapFrame DEF GapInv
<1>5. ASSUME Lossless(d), ~Broken(d)
      PROVE  /\ Head(queue[d]).from = last[d].to + 1
             /\ Whole(queue'[d], last'[d].to, Busy(d), buf[d], read[d])
  <2>1. Whole(queue[d], last[d].to, Busy(d), buf[d], read[d])
    BY <1>5 DEF GapInv, Gapless
  <2>2. last'[d].to = Head(queue[d]).to /\ queue'[d] = Tail(queue[d])
    <3>1. last' = [last EXCEPT ![d] = [to |-> Head(queue[d]).to,
                                       count |-> last[d].count + 1]]
      BY <1>5, Released
    <3>2. d \in DOMAIN last /\ d \in DOMAIN queue
      BY DEF FlowInv, FlowType
    <3>3. last'[d] = [to |-> Head(queue[d]).to, count |-> last[d].count + 1]
      BY <3>1, <3>2
    <3> QED
      BY <1>1, <3>2, <3>3
  <2>3. /\ Head(queue[d]).from = last[d].to + 1
        /\ Linked(Tail(queue[d]), Head(queue[d]).to)
        /\ EndOf(Tail(queue[d]), Head(queue[d]).to) = EndOf(queue[d], last[d].to)
    BY <1>1, <2>1, GapTypes, LinkTail DEF Whole
  <2> QED
    BY <2>1, <2>2, <2>3 DEF Whole
<1>6. Gapless(d)'
  BY <1>1, <1>2, <1>5 DEF Gapless, Lossless, Whole, Linked, EndOf
<1>7. Lossless(d) /\ last'[d] # last[d] => Head(queue[d]).from = last[d].to + 1
  BY <1>5, Released
<1> QED
  BY <1>3, <1>4, <1>6, <1>7 DEF GapInv

\* The clock, the end of a drain, the flight software and the ground.
LEMMA GapOutside ==
    ASSUME FlowInv, GapInv, Outside \/ Tick \/ \E d \in Dirs : EndDrain(d)
    PROVE  GapInv'
<1>1. UNCHANGED <<pc, buf, read, fwdAddr, queue, last>>
  BY DEF Outside, OutsideFrame, Tick, EndDrain, threadVars
<1>2. conn' = conn \/ (conn = "open" /\ conn' = "closed")
  BY DEF Outside, FswSends, ServerStarts, GroundReads, GroundCloses, GroundConnects,
     GroundWrites, Tick, EndDrain, netVars
<1>3. SetOnce' /\ \A d \in Dirs : Broken(d) => Broken(d)'
  BY <1>1, <1>2 DEF GapInv, SetOnce, Broken
<1>4. \A d \in Dirs : Gapless(d)'
  BY <1>1, <1>3, GapFrame DEF GapInv, Busy
<1>5. PortGapless'
  <2>1. CASE FswSends
    <3> SUFFICES ASSUME Lossless("down")
                 PROVE  /\ offered'["down"] = read["down"] + Len(udpIn')
                        /\ \A i \in 1..Len(udpIn') : udpIn'[i] = read["down"] + i
      BY <1>1 DEF PortGapless, Lossless
    <3>1. /\ offered["down"] = read["down"] + Len(udpIn)
          /\ \A i \in 1..Len(udpIn) : udpIn[i] = read["down"] + i
      BY DEF GapInv, PortGapless
    <3>2. /\ read["down"] \in Nat /\ Len(udpIn) \in Nat /\ offered["down"] \in Nat
          /\ udpIn \in Seq(Nat) /\ MaxOffered \in Nat /\ UdpCap \in Nat
      BY GapTypes, BridgeAssumption
    <3>3. Len(udpIn) < UdpCap
      BY <2>1, <3>1, <3>2 DEF FswSends, Lossless
    <3> DEFINE n == offered["down"] + 1
    <3>4. /\ udpIn' = Append(udpIn, n) /\ offered'["down"] = n /\ n \in Nat
          /\ n = offered["down"] + 1
      BY <2>1, <3>2, <3>3 DEF FswSends, FlowInv, FlowType, Dirs
    <3> HIDE DEF n
    <3>5. /\ Len(udpIn') = Len(udpIn) + 1 /\ udpIn'[Len(udpIn) + 1] = n
          /\ \A i \in 1..Len(udpIn) : udpIn'[i] = udpIn[i]
      BY <3>2, <3>4
    <3>6. n = read["down"] + (Len(udpIn) + 1)
      <4>1. \A x, y, z \in Nat : x = y + z => x + 1 = y + (z + 1)
        OBVIOUS
      <4> QED
        BY <3>1, <3>2, <3>4, <4>1, Zenon
    <3>7. offered'["down"] = read["down"] + Len(udpIn')
      BY <3>4, <3>5, <3>6
    <3>8. ASSUME NEW i \in 1..Len(udpIn') PROVE udpIn'[i] = read["down"] + i
      <4>1. i \in 1..Len(udpIn) \/ i = Len(udpIn) + 1
        BY <3>2, <3>5
      <4> QED
        BY <3>1, <3>5, <3>6, <4>1
    <3> QED
      BY <3>7, <3>8
  <2>2. CASE UNCHANGED udpIn /\ offered'["down"] = offered["down"]
    BY <1>1, <2>2 DEF GapInv, PortGapless, Lossless
  <2>3. FswSends \/ (UNCHANGED udpIn /\ offered'["down"] = offered["down"])
    BY DEF Outside, ServerStarts, GroundReads, GroundCloses, GroundConnects,
       GroundWrites, Tick, EndDrain, netVars, FlowInv, FlowType, Dirs
  <2> QED
    BY <2>1, <2>2, <2>3
<1> QED
  BY <1>3, <1>4, <1>5 DEF GapInv

\* Every step.
LEMMA GapNext ==
    ASSUME FlowInv, GapInv, [Next]_vars
    PROVE  /\ GapInv'
           /\ \A d \in Dirs : Lossless(d) /\ last'[d] # last[d] =>
                 Head(queue[d]).from = last[d].to + 1
<1>1. CASE Thread
  <2>1. GapInv'
    BY <1>1, GapStartUp, GapDownReceive, GapUpReceive, GapStampPush DEF Thread
  <2>2. last' = last
    BY <1>1 DEF Thread, ThreadFrame
  <2> QED
    BY <2>1, <2>2
<1>2. CASE Outside \/ Tick \/ \E d \in Dirs : EndDrain(d)
  <2>1. last' = last
    BY <1>2 DEF Outside, OutsideFrame, Tick, EndDrain
  <2> QED
    BY <1>2, <2>1, GapOutside
<1>3. ASSUME NEW d \in Dirs, Forward(d)
      PROVE  /\ GapInv'
             /\ \A e \in Dirs : Lossless(e) /\ last'[e] # last[e] =>
                   Head(queue[e]).from = last[e].to + 1
  <2>1. \A e \in Dirs : e # d => last'[e] = last[e]
    BY <1>3, Released DEF FlowInv, FlowType
  <2> QED
    BY <1>3, <2>1, GapForward
<1>4. CASE UNCHANGED vars
  <2>1. UNCHANGED <<pc, buf, read, fwdAddr, queue, last, conn, offered, udpIn>>
    BY <1>4 DEF vars, threadVars, netVars
  <2>2. SetOnce' /\ PortGapless'
    BY <2>1 DEF GapInv, SetOnce, PortGapless, Lossless
  <2>3. \A d \in Dirs : Gapless(d)'
    BY <2>1, GapFrame DEF GapInv, Busy, Broken
  <2> QED
    BY <2>1, <2>2, <2>3 DEF GapInv
<1> QED
  BY <1>1, <1>2, <1>3, <1>4 DEF Next, Drain

(***************************************************************************)
(* On a link that does not close and with sends that do not fail, each     *)
(* delivery begins where the one before it ended, for any delays, any      *)
(* split of the bytes and any moment at which a connection is closed.      *)
(***************************************************************************)
THEOREM DeliveriesHaveNoGaps == Spec => NoGaps
<1>1. Init => GapInv
  BY DEF Init, GapInv, PortGapless, SetOnce, Gapless, Whole, Linked, EndOf, Busy, Dirs
<1>2. FlowInv /\ GapInv /\ [Next]_vars => GapInv'
  BY GapNext
<1>3. FlowInv /\ GapInv /\ [Next]_vars =>
         [\A d \in Dirs : Lossless(d) /\ last'[d] # last[d] =>
             Head(queue[d]).from = last[d].to + 1]_vars
  BY GapNext
<1> QED
  BY FlowInit, FlowNext, <1>1, <1>2, <1>3, PTL DEF Spec, NoGaps
=============================================================================

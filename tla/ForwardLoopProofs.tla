------------------------- MODULE ForwardLoopProofs -------------------------
(***************************************************************************)
(* Proofs about ForwardLoop, for every value of its constants.             *)
(***************************************************************************)
EXTENDS ForwardLoop, FiniteSetsExt, FiniteSetTheorems, TLAPS

(***************************************************************************)
(* A thread that has started has filled in the members of its lane, and    *)
(* nobody ever empties them: what SlotsReady needs to be inductive.        *)
(***************************************************************************)
Started(l) == pc[l] \in {"recv", "stamp", "push"}
Filled(q) == rcvSock[q] # "none" /\ fwdAddr[q] # {}

SlotsInv ==
    /\ pc \in [Loops -> {"slotsock", "slotaddr", "recv", "stamp", "push"}]
    /\ rcvSock \in [Lanes -> Loops \cup {"none"}]
    /\ DOMAIN fwdAddr = Lanes /\ fwdAddr = [q \in Lanes |-> fwdAddr[q]]
    /\ DOMAIN queue = Lanes /\ queue = [q \in Lanes |-> queue[q]]
    /\ \A l \in Loops :
          /\ pc[l] = "slotaddr" => rcvSock[Lane(l)] # "none"
          /\ Started(l) => Filled(Lane(l))
    /\ \A q \in Lanes : queue[q] # <<>> => Filled(q)

\* Every thread has a lane, and "none" is no thread.
LEMMA LoopFacts ==
    /\ \A l \in Loops : Lane(l) \in Lanes
    /\ "none" \notin Loops
BY DEF Loops, Lane, Lanes

\* A thread forwards to at least one address, resolved or not.
LEMMA SomeTarget == \A l \in Loops : Resolved(Targets(l)) # {}
<1> SUFFICES ASSUME NEW l \in Loops PROVE Resolved(Targets(l)) # {}
  OBVIOUS
<1>1. PICK d : d \in Targets(l)
  BY DEF Loops, Targets
<1>2. (IF d \in Resolvable THEN d ELSE "garbage") \in Resolved(Targets(l))
  BY <1>1 DEF Resolved
<1> QED
  BY <1>2

\* No member is set and no message is queued at the start.
LEMMA SlotsInit == Init => SlotsInv
BY LoopFacts DEF Init, SlotsInv, Started, Lanes

\* A relay thread fills in its members before it can queue anything.
LEMMA SlotsRelay ==
    ASSUME SlotsInv, NEW l \in Loops, Relay(l)
    PROVE  SlotsInv'
<1>1. CASE SetRcvSock(l)
  BY <1>1, LoopFacts DEF SlotsInv, SetRcvSock, Started, Filled
<1>2. CASE SetFwdAddr(l)
  BY <1>2, LoopFacts, SomeTarget DEF SlotsInv, SetFwdAddr, Started, Filled
<1>3. CASE Receive(l)
  <2>1. pc[l] = "recv" /\ UNCHANGED <<queue, rcvSock, fwdAddr>>
    BY <1>3 DEF Receive
  <2>2. pc' = pc \/ pc' = [pc EXCEPT ![l] = "stamp"]
    BY <1>3 DEF Receive
  <2> QED
    BY <2>1, <2>2, LoopFacts DEF SlotsInv, Started, Filled
<1>4. CASE Stamp(l)
  BY <1>4, LoopFacts DEF SlotsInv, Stamp, Started, Filled
<1>5. CASE Push(l)
  <2>1. pc[l] = "push" /\ pc' = [pc EXCEPT ![l] = "recv"]
        /\ UNCHANGED <<rcvSock, fwdAddr>>
    BY <1>5 DEF Push
  <2>2. PICK m : queue' = [queue EXCEPT ![Lane(l)] = Append(@, m)]
    BY <1>5 DEF Push
  <2>3. \A q \in Lanes : q # Lane(l) => queue'[q] = queue[q]
    BY <2>2, LoopFacts DEF SlotsInv
  <2>4. DOMAIN queue' = Lanes /\ queue' = [q \in Lanes |-> queue'[q]]
    BY <2>2, LoopFacts DEF SlotsInv
  <2> QED
    BY <2>1, <2>3, <2>4, LoopFacts DEF SlotsInv, Started, Filled
<1> QED
  BY <1>1, <1>2, <1>3, <1>4, <1>5 DEF Relay

\* Draining only shortens queues.
LEMMA SlotsDrain ==
    ASSUME SlotsInv, Tick \/ Drain
    PROVE  SlotsInv'
<1>1. CASE UNCHANGED <<pc, queue, rcvSock, fwdAddr>>
  BY <1>1 DEF SlotsInv, Started, Filled
<1>2. CASE \E q \in Lanes : Forward(q)
  <2>1. PICK q \in Lanes : Forward(q)
    BY <1>2
  <2>2. queue[q] # <<>> /\ queue' = [queue EXCEPT ![q] = Tail(@)]
        /\ UNCHANGED <<pc, rcvSock, fwdAddr>>
    BY <2>1 DEF Forward, Due
  <2>3. \A r \in Lanes : r # q => queue'[r] = queue[r]
    BY <2>2 DEF SlotsInv
  <2>4. DOMAIN queue' = Lanes /\ queue' = [r \in Lanes |-> queue'[r]]
    BY <2>2 DEF SlotsInv
  <2> QED
    BY <2>2, <2>3, <2>4 DEF SlotsInv, Started, Filled
<1> QED
  BY <1>1, <1>2 DEF Tick, Drain, Lock, EndDrain

\* SlotsInv is inductive.
LEMMA SlotsNext == SlotsInv /\ [Next]_vars => SlotsInv'
<1> SUFFICES ASSUME SlotsInv, [Next]_vars PROVE SlotsInv'
  OBVIOUS
<1>1. CASE UNCHANGED vars
  BY <1>1 DEF vars, SlotsInv, Started, Filled
<1> QED
  BY <1>1, SlotsRelay, SlotsDrain DEF Next

(***************************************************************************)
(* The tick thread never uses an address or a socket that nobody set, for  *)
(* every mode, link criterion, delay and number of datagrams.              *)
(***************************************************************************)
THEOREM SlotsAlwaysReady == Spec => []SlotsReady
<1>1. SlotsInv => SlotsReady
  BY DEF SlotsInv, SlotsReady, Filled
<1> QED
  BY SlotsInit, SlotsNext, <1>1, PTL DEF Spec

-----------------------------------------------------------------------------
(***************************************************************************)
(* Type correctness.                                                       *)
(***************************************************************************)
LEMMA RelayTypes ==
    /\ Idle \in Built
    /\ \A t \in Nat : Capped(t) \in 0..MaxTime
    /\ \A l \in Loops : Resolved(Targets(l)) \subseteq Dest \cup {"garbage"}
<1>1. Idle \in Built
  BY LinkAssumption, ForwardAssumption DEF Idle, Built, Verdicts
<1>2. \A t \in Nat : Capped(t) \in 0..MaxTime
  BY ForwardAssumption DEF Capped
<1>3. \A l \in Loops : Resolved(Targets(l)) \subseteq Dest \cup {"garbage"}
  BY ForwardAssumption DEF Resolved
<1> QED
  BY <1>1, <1>2, <1>3

\* A delay the data point gives is one of Delays.
LEMMA LightTimeType ==
    ASSUME NEW d \in Directions, NEW link \in Link, NEW m \in Int,
           NEW t \in LightTime(d, View(link, m))
    PROVE  t \in Delays
<1>1. View(link, m).delay \in Delays
  BY LinkAssumption DEF View, Link
<1> QED
  BY <1>1, LinkAssumption DEF LightTime

\* What a thread takes in is well-typed.
LEMMA ReceiveType ==
    ASSUME TypeOK, NEW l \in Loops, Receive(l)
    PROVE  TypeOK'
<1>1. got' \in [Loops -> Nat] /\ got[l] \in Nat
  BY DEF TypeOK, Receive
<1>2. PICK link \in Link, n \in 0..6 :
         LET d == Direction(l)
             v == View(link, Stored(d, n))
         IN  IF Capable(d, v)
                THEN /\ \E t \in LightTime(d, v) :
                           buf' = [buf EXCEPT ![l] =
                                     [n |-> got[l] + 1, delay |-> t, due |-> 0,
                                      link |-> Verdict(d, link, Stored(d, n))]]
                     /\ pc' = [pc EXCEPT ![l] = "stamp"]
                ELSE UNCHANGED <<buf, pc>>
  BY DEF Receive
<1>3. Direction(l) \in Directions /\ Stored(Direction(l), n) \in Int
  BY DEF Direction, Directions, Stored
<1>4. \A m \in Int : Verdict(Direction(l), link, m) \in Verdicts
  BY DEF Verdict, Verdicts
<1>5. CASE UNCHANGED <<buf, pc>>
  BY <1>1, <1>5 DEF TypeOK, Receive
<1>6. CASE /\ pc' = [pc EXCEPT ![l] = "stamp"]
           /\ \E t \in LightTime(Direction(l), View(link, Stored(Direction(l), n))) :
                 buf' = [buf EXCEPT ![l] =
                           [n |-> got[l] + 1, delay |-> t, due |-> 0,
                            link |-> Verdict(Direction(l), link, Stored(Direction(l), n))]]
  <2>1. PICK t \in LightTime(Direction(l), View(link, Stored(Direction(l), n))) :
           buf' = [buf EXCEPT ![l] =
                     [n |-> got[l] + 1, delay |-> t, due |-> 0,
                      link |-> Verdict(Direction(l), link, Stored(Direction(l), n))]]
    BY <1>6
  <2>2. t \in Delays
    BY <1>3, LightTimeType
  <2>3. [n |-> got[l] + 1, delay |-> t, due |-> 0,
         link |-> Verdict(Direction(l), link, Stored(Direction(l), n))] \in Built
    BY <1>1, <1>3, <1>4, <2>2, ForwardAssumption DEF Built
  <2>4. buf' \in [Loops -> Built]
    BY <2>1, <2>3 DEF TypeOK
  <2>5. pc' \in [Loops -> {"slotsock", "slotaddr", "recv", "stamp", "push"}]
    BY <1>6 DEF TypeOK
  <2> QED
    BY <1>1, <2>4, <2>5 DEF TypeOK, Receive
<1> QED
  BY <1>2, <1>5, <1>6

\* A thread fills in its members, stamps and queues.
LEMMA RelayTypeOK ==
    ASSUME TypeOK, NEW l \in Loops, Relay(l)
    PROVE  TypeOK'
<1>1. CASE SetRcvSock(l)
  BY <1>1, LoopFacts DEF TypeOK, SetRcvSock
<1>2. CASE SetFwdAddr(l)
  BY <1>2, LoopFacts, RelayTypes DEF TypeOK, SetFwdAddr
<1>3. CASE Receive(l)
  BY <1>3, ReceiveType
<1>4. CASE Stamp(l)
  <2>1. buf[l] \in Built /\ now \in Nat
    BY ForwardAssumption DEF TypeOK
  <2>2. now + buf[l].delay \in Nat
    <3>1. buf[l].delay \in Delays
      BY <2>1 DEF Built
    <3>2. Delays \subseteq Nat
      BY LinkAssumption
    <3>3. buf[l].delay \in Nat
      BY <3>1, <3>2
    <3> QED
      BY <2>1, <3>3
  <2>3. [buf[l] EXCEPT !.due = Capped(now + buf[l].delay)] \in Built
    BY <2>1, <2>2, RelayTypes DEF Built
  <2>4. buf' = [buf EXCEPT ![l] = [buf[l] EXCEPT !.due = Capped(now + buf[l].delay)]]
    BY <1>4 DEF Stamp
  <2>5. buf' \in [Loops -> Built]
    BY <2>3, <2>4 DEF TypeOK
  <2> QED
    BY <1>4, <2>5 DEF TypeOK, Stamp
<1>5. CASE Push(l)
  <2>1. buf[l] \in Built
    BY DEF TypeOK
  <2>2. [loop |-> l, n |-> buf[l].n, due |-> buf[l].due, pushed |-> now,
         link |-> buf[l].link] \in Queued
    BY <2>1 DEF TypeOK, Built, Queued
  <2>3. queue' \in [Lanes -> Seq(Queued)]
    BY <1>5, <2>2, LoopFacts DEF TypeOK, Push
  <2>4. buf' \in [Loops -> Built]
    BY <1>5, RelayTypes DEF TypeOK, Push
  <2> QED
    BY <1>5, <2>3, <2>4 DEF TypeOK, Push
<1> QED
  BY <1>1, <1>2, <1>3, <1>4, <1>5 DEF Relay

\* What the tick thread takes from a queue.
LEMMA ForwardFacts ==
    ASSUME TypeOK, NEW q \in Lanes, Forward(q)
    PROVE  \E D \in SUBSET fwdAddr[q] :
              /\ Head(queue[q]) \in Queued
              /\ Head(queue[q]) = queue[q][1]
              /\ Record(Head(queue[q]), D) \in Taken
              /\ released' = Append(released, Record(Head(queue[q]), D))
<1>1. queue[q] \in Seq(Queued) /\ queue[q] # <<>>
  BY DEF TypeOK, Forward, Due
<1>2. Head(queue[q]) \in Queued /\ Head(queue[q]) = queue[q][1]
  BY <1>1
<1>3. PICK D \in Outcomes(fwdAddr[q]) :
         released' = Append(released, Record(Head(queue[q]), D))
  BY DEF Forward
<1>4. D \subseteq fwdAddr[q]
  BY DEF Outcomes
<1>5. D \subseteq Dest \cup {"garbage"}
  BY <1>4 DEF TypeOK
<1>6. Record(Head(queue[q]), D) \in Taken
  BY <1>2, <1>5 DEF TypeOK, Record, Queued, Taken
<1> QED
  BY <1>2, <1>3, <1>4, <1>6

\* The clock and the tick thread.
LEMMA DrainTypeOK ==
    ASSUME TypeOK, Tick \/ Drain
    PROVE  TypeOK'
<1>1. CASE Tick
  <2>1. now + 1 \in Nat
    BY ForwardAssumption DEF TypeOK
  <2> QED
    BY <1>1, <2>1, RelayTypes DEF TypeOK, Tick, Stages, Lanes
<1>2. CASE Lock
  BY <1>2 DEF TypeOK, Lock, Stages, Lanes
<1>3. ASSUME NEW q \in Lanes, Forward(q) PROVE TypeOK'
  <2>1. released' \in Seq(Taken)
    <3>1. PICK m \in Taken : released' = Append(released, m)
      BY <1>3, ForwardFacts
    <3> QED
      BY <3>1 DEF TypeOK
  <2>2. Tail(queue[q]) \in Seq(Queued)
    BY <1>3 DEF TypeOK, Forward, Due
  <2>3. queue' \in [Lanes -> Seq(Queued)]
    BY <1>3, <2>2 DEF TypeOK, Forward
  <2> QED
    BY <1>3, <2>1, <2>3 DEF TypeOK, Forward
<1>4. ASSUME NEW q \in Lanes, EndDrain(q) PROVE TypeOK'
  <2>1. NextStage(q) \in Stages
    BY DEF NextStage, Lanes, Stages
  <2> QED
    BY <1>4, <2>1 DEF TypeOK, EndDrain
<1> QED
  BY <1>1, <1>2, <1>3, <1>4 DEF Drain

\* TypeOK is inductive.
LEMMA TypeInductive ==
    /\ Init => TypeOK
    /\ TypeOK /\ [Next]_vars => TypeOK'
<1>1. ASSUME Init PROVE TypeOK
  <2>1. 0 \in 0..MaxTime
    BY ForwardAssumption
  <2>2. queue \in [Lanes -> Seq(Queued)] /\ released \in Seq(Taken)
    BY <1>1 DEF Init
  <2>3. buf \in [Loops -> Built]
    BY <1>1, RelayTypes DEF Init
  <2> QED
    BY <1>1, <2>1, <2>2, <2>3 DEF Init, TypeOK, Stages
<1>2. TypeOK /\ UNCHANGED vars => TypeOK'
  BY DEF TypeOK, vars
<1> QED
  BY <1>1, <1>2, RelayTypeOK, DrainTypeOK DEF Next

(***************************************************************************)
(* Every variable of the relay keeps its type, in every mode.              *)
(***************************************************************************)
THEOREM RelayTypeCorrect == Spec => []TypeOK
BY TypeInductive, PTL DEF Spec

-----------------------------------------------------------------------------
(***************************************************************************)
(* Order, routes and links.  Of the datagrams of one thread, those taken   *)
(* from its queue, those in it and the one being built have increasing     *)
(* numbers.  A queue holds datagrams of the threads of its lane only, the  *)
(* lanes "up" and "multi" have one thread each, and each datagram carries  *)
(* a verdict its criterion tolerates.                                      *)
(***************************************************************************)
Building(l) == pc[l] \in {"stamp", "push"}

\* The newest number of thread l outside its buffer.
Newest(l) == IF Building(l) THEN got[l] - 1 ELSE got[l]

Increasing(s) ==
    \A i, j \in 1..Len(s) : i < j /\ s[i].loop = s[j].loop => s[i].n < s[j].n

TakenInv ==
    /\ Increasing(released)
    /\ \A i \in 1..Len(released) :
          /\ released[i].n <= Newest(released[i].loop)
          /\ released[i].link \in Tolerated(Direction(released[i].loop))
          /\ released[i].loop \in {"up", "multi"} =>
                released[i].to \subseteq Resolved(Targets(released[i].loop))

QueueInv ==
    \A q \in Lanes :
       /\ Increasing(queue[q])
       /\ \A i \in 1..Len(queue[q]) :
             /\ Lane(queue[q][i].loop) = q
             /\ queue[q][i].n <= Newest(queue[q][i].loop)
             /\ queue[q][i].link \in Tolerated(Direction(queue[q][i].loop))
             /\ \A j \in 1..Len(released) :
                   released[j].loop = queue[q][i].loop => released[j].n < queue[q][i].n

ThreadInv ==
    /\ \A l \in Loops : Building(l) => /\ buf[l].n = got[l]
                                       /\ buf[l].link \in Tolerated(Direction(l))
    /\ \A q \in {"up", "multi"} : fwdAddr[q] \subseteq Resolved(Targets(q))

RelayInv == TakenInv /\ QueueInv /\ ThreadInv

\* The two lanes that have a thread of their own.
LEMMA LaneFacts ==
    \A l \in Loops : /\ Lane(l) = "up" <=> l = "up"
                     /\ Lane(l) = "multi" <=> l = "multi"
BY DEF Lane

(***************************************************************************)
(* A datagram is let through over an open link, or over one whose state    *)
(* was not known where the criterion is occultation.                       *)
(***************************************************************************)
LEMMA FailingParse ==
    ASSUME NEW d \in Directions, NEW link \in Link, NEW m \in 0..3,
           Capable(d, View(link, m))
    PROVE  Verdict(d, link, m) \in Tolerated(d)
<1>1. Criterion[d] \in {"none", "occulted", "cnr"}
  BY LinkAssumption
<1>2. CASE Criterion[d] = "none"
  BY <1>2 DEF Capable, Verdict, Tolerated
<1>3. CASE Criterion[d] = "occulted"
  BY <1>3 DEF Capable, View, Seen, Verdict, Tolerated, Link
<1>4. CASE Criterion[d] = "cnr"
  BY <1>4 DEF Capable, View, Seen, Verdict, Tolerated, Link
<1> QED
  BY <1>1, <1>2, <1>3, <1>4

\* The entries of the queues and of the history, field by field.
LEMMA EntryTypes ==
    ASSUME TypeOK
    PROVE  /\ Len(released) \in Nat
           /\ \A i \in 1..Len(released) :
                 released[i].loop \in Loops /\ released[i].n \in Nat
           /\ \A q \in Lanes :
                 /\ Len(queue[q]) \in Nat
                 /\ \A i \in 1..Len(queue[q]) :
                       queue[q][i].loop \in Loops /\ queue[q][i].n \in Nat
<1>1. \A S : \A s \in Seq(S) : Len(s) \in Nat /\ \A i \in 1..Len(s) : s[i] \in S
  OBVIOUS
<1>2. released \in Seq(Taken) /\ \A q \in Lanes : queue[q] \in Seq(Queued)
  BY DEF TypeOK
<1>3. \A m \in Taken : m.loop \in Loops /\ m.n \in Nat
  BY DEF Taken
<1>4. \A m \in Queued : m.loop \in Loops /\ m.n \in Nat
  BY DEF Queued
<1>5. Len(released) \in Nat /\ \A i \in 1..Len(released) : released[i] \in Taken
  BY <1>1, <1>2
<1>6. \A q \in Lanes : /\ Len(queue[q]) \in Nat
                       /\ \A i \in 1..Len(queue[q]) : queue[q][i] \in Queued
  BY <1>1, <1>2
<1> QED
  BY <1>3, <1>4, <1>5, <1>6

\* Steps that leave the queues, the released datagrams and Newest alone.
LEMMA RelayFrame ==
    ASSUME RelayInv, UNCHANGED <<queue, released>>,
           \A l \in Loops : Newest(l)' = Newest(l), TypeOK
    PROVE  TakenInv' /\ QueueInv'
<1>1. \A i \in 1..Len(released) : released[i].loop \in Loops
  BY EntryTypes
<1>2. \A q \in Lanes : \A i \in 1..Len(queue[q]) : queue[q][i].loop \in Loops
  BY EntryTypes
<1> QED
  BY <1>1, <1>2 DEF RelayInv, TakenInv, QueueInv, Increasing

\* Steps that leave the queues and the released datagrams alone and lower no
\* thread's Newest.
LEMMA TakenGrow ==
    ASSUME TypeOK, RelayInv, UNCHANGED released,
           \A k \in Loops : Newest(k) <= Newest(k)' /\ Newest(k) \in Int /\ Newest(k)' \in Int
    PROVE  TakenInv'
<1>1. Increasing(released)'
  BY DEF RelayInv, TakenInv, Increasing
<1>2. ASSUME NEW i \in 1..Len(released) PROVE released[i].n <= Newest(released[i].loop)'
  <2>1. released[i].loop \in Loops /\ released[i].n \in Nat
    BY EntryTypes
  <2>2. released[i].n <= Newest(released[i].loop)
    BY DEF RelayInv, TakenInv
  <2> QED
    BY <2>1, <2>2
<1> QED
  BY <1>1, <1>2 DEF RelayInv, TakenInv

LEMMA RelayGrow ==
    ASSUME TypeOK, RelayInv, UNCHANGED <<queue, released>>,
           \A k \in Loops : Newest(k) <= Newest(k)' /\ Newest(k) \in Int /\ Newest(k)' \in Int
    PROVE  QueueInv' /\ TakenInv'
<1>1. ASSUME NEW q \in Lanes PROVE Increasing(queue[q])'
  BY DEF RelayInv, QueueInv, Increasing
<1>2. ASSUME NEW q \in Lanes, NEW i \in 1..Len(queue[q])
      PROVE  queue[q][i].n <= Newest(queue[q][i].loop)'
  <2>1. queue[q][i].loop \in Loops /\ queue[q][i].n \in Nat
    BY EntryTypes
  <2>2. queue[q][i].n <= Newest(queue[q][i].loop)
    BY DEF RelayInv, QueueInv
  <2> QED
    BY <2>1, <2>2
<1> QED
  BY <1>1, <1>2, TakenGrow DEF RelayInv, QueueInv

\* A thread takes in a datagram.
LEMMA RelayReceive ==
    ASSUME TypeOK, RelayInv, NEW l \in Loops, Receive(l)
    PROVE  RelayInv'
<1>1. PICK link \in Link, n \in 0..6 :
         LET d == Direction(l)
             v == View(link, Stored(d, n))
         IN  IF Capable(d, v)
                THEN /\ \E t \in LightTime(d, v) :
                           buf' = [buf EXCEPT ![l] =
                                     [n |-> got[l] + 1, delay |-> t, due |-> 0,
                                      link |-> Verdict(d, link, Stored(d, n))]]
                     /\ pc' = [pc EXCEPT ![l] = "stamp"]
                ELSE UNCHANGED <<buf, pc>>
  BY DEF Receive
<1> DEFINE d == Direction(l)
           m == Stored(d, n)
<1>2. d \in Directions /\ m \in 0..3
  BY DEF Direction, Directions, Stored
<1>3. /\ got' = [got EXCEPT ![l] = @ + 1] /\ got[l] \in Nat /\ pc[l] = "recv"
      /\ UNCHANGED <<queue, released, fwdAddr>>
  BY DEF Receive, TypeOK
<1>4. CASE UNCHANGED <<buf, pc>>
  <2>1. \A k \in Loops : Newest(k) <= Newest(k)' /\ Newest(k) \in Int /\ Newest(k)' \in Int
    BY <1>3, <1>4 DEF Newest, Building, TypeOK
  <2>2. QueueInv' /\ TakenInv'
    BY <1>3, <2>1, RelayGrow
  <2>6. ThreadInv'
    BY <1>3, <1>4 DEF RelayInv, ThreadInv, Building, TypeOK
  <2> QED
    BY <2>2, <2>6 DEF RelayInv
<1>5. CASE Capable(d, View(link, m))
  <2>1. PICK t : buf' = [buf EXCEPT ![l] = [n |-> got[l] + 1, delay |-> t, due |-> 0,
                                            link |-> Verdict(d, link, m)]]
    BY <1>1, <1>5
  <2>2. pc' = [pc EXCEPT ![l] = "stamp"]
    BY <1>1, <1>5
  <2>3. \A k \in Loops : Newest(k)' = Newest(k)
    BY <1>3, <2>2 DEF Newest, Building, TypeOK
  <2>4. buf'[l].n = got'[l] /\ buf'[l].link \in Tolerated(d)
    BY <1>2, <1>3, <1>5, <2>1, FailingParse DEF TypeOK
  <2>5. ThreadInv'
    BY <1>3, <2>1, <2>2, <2>4 DEF RelayInv, ThreadInv, Building, TypeOK
  <2> QED
    BY <1>3, <2>3, <2>5, RelayFrame DEF RelayInv
<1> QED
  BY <1>1, <1>4, <1>5

\* A thread puts its datagram behind those it queued before.
LEMMA RelayPush ==
    ASSUME TypeOK, RelayInv, NEW l \in Loops, Push(l)
    PROVE  RelayInv'
<1> DEFINE q == Lane(l)
           e == [loop |-> l, n |-> buf[l].n, due |-> buf[l].due, pushed |-> now,
                 link |-> buf[l].link]
<1>1. /\ pc[l] = "push" /\ pc' = [pc EXCEPT ![l] = "recv"]
      /\ queue' = [queue EXCEPT ![q] = Append(@, e)]
      /\ buf' = [buf EXCEPT ![l] = Idle]
      /\ UNCHANGED <<got, fwdAddr, released>>
  BY DEF Push
<1>2. /\ buf[l].n = got[l] /\ buf[l].link \in Tolerated(Direction(l))
      /\ got[l] \in Nat /\ q \in Lanes
  BY <1>1, LoopFacts DEF RelayInv, ThreadInv, Building, TypeOK
<1>3. Newest(l) = got[l] - 1 /\ Newest(l)' = got[l]
  BY <1>1 DEF Newest, Building, TypeOK
<1>4. \A k \in Loops : k # l => Newest(k)' = Newest(k)
  BY <1>1 DEF Newest, Building, TypeOK
<1>5. \A k \in Loops : Newest(k) <= Newest(k)' /\ Newest(k) \in Int /\ Newest(k)' \in Int
  BY <1>1 DEF Newest, Building, TypeOK
<1>6. \A i \in 1..Len(released) : released[i].loop \in Loops /\ released[i].n \in Nat
  BY EntryTypes
<1>7. TakenInv'
  BY <1>1, <1>5, TakenGrow
<1>8. ThreadInv'
  BY <1>1 DEF RelayInv, ThreadInv, Building, TypeOK
<1>9. /\ Len(queue'[q]) = Len(queue[q]) + 1 /\ Len(queue[q]) \in Nat
      /\ queue'[q][Len(queue[q]) + 1] = e
      /\ \A i \in 1..Len(queue[q]) : queue'[q][i] = queue[q][i]
      /\ \A r \in Lanes : r # q => queue'[r] = queue[r]
  BY <1>1, <1>2 DEF TypeOK
<1>10. \A r \in Lanes : /\ Len(queue[r]) \in Nat
                       /\ \A i \in 1..Len(queue[r]) :
                             queue[r][i].loop \in Loops /\ queue[r][i].n \in Nat
  BY EntryTypes
<1>11. \A i \in 1..Len(queue[q]) : queue[q][i].loop = l => queue[q][i].n < e.n
  <2>1. \A i \in 1..Len(queue[q]) : queue[q][i].loop = l => queue[q][i].n <= got[l] - 1
    BY <1>2, <1>3 DEF RelayInv, QueueInv
  <2>2. \A i \in 1..Len(queue[q]) : queue[q][i].n \in Nat
    BY <1>2, <1>10
  <2> QED
    BY <1>2, <2>1, <2>2
<1>12. \A j \in 1..Len(released) : released[j].loop = l => released[j].n < e.n
  <2>1. \A j \in 1..Len(released) : released[j].loop = l => released[j].n <= got[l] - 1
    BY <1>3 DEF RelayInv, TakenInv
  <2>2. \A j \in 1..Len(released) : released[j].n \in Nat
    BY <1>6
  <2> QED
    BY <1>2, <2>1, <2>2
<1>13. ASSUME NEW r \in Lanes PROVE Increasing(queue'[r])
  <2>1. CASE r # q
    BY <1>9, <2>1 DEF RelayInv, QueueInv, Increasing
  <2>2. CASE r = q
    <3>1. Increasing(queue[q])
      BY <1>2 DEF RelayInv, QueueInv
    <3>2. \A i, j \in 1..Len(queue[q]) :
             i < j /\ queue[q][i].loop = queue[q][j].loop => queue[q][i].n < queue[q][j].n
      BY <3>1 DEF Increasing
    <3>3. e.loop = l
      OBVIOUS
    <3> SUFFICES ASSUME NEW i \in 1..Len(queue'[q]), NEW j \in 1..Len(queue'[q]),
                        i < j, queue'[q][i].loop = queue'[q][j].loop
                 PROVE  queue'[q][i].n < queue'[q][j].n
      BY <2>2 DEF Increasing
    <3>4. i \in 1..Len(queue[q]) /\ (j \in 1..Len(queue[q]) \/ j = Len(queue[q]) + 1)
      BY <1>9
    <3> HIDE DEF e
    <3> QED
      BY <1>9, <1>11, <3>2, <3>3, <3>4
  <2> QED
    BY <2>1, <2>2
<1>14. ASSUME NEW r \in Lanes, NEW i \in 1..Len(queue'[r])
       PROVE  (/\ Lane(queue[r][i].loop) = r
               /\ queue[r][i].n <= Newest(queue[r][i].loop)
               /\ queue[r][i].link \in Tolerated(Direction(queue[r][i].loop))
               /\ \A j \in 1..Len(released) :
                     released[j].loop = queue[r][i].loop => released[j].n < queue[r][i].n)'
  <2>1. CASE i \in 1..Len(queue[r])
    <3>1. queue'[r][i] = queue[r][i]
      BY <1>9, <2>1
    <3>2. PICK k \in Loops : k = queue[r][i].loop /\ queue[r][i].n \in Nat
      BY <1>10, <2>1
    <3>3. /\ Lane(k) = r
          /\ queue[r][i].n <= Newest(k)
          /\ queue[r][i].link \in Tolerated(Direction(k))
          /\ \A j \in 1..Len(released) :
                released[j].loop = k => released[j].n < queue[r][i].n
      BY <2>1, <3>2 DEF RelayInv, QueueInv
    <3>4. queue[r][i].n <= Newest(k)'
      BY <1>5, <3>2, <3>3
    <3> QED
      BY <1>1, <3>1, <3>2, <3>3, <3>4
  <2>2. CASE r = q /\ i = Len(queue[q]) + 1
    <3>1. queue'[r][i] = e
      BY <1>9, <2>2
    <3>2. queue'[r][i].loop = l /\ queue'[r][i].n = got[l] /\ queue'[r][i].link = buf[l].link
      BY <1>2, <3>1
    <3>3. got[l] <= Newest(l)'
      BY <1>2, <1>3
    <3>4. \A j \in 1..Len(released) : released[j].loop = l => released[j].n < got[l]
      BY <1>2, <1>12
    <3> QED
      BY <1>1, <1>2, <2>2, <3>2, <3>3, <3>4
  <2>3. i \in 1..Len(queue[r]) \/ (r = q /\ i = Len(queue[q]) + 1)
    BY <1>2, <1>9
  <2> QED
    BY <2>1, <2>2, <2>3
<1>15. QueueInv'
  <2>1. \A r \in Lanes : Increasing(queue[r])'
    BY <1>13 DEF Increasing
  <2> QED
    BY <1>14, <2>1 DEF QueueInv
<1> QED
  BY <1>7, <1>8, <1>15 DEF RelayInv

\* The relay threads.
LEMMA RelayRelay ==
    ASSUME TypeOK, RelayInv, NEW l \in Loops, Relay(l)
    PROVE  RelayInv'
<1>1. CASE SetRcvSock(l)
  <2>1. \A k \in Loops : Newest(k)' = Newest(k)
    BY <1>1 DEF SetRcvSock, Newest, Building, TypeOK
  <2>2. ThreadInv'
    BY <1>1 DEF SetRcvSock, RelayInv, ThreadInv, Building, TypeOK
  <2>3. UNCHANGED <<queue, released>>
    BY <1>1 DEF SetRcvSock
  <2> QED
    BY <2>1, <2>2, <2>3, RelayFrame DEF RelayInv
<1>2. CASE SetFwdAddr(l)
  <2>1. \A k \in Loops : Newest(k)' = Newest(k)
    BY <1>2 DEF SetFwdAddr, Newest, Building, TypeOK
  <2>2. ASSUME NEW q \in {"up", "multi"} PROVE fwdAddr'[q] \subseteq Resolved(Targets(q))
    <3>1. /\ fwdAddr' = [fwdAddr EXCEPT ![Lane(l)] = Resolved(Targets(l))]
          /\ q \in DOMAIN fwdAddr
          /\ fwdAddr[q] \subseteq Resolved(Targets(q))
      BY <1>2 DEF SetFwdAddr, RelayInv, ThreadInv, TypeOK, Lanes
    <3>2. Lane(l) = q => l = q
      BY LaneFacts
    <3> QED
      BY <3>1, <3>2
  <2>3. ThreadInv'
    BY <1>2, <2>2 DEF SetFwdAddr, RelayInv, ThreadInv, Building, TypeOK
  <2>4. UNCHANGED <<queue, released>>
    BY <1>2 DEF SetFwdAddr
  <2> QED
    BY <2>1, <2>3, <2>4, RelayFrame DEF RelayInv
<1>3. CASE Receive(l)
  BY <1>3, RelayReceive
<1>4. CASE Stamp(l)
  <2>1. \A k \in Loops : Newest(k)' = Newest(k)
    BY <1>4 DEF Stamp, Newest, Building, TypeOK
  <2>2. buf'[l].n = buf[l].n /\ buf'[l].link = buf[l].link
    BY <1>4 DEF Stamp, TypeOK, Built
  <2>3. ThreadInv'
    BY <1>4, <2>2 DEF Stamp, RelayInv, ThreadInv, Building, TypeOK
  <2>4. UNCHANGED <<queue, released>>
    BY <1>4 DEF Stamp
  <2> QED
    BY <2>1, <2>3, <2>4, RelayFrame DEF RelayInv
<1>5. CASE Push(l)
  BY <1>5, RelayPush
<1> QED
  BY <1>1, <1>2, <1>3, <1>4, <1>5 DEF Relay

\* The tick thread takes the head of a queue and sends it.
LEMMA RelayForward ==
    ASSUME TypeOK, RelayInv, NEW q \in Lanes, Forward(q)
    PROVE  RelayInv'
<1>1. /\ queue[q] # <<>> /\ queue' = [queue EXCEPT ![q] = Tail(@)]
      /\ UNCHANGED <<pc, buf, got, fwdAddr>>
  BY DEF Forward, Due
<1>2. PICK D \in SUBSET fwdAddr[q] :
         /\ Head(queue[q]) \in Queued
         /\ Head(queue[q]) = queue[q][1]
         /\ Record(Head(queue[q]), D) \in Taken
         /\ released' = Append(released, Record(Head(queue[q]), D))
  BY ForwardFacts
<1> DEFINE h == Head(queue[q])
           x == Record(h, D)
<1>3. /\ x.loop = h.loop /\ x.n = h.n /\ x.link = h.link /\ x.to = D
      /\ h.loop \in Loops /\ h.n \in Nat
  BY <1>2 DEF Record, Queued
<1>4. 1 \in 1..Len(queue[q]) /\ h = queue[q][1]
  BY <1>1, <1>2 DEF TypeOK
<1>5. /\ Lane(h.loop) = q /\ h.n <= Newest(h.loop)
      /\ h.link \in Tolerated(Direction(h.loop))
      /\ \A j \in 1..Len(released) : released[j].loop = h.loop => released[j].n < h.n
  BY <1>4 DEF RelayInv, QueueInv
<1>6. h.loop \in {"up", "multi"} => D \subseteq Resolved(Targets(h.loop))
  <2>1. h.loop \in {"up", "multi"} => q = h.loop
    BY <1>3, <1>5, LaneFacts
  <2>2. q \in {"up", "multi"} => fwdAddr[q] \subseteq Resolved(Targets(q))
    BY DEF RelayInv, ThreadInv
  <2> QED
    BY <1>2, <2>1, <2>2
<1>7. /\ Len(released') = Len(released) + 1 /\ Len(released) \in Nat
      /\ released'[Len(released) + 1] = x
      /\ \A i \in 1..Len(released) : released'[i] = released[i]
  BY <1>2 DEF TypeOK
<1>8. \A l \in Loops : Newest(l)' = Newest(l)
  BY <1>1 DEF Newest, Building
<1>9. \A i \in 1..Len(released) : released[i].loop \in Loops /\ released[i].n \in Nat
  BY EntryTypes
<1>10. Increasing(released')
  <2>1. Increasing(released)
    BY DEF RelayInv, TakenInv
  <2> QED
    BY <1>3, <1>5, <1>7, <2>1 DEF Increasing
<1>11. ASSUME NEW i \in 1..Len(released')
       PROVE  (/\ released[i].n <= Newest(released[i].loop)
               /\ released[i].link \in Tolerated(Direction(released[i].loop))
               /\ released[i].loop \in {"up", "multi"} =>
                     released[i].to \subseteq Resolved(Targets(released[i].loop)))'
  <2>1. CASE i \in 1..Len(released)
    <3>1. PICK k \in Loops : k = released[i].loop
      BY <1>9, <2>1
    <3>2. /\ released[i].n <= Newest(k)
          /\ released[i].link \in Tolerated(Direction(k))
          /\ k \in {"up", "multi"} => released[i].to \subseteq Resolved(Targets(k))
      BY <2>1, <3>1 DEF RelayInv, TakenInv
    <3>3. Newest(k)' = Newest(k) /\ released'[i] = released[i]
      BY <1>7, <1>8, <2>1
    <3> QED
      BY <3>1, <3>2, <3>3
  <2>2. CASE i = Len(released) + 1
    <3>1. PICK l \in Loops : l = h.loop
      BY <1>3
    <3>2. released'[i] = x /\ Newest(l)' = Newest(l)
      BY <1>7, <1>8, <2>2
    <3>3. /\ released'[i].loop = l /\ released'[i].n = h.n
          /\ released'[i].link = h.link /\ released'[i].to = D
      BY <1>3, <3>1, <3>2
    <3>4. /\ h.n <= Newest(l)'
          /\ h.link \in Tolerated(Direction(l))
          /\ l \in {"up", "multi"} => D \subseteq Resolved(Targets(l))
      BY <1>5, <1>6, <3>1, <3>2
    <3> QED
      BY <3>3, <3>4
  <2> QED
    BY <1>7, <2>1, <2>2
<1>12. TakenInv'
  <2>1. Increasing(released)'
    BY <1>10 DEF Increasing
  <2> QED
    BY <1>11, <2>1 DEF TakenInv
<1>13. /\ Len(queue'[q]) = Len(queue[q]) - 1 /\ Len(queue[q]) \in Nat
       /\ \A i \in 1..Len(queue'[q]) : queue'[q][i] = queue[q][i + 1]
       /\ \A r \in Lanes : r # q => queue'[r] = queue[r]
  BY <1>1 DEF TypeOK
<1>14. \A r \in Lanes : \A i \in 1..Len(queue'[r]) :
          \E k \in 1..Len(queue[r]) : /\ queue'[r][i] = queue[r][k]
                                      /\ r = q => k = i + 1
                                      /\ r # q => k = i
  <2> SUFFICES ASSUME NEW r \in Lanes, NEW i \in 1..Len(queue'[r])
               PROVE  \E k \in 1..Len(queue[r]) : /\ queue'[r][i] = queue[r][k]
                                                  /\ r = q => k = i + 1
                                                  /\ r # q => k = i
    OBVIOUS
  <2>1. CASE r = q
    <3>1. i + 1 \in 1..Len(queue[r])
      BY <1>13, <2>1
    <3> QED
      BY <1>13, <2>1, <3>1
  <2>2. CASE r # q
    BY <1>13, <2>2
  <2> QED
    BY <2>1, <2>2
<1>15. ASSUME NEW r \in Lanes PROVE Increasing(queue'[r])
  <2>1. Increasing(queue[r])
    BY DEF RelayInv, QueueInv
  <2>2. CASE r # q
    BY <1>13, <2>1, <2>2
  <2>3. CASE r = q
    <3> SUFFICES ASSUME NEW i \in 1..Len(queue'[q]), NEW j \in 1..Len(queue'[q]),
                        i < j, queue'[q][i].loop = queue'[q][j].loop
                 PROVE  queue'[q][i].n < queue'[q][j].n
      BY <2>3 DEF Increasing
    <3>1. i + 1 \in 1..Len(queue[q]) /\ j + 1 \in 1..Len(queue[q]) /\ i + 1 < j + 1
      BY <1>13
    <3> QED
      BY <1>13, <2>1, <2>3, <3>1 DEF Increasing
  <2> QED
    BY <2>2, <2>3
<1>16. ASSUME NEW r \in Lanes, NEW i \in 1..Len(queue'[r])
       PROVE  (/\ Lane(queue[r][i].loop) = r
               /\ queue[r][i].n <= Newest(queue[r][i].loop)
               /\ queue[r][i].link \in Tolerated(Direction(queue[r][i].loop))
               /\ \A j \in 1..Len(released) :
                     released[j].loop = queue[r][i].loop => released[j].n < queue[r][i].n)'
  <2>1. PICK k \in 1..Len(queue[r]) : /\ queue'[r][i] = queue[r][k]
                                      /\ r = q => k = i + 1
                                      /\ r # q => k = i
    BY <1>14
  <2>2. PICK l \in Loops : l = queue[r][k].loop /\ queue[r][k].n \in Nat
    BY EntryTypes
  <2>3. /\ Lane(l) = r
        /\ queue[r][k].n <= Newest(l)
        /\ queue[r][k].link \in Tolerated(Direction(l))
        /\ \A j \in 1..Len(released) : released[j].loop = l => released[j].n < queue[r][k].n
    BY <2>2 DEF RelayInv, QueueInv
  <2>4. h.loop = l => h.n < queue[r][k].n
    <3>1. CASE r # q
      BY <1>5, <2>3, <3>1
    <3>2. CASE r = q
      <4>1. Increasing(queue[q]) /\ 1 < k
        BY <2>1, <3>2 DEF RelayInv, QueueInv
      <4> QED
        BY <1>4, <2>2, <3>2, <4>1 DEF Increasing
    <3> QED
      BY <3>1, <3>2
  <2>5. \A j \in 1..Len(released') : released'[j].loop = l => released'[j].n < queue[r][k].n
    BY <1>3, <1>7, <2>3, <2>4
  <2>6. Newest(l)' = Newest(l)
    BY <1>8
  <2> QED
    BY <2>1, <2>2, <2>3, <2>5, <2>6
<1>17. QueueInv'
  <2>1. \A r \in Lanes : Increasing(queue[r])'
    BY <1>15 DEF Increasing
  <2> QED
    BY <1>16, <2>1 DEF QueueInv
<1>18. ThreadInv'
  BY <1>1 DEF RelayInv, ThreadInv, Building
<1> QED
  BY <1>12, <1>17, <1>18 DEF RelayInv

\* RelayInv is inductive.
LEMMA RelayInductive ==
    /\ Init => RelayInv
    /\ TypeOK /\ RelayInv /\ [Next]_vars => RelayInv'
<1>1. ASSUME Init PROVE RelayInv
  <2>1. Len(released) = 0 /\ \A q \in Lanes : Len(queue[q]) = 0
    BY <1>1 DEF Init
  <2>2. TakenInv /\ QueueInv
    BY <2>1 DEF TakenInv, QueueInv, Increasing
  <2>3. ThreadInv
    BY <1>1 DEF Init, ThreadInv, Building, Lanes
  <2> QED
    BY <2>2, <2>3 DEF RelayInv
<1>2. ASSUME TypeOK, RelayInv, UNCHANGED <<pc, buf, got, queue, fwdAddr, released>>
      PROVE  RelayInv'
  <2>1. \A l \in Loops : Newest(l)' = Newest(l)
    BY <1>2 DEF Newest, Building
  <2>2. ThreadInv'
    BY <1>2 DEF RelayInv, ThreadInv, Building
  <2> QED
    BY <1>2, <2>1, <2>2, RelayFrame DEF RelayInv
<1>3. ASSUME TypeOK, RelayInv, Next PROVE RelayInv'
  <2>1. CASE Tick \/ Lock \/ \E q \in Lanes : EndDrain(q)
    BY <1>2, <1>3, <2>1 DEF Tick, Lock, EndDrain
  <2>2. CASE \E q \in Lanes : Forward(q)
    BY <1>3, <2>2, RelayForward
  <2>3. CASE \E l \in Loops : Relay(l)
    BY <1>3, <2>3, RelayRelay
  <2> QED
    BY <1>3, <2>1, <2>2, <2>3 DEF Next, Drain
<1> QED
  BY <1>1, <1>2, <1>3 DEF vars

(***************************************************************************)
(* A destination sees the datagrams of a thread in order and at most once, *)
(* for any delays, failing sends and interleaving.                         *)
(***************************************************************************)
THEOREM RelayInOrder == Spec => []InOrder
<1>1. TypeOK /\ RelayInv => InOrder
  <2> SUFFICES ASSUME TypeOK, RelayInv PROVE InOrder
    OBVIOUS
  <2>1. DOMAIN released = 1..Len(released) /\ Len(released) \in Nat
    BY DEF TypeOK
  <2> QED
    BY <2>1 DEF RelayInv, TakenInv, Increasing, InOrder
<1> QED
  BY TypeInductive, RelayInductive, <1>1, PTL DEF Spec

(***************************************************************************)
(* The uplink reaches the flight software and the multi downlink the two   *)
(* ground systems and nobody else, in every mode.                          *)
(***************************************************************************)
THEOREM OwnLanesRouted == Spec => []OwnLaneRouted
<1>1. TypeOK /\ RelayInv => OwnLaneRouted
  <2> SUFFICES ASSUME TypeOK, RelayInv PROVE OwnLaneRouted
    OBVIOUS
  <2>1. DOMAIN released = 1..Len(released)
    BY DEF TypeOK
  <2> QED
    BY <2>1 DEF RelayInv, TakenInv, OwnLaneRouted
<1> QED
  BY TypeInductive, RelayInductive, <1>1, PTL DEF Spec

(***************************************************************************)
(* No datagram passes a link known to be closed, for every criterion and   *)
(* whatever of the 42 data can be parsed.                                  *)
(***************************************************************************)
THEOREM LinksRespected == Spec => []LinkRespected
<1>1. TypeOK /\ RelayInv => LinkRespected
  <2> SUFFICES ASSUME TypeOK, RelayInv PROVE LinkRespected
    OBVIOUS
  <2>1. DOMAIN released = 1..Len(released)
    BY DEF TypeOK
  <2> QED
    BY <2>1 DEF RelayInv, TakenInv, LinkRespected
<1> QED
  BY TypeInductive, RelayInductive, <1>1, PTL DEF Spec

-----------------------------------------------------------------------------
(***************************************************************************)
(* When messages are released.  Between a tick and the end of the drain of *)
(* a queue (Pending), its head, or a message taken from it before, explains *)
(* why the head is still there; between that end and the next tick the     *)
(* head is not due yet or came after the drain.                            *)
(***************************************************************************)
Explains(m, t) == t <= m.due \/ t <= m.pushed + 1

Pending(q) ==
    CASE q = "up"    -> tick \in {"udplock", "up"}
      [] q = "down"  -> tick \in {"udplock", "up", "down"}
      [] q = "multi" -> tick # "idle"

InTime(q) ==
    \/ Explains(Head(queue[q]), now)
    \/ \E j \in 1..Len(released) :
          Lane(released[j].loop) = q /\ Explains(released[j], now)

Fresh(q) == now < Head(queue[q]).due \/ now <= Head(queue[q]).pushed

Drained(q) ==
    queue[q] # <<>> => (Pending(q) => InTime(q)) /\ (~Pending(q) => Fresh(q))

WindowInv == ReleaseWindow /\ \A q \in Lanes : Drained(q)

\* The head of a queue, and the clock.
LEMMA HeadTypes ==
    ASSUME TypeOK
    PROVE  /\ now \in Nat
           /\ \A q \in Lanes : queue[q] # <<>> =>
                 /\ Head(queue[q]) = queue[q][1] /\ Head(queue[q]) \in Queued
                 /\ Head(queue[q]).due \in Nat /\ Head(queue[q]).pushed \in Nat
           /\ DOMAIN released = 1..Len(released) /\ Len(released) \in Nat
           /\ \A j \in 1..Len(released) :
                 released[j].due \in Nat /\ released[j].pushed \in Nat
<1>1. \A S : \A s \in Seq(S) :
         /\ s # <<>> => Head(s) = s[1] /\ Head(s) \in S
         /\ DOMAIN s = 1..Len(s) /\ Len(s) \in Nat
         /\ \A j \in 1..Len(s) : s[j] \in S
  OBVIOUS
<1>2. 0..MaxTime \subseteq Nat
  BY ForwardAssumption
<1>3. \A m \in Queued : m.due \in Nat /\ m.pushed \in Nat
  BY <1>2 DEF Queued
<1>4. \A m \in Taken : m.due \in Nat /\ m.pushed \in Nat
  BY <1>2 DEF Taken
<1>5. now \in Nat /\ released \in Seq(Taken) /\ \A q \in Lanes : queue[q] \in Seq(Queued)
  BY <1>2 DEF TypeOK
<1>6. \A q \in Lanes : queue[q] # <<>> => Head(queue[q]) = queue[q][1] /\ Head(queue[q]) \in Queued
  BY <1>1, <1>5
<1>7. /\ DOMAIN released = 1..Len(released) /\ Len(released) \in Nat
      /\ \A j \in 1..Len(released) : released[j] \in Taken
  BY <1>1, <1>5
<1> QED
  BY <1>3, <1>4, <1>5, <1>6, <1>7

\* What is queued goes behind the rest, or was queued after the drain.
LEMMA WindowRelay ==
    ASSUME TypeOK, WindowInv, NEW l \in Loops, Relay(l)
    PROVE  WindowInv'
<1>1. UNCHANGED <<now, tick, released>>
  BY DEF Relay, SetRcvSock, SetFwdAddr, Receive, Stamp, Push
<1>2. ReleaseWindow'
  BY <1>1 DEF WindowInv, ReleaseWindow, Ahead
<1>3. ASSUME NEW q \in Lanes PROVE Drained(q)'
  <2>1. CASE queue'[q] = queue[q]
    BY <1>1, <2>1 DEF WindowInv, Drained, Pending, InTime, Fresh, Explains
  <2>2. CASE Push(l) /\ q = Lane(l)
    <3> DEFINE e == [loop |-> l, n |-> buf[l].n, due |-> buf[l].due, pushed |-> now,
                     link |-> buf[l].link]
    <3>1. queue'[q] = Append(queue[q], e)
      BY <2>2, LoopFacts DEF Push, TypeOK
    <3>2. queue[q] \in Seq(Queued) /\ e.pushed = now
      BY DEF TypeOK
    <3>3. CASE queue[q] = <<>>
      <4>1. Head(queue'[q]) = e
        <5> HIDE DEF e
        <5> QED
          BY <3>1, <3>3
      <4>2. Fresh(q)' /\ InTime(q)'
        <5>1. Head(queue'[q]).pushed = now' /\ now' \in Nat
          BY <1>1, <3>2, <4>1, HeadTypes
        <5> QED
          BY <5>1 DEF Fresh, InTime, Explains
      <4> QED
        BY <4>2 DEF Drained
    <3>4. CASE queue[q] # <<>>
      <4>1. Head(queue'[q]) = Head(queue[q])
        <5>1. queue[q] \in Seq(Queued \cup {e}) /\ e \in Queued \cup {e}
          BY <3>2
        <5> HIDE DEF e
        <5>2. queue[q] = <<>> \/ Head(Append(queue[q], e)) = Head(queue[q])
          BY <5>1
        <5> QED
          BY <3>1, <3>4, <5>2
      <4> QED
        BY <1>1, <3>4, <4>1 DEF WindowInv, Drained, Pending, InTime, Fresh, Explains
    <3> QED
      BY <3>3, <3>4
  <2>3. queue'[q] = queue[q] \/ (Push(l) /\ q = Lane(l))
    BY DEF Relay, SetRcvSock, SetFwdAddr, Receive, Stamp, Push, TypeOK
  <2> QED
    BY <2>1, <2>2, <2>3
<1> QED
  BY <1>2, <1>3 DEF WindowInv

\* A message is taken out: what explained that it was still there explains the
\* time at which it goes, and why the next one is still there.
LEMMA WindowForward ==
    ASSUME TypeOK, RelayInv, WindowInv, NEW q \in Lanes, Forward(q)
    PROVE  WindowInv'
<1>1. /\ tick = q /\ queue[q] # <<>> /\ Head(queue[q]).due <= now
      /\ queue' = [queue EXCEPT ![q] = Tail(@)]
      /\ UNCHANGED <<now, tick>>
  BY DEF Forward, Due
<1>2. PICK D \in SUBSET fwdAddr[q] :
         released' = Append(released, Record(Head(queue[q]), D))
  BY ForwardFacts
<1> DEFINE h == Head(queue[q])
           n == Len(released) + 1
<1>3. /\ Len(released') = n /\ n \in Nat /\ n \in 1..n
      /\ \A i \in 1..Len(released) : released'[i] = released[i]
      /\ released'[n].loop = h.loop /\ released'[n].due = h.due
      /\ released'[n].pushed = h.pushed /\ released'[n].at = now
  <2> DEFINE x == Record(Head(queue[q]), D)
  <2>1. x.loop = h.loop /\ x.due = h.due /\ x.pushed = h.pushed /\ x.at = now
    BY DEF Record
  <2> HIDE DEF x
  <2>2. Len(released') = n /\ n \in Nat /\ released'[n] = x
        /\ \A i \in 1..Len(released) : released'[i] = released[i]
    BY <1>2 DEF TypeOK, x
  <2> QED
    BY <2>1, <2>2
<1>4. Lane(h.loop) = q
  <2>1. 1 \in 1..Len(queue[q]) /\ h = queue[q][1]
    BY <1>1 DEF TypeOK
  <2> QED
    BY <2>1 DEF RelayInv, QueueInv
<1>5. Pending(q) /\ InTime(q)
  <2>1. Pending(q)
    BY <1>1 DEF Pending, Lanes
  <2> QED
    BY <1>1, <2>1 DEF WindowInv, Drained
<1>6. PICK j \in 1..n : Lane(released'[j].loop) = q /\ Explains(released'[j], now)
  <2>1. CASE Explains(h, now)
    BY <1>3, <1>4, <2>1 DEF Explains
  <2>2. ASSUME NEW j \in 1..Len(released),
               Lane(released[j].loop) = q, Explains(released[j], now)
        PROVE  \E k \in 1..n : Lane(released'[k].loop) = q /\ Explains(released'[k], now)
    <3>1. j \in 1..n /\ released'[j] = released[j]
      BY <1>3
    <3> QED
      BY <2>2, <3>1
  <2> QED
    BY <1>5, <2>1, <2>2 DEF InTime
<1>7. ReleaseWindow'
  <2> SUFFICES ASSUME NEW i \in 1..n
               PROVE  (/\ released[i].due <= released[i].at
                       /\ \E k \in Ahead(i) : \/ released[i].at <= released[k].due
                                              \/ released[i].at <= released[k].pushed + 1)'
    <3>1. DOMAIN released' = 1..n
      BY <1>2, <1>3, HeadTypes DEF TypeOK
    <3> QED
      BY <3>1 DEF ReleaseWindow
  <2>1. CASE i \in 1..Len(released)
    <3>1. i \in DOMAIN released
      BY <2>1, HeadTypes
    <3>2. PICK k \in Ahead(i) : \/ released[i].at <= released[k].due
                                \/ released[i].at <= released[k].pushed + 1
      BY <3>1 DEF WindowInv, ReleaseWindow
    <3>3. k \in 1..i /\ k \in 1..Len(released) /\ Lane(released[k].loop) = Lane(released[i].loop)
      BY <2>1, <3>2, HeadTypes DEF Ahead
    <3>4. released'[i] = released[i] /\ released'[k] = released[k]
      BY <1>3, <2>1, <3>3
    <3>5. k \in Ahead(i)'
      BY <3>3, <3>4 DEF Ahead
    <3> QED
      BY <3>1, <3>2, <3>4, <3>5 DEF WindowInv, ReleaseWindow
  <2>2. CASE i = n
    <3>1. j \in Ahead(i)'
      BY <1>3, <1>4, <1>6, <2>2 DEF Ahead
    <3>2. /\ released'[i].due <= released'[i].at
          /\ released'[i].at <= released'[j].due \/ released'[i].at <= released'[j].pushed + 1
      BY <1>1, <1>3, <1>6, <2>2 DEF Explains
    <3> QED
      BY <3>1, <3>2
  <2> QED
    BY <1>3, <2>1, <2>2
<1>8. ASSUME NEW r \in Lanes PROVE Drained(r)'
  <2>1. CASE r = q
    <3>1. InTime(q)'
      BY <1>1, <1>3, <1>6 DEF InTime, Explains
    <3>2. Pending(q)'
      BY <1>1, <1>5 DEF Pending
    <3> QED
      BY <2>1, <3>1, <3>2 DEF Drained
  <2>2. CASE r # q
    <3>1. queue'[r] = queue[r] /\ (Pending(r)' <=> Pending(r))
      BY <1>1, <2>2 DEF Pending, TypeOK
    <3>2. InTime(r) => InTime(r)'
      <4>1. \A k \in 1..Len(released) : k \in 1..Len(released') /\ released'[k] = released[k]
        BY <1>3
      <4> QED
        BY <1>1, <3>1, <4>1 DEF InTime, Explains
    <3> QED
      BY <1>1, <3>1, <3>2 DEF WindowInv, Drained, Fresh
  <2> QED
    BY <2>1, <2>2
<1> QED
  BY <1>7, <1>8 DEF WindowInv

\* The clock moves by one at most, and a drain ends at a head that is not due.
LEMMA WindowTick ==
    ASSUME TypeOK, WindowInv, Tick \/ Lock \/ \E q \in Lanes : EndDrain(q)
    PROVE  WindowInv'
<1>1. UNCHANGED <<queue, released>>
  BY DEF Tick, Lock, EndDrain
<1>2. ReleaseWindow'
  BY <1>1 DEF WindowInv, ReleaseWindow, Ahead
<1>3. ASSUME Tick, NEW q \in Lanes PROVE Drained(q)'
  <2>1. now' <= now + 1 /\ now \in Nat /\ now' \in Nat
    BY <1>3, ForwardAssumption, HeadTypes DEF Tick, Capped, TypeOK
  <2>2. ~Pending(q)
    BY <1>3 DEF Tick, Pending, Lanes
  <2>3. Pending(q)'
    BY <1>3 DEF Tick, Pending, Lanes
  <2>4. queue[q] # <<>> => Explains(Head(queue[q]), now')
    <3>1. ASSUME queue[q] # <<>> PROVE Explains(Head(queue[q]), now')
      <4>1. now < Head(queue[q]).due \/ now <= Head(queue[q]).pushed
        BY <2>2, <3>1 DEF WindowInv, Drained, Fresh
      <4>2. Head(queue[q]).due \in Nat /\ Head(queue[q]).pushed \in Nat
        BY <3>1, HeadTypes
      <4> QED
        BY <2>1, <4>1, <4>2 DEF Explains
    <3> QED
      BY <3>1
  <2> QED
    BY <1>1, <2>3, <2>4 DEF Drained, InTime, Explains
<1>4. ASSUME Lock, NEW q \in Lanes PROVE Drained(q)'
  <2>1. now' = now /\ (Pending(q)' <=> Pending(q))
    BY <1>4 DEF Lock, Pending, Lanes
  <2> QED
    BY <1>1, <2>1 DEF WindowInv, Drained, InTime, Fresh, Explains
<1>5. ASSUME NEW r \in Lanes, EndDrain(r), NEW q \in Lanes PROVE Drained(q)'
  <2>1. now' = now /\ tick = r /\ ~Due(r) /\ tick' = NextStage(r)
    BY <1>5 DEF EndDrain
  <2>2. CASE q = r
    <3>1. queue[q] # <<>> => Fresh(q)
      BY <2>1, <2>2, HeadTypes DEF Due, Fresh
    <3>2. ~Pending(q)'
      BY <2>1, <2>2 DEF Pending, NextStage, Lanes
    <3> QED
      BY <1>1, <2>1, <3>1, <3>2 DEF Drained, Fresh
  <2>3. CASE q # r
    <3>1. Pending(q)' <=> Pending(q)
      BY <2>1, <2>3 DEF Pending, NextStage, Lanes
    <3> QED
      BY <1>1, <2>1, <3>1 DEF WindowInv, Drained, InTime, Fresh, Explains
  <2> QED
    BY <2>2, <2>3
<1> QED
  BY <1>2, <1>3, <1>4, <1>5 DEF WindowInv

(***************************************************************************)
(* No message leaves early, and none later than the tick that the messages *)
(* ahead of it explain, for any delays and in every mode.                  *)
(***************************************************************************)
THEOREM ReleasedInWindow == Spec => []ReleaseWindow
<1>1. Init => WindowInv
  BY DEF Init, WindowInv, ReleaseWindow, Drained
<1>2. TypeOK /\ RelayInv /\ WindowInv /\ [Next]_vars => WindowInv'
  <2>1. TypeOK /\ WindowInv /\ UNCHANGED vars => WindowInv'
    BY DEF vars, WindowInv, ReleaseWindow, Ahead, Drained, Pending, InTime, Fresh, Explains
  <2> QED
    BY <2>1, WindowRelay, WindowForward, WindowTick DEF Next, Drain
<1>3. WindowInv => ReleaseWindow
  BY DEF WindowInv
<1> QED
  BY TypeInductive, RelayInductive, <1>1, <1>2, <1>3, PTL DEF Spec
-----------------------------------------------------------------------------
(***************************************************************************)
(* From every thread to every destination the relay is a lossy pipe, the   *)
(* same abstraction that TcpBridge implements.  The items are the          *)
(* datagrams the thread received; a delivery is a message that was taken   *)
(* from a queue and whose send to that destination worked.                 *)
(***************************************************************************)
Reached(l, d) ==
    {i \in DOMAIN released : released[i].loop = l /\ d \in released[i].to}
Numbers(l, d) == {released[i].n : i \in Reached(l, d)}
NewestTo(l, d) == Max({0} \cup Numbers(l, d))
CountTo(l, d) == Cardinality(Reached(l, d))

Pipe(l, d) == INSTANCE LossyPipe WITH offered <- got[l],
                  newest <- NewestTo(l, d), deliveries <- CountTo(l, d)

(***************************************************************************)
(* Datagrams are numbered from 1, so the first delivery is a later item    *)
(* than none.                                                              *)
(***************************************************************************)
NumberedInv ==
    /\ \A l \in Loops : Building(l) => got[l] > 0
    /\ \A q \in Lanes : \A i \in 1..Len(queue[q]) : queue[q][i].n > 0

\* The largest of a set is the one that none of it exceeds.
LEMMA MaxIs ==
    ASSUME NEW S, S \subseteq Nat, NEW m \in S, \A x \in S : x <= m
    PROVE  Max(S) = m
<1>1. \A x \in S : m >= x
  OBVIOUS
<1>2. Max(S) \in S /\ \A x \in S : Max(S) >= x
  BY <1>1 DEF Max
<1>3. Max(S) \in Nat /\ m \in Nat /\ Max(S) >= m /\ Max(S) <= m
  BY <1>2
<1> QED
  BY <1>3

\* The entries that reached a destination, and their numbers.
LEMMA ReachedFacts ==
    ASSUME TypeOK, NEW l \in Loops, NEW d
    PROVE  /\ IsFiniteSet(Reached(l, d))
           /\ Reached(l, d) \subseteq 1..Len(released)
           /\ Numbers(l, d) \subseteq Nat
<1>1. DOMAIN released = 1..Len(released) /\ Len(released) \in Nat
  BY DEF TypeOK
<1>2. IsFiniteSet(1..Len(released))
  BY <1>1, FS_Interval
<1>3. Reached(l, d) \subseteq 1..Len(released)
  BY <1>1 DEF Reached
<1>4. IsFiniteSet(Reached(l, d))
  BY <1>2, <1>3, FS_Subset
<1> QED
  BY <1>3, <1>4, EntryTypes DEF Numbers

\* A finite set of numbers has a largest; that Numbers has one is carried along.
Latest(l, d) ==
    \E m \in {0} \cup Numbers(l, d) : \A n \in {0} \cup Numbers(l, d) : n <= m

\* The last delivery was of an older item than one above all that arrived.
LEMMA NewestBelow ==
    ASSUME TypeOK, NEW l \in Loops, NEW d, Latest(l, d), NEW n \in Nat, n > 0,
           \A m \in Numbers(l, d) : m < n
    PROVE  NewestTo(l, d) \in Nat /\ NewestTo(l, d) < n
<1>1. PICK m \in {0} \cup Numbers(l, d) : \A y \in {0} \cup Numbers(l, d) : y <= m
  BY DEF Latest
<1>2. {0} \cup Numbers(l, d) \subseteq Nat
  BY ReachedFacts
<1>3. NewestTo(l, d) = m
  BY <1>1, <1>2, MaxIs DEF NewestTo
<1> QED
  BY <1>1, <1>2, <1>3

\* NumberedInv is inductive.
LEMMA NumberedInductive ==
    /\ Init => NumberedInv
    /\ TypeOK /\ RelayInv /\ NumberedInv /\ [Next]_vars => NumberedInv'
<1>1. ASSUME Init PROVE NumberedInv
  BY <1>1 DEF Init, NumberedInv, Building, Lanes
<1>2. ASSUME TypeOK, NumberedInv, UNCHANGED <<pc, got, queue>> PROVE NumberedInv'
  BY <1>2 DEF NumberedInv, Building
<1>3. ASSUME TypeOK, RelayInv, NumberedInv, NEW l \in Loops, Relay(l)
      PROVE  NumberedInv'
  <2>1. CASE SetRcvSock(l) \/ SetFwdAddr(l)
    BY <1>3, <2>1 DEF SetRcvSock, SetFwdAddr, NumberedInv, Building, TypeOK
  <2>2. CASE Receive(l)
    <3>1. got' = [got EXCEPT ![l] = @ + 1] /\ UNCHANGED queue
          /\ (pc' = pc \/ pc' = [pc EXCEPT ![l] = "stamp"])
      BY <2>2 DEF Receive
    <3> QED
      BY <1>3, <3>1 DEF NumberedInv, Building, TypeOK
  <2>3. CASE Stamp(l)
    BY <1>3, <2>3 DEF Stamp, NumberedInv, Building, TypeOK
  <2>4. CASE Push(l)
    <3> DEFINE e == [loop |-> l, n |-> buf[l].n, due |-> buf[l].due, pushed |-> now,
                     link |-> buf[l].link]
    <3>1. /\ pc[l] = "push" /\ pc' = [pc EXCEPT ![l] = "recv"] /\ UNCHANGED got
          /\ queue' = [queue EXCEPT ![Lane(l)] = Append(@, e)]
      BY <2>4 DEF Push
    <3>2. Building(l)
      BY <3>1 DEF Building
    <3>3. buf[l].n = got[l] /\ got[l] > 0
      BY <1>3, <3>2 DEF RelayInv, ThreadInv, NumberedInv
    <3>4. \A k \in Loops : Building(k)' => got[k]' > 0
      BY <1>3, <3>1 DEF NumberedInv, Building, TypeOK
    <3>5. \A q \in Lanes : q # Lane(l) => queue'[q] = queue[q]
      BY <1>3, <3>1 DEF TypeOK
    <3>6. /\ Len(queue'[Lane(l)]) = Len(queue[Lane(l)]) + 1
          /\ Len(queue[Lane(l)]) \in Nat
          /\ queue'[Lane(l)][Len(queue[Lane(l)]) + 1] = e
          /\ \A i \in 1..Len(queue[Lane(l)]) :
                queue'[Lane(l)][i] = queue[Lane(l)][i]
      BY <1>3, <3>1, LoopFacts DEF TypeOK
    <3>7. e.n > 0
      BY <3>3
    <3> HIDE DEF e
    <3>8. \A q \in Lanes : \A i \in 1..Len(queue'[q]) : queue'[q][i].n > 0
      BY <1>3, <3>5, <3>6, <3>7 DEF NumberedInv
    <3> QED
      BY <3>4, <3>8 DEF NumberedInv
  <2> QED
    BY <1>3, <2>1, <2>2, <2>3, <2>4 DEF Relay
<1>4. ASSUME TypeOK, NumberedInv, NEW q \in Lanes, Forward(q)
      PROVE  NumberedInv'
  <2>1. /\ queue[q] # <<>> /\ queue' = [queue EXCEPT ![q] = Tail(@)]
        /\ UNCHANGED <<pc, got>>
    BY <1>4 DEF Forward, Due
  <2>2. /\ Len(queue'[q]) = Len(queue[q]) - 1 /\ Len(queue[q]) \in Nat
        /\ \A i \in 1..Len(queue'[q]) : queue'[q][i] = queue[q][i + 1]
        /\ \A r \in Lanes : r # q => queue'[r] = queue[r]
    BY <1>4, <2>1 DEF TypeOK
  <2>3. \A r \in Lanes : \A i \in 1..Len(queue'[r]) : queue'[r][i].n > 0
    <3> SUFFICES ASSUME NEW r \in Lanes, NEW i \in 1..Len(queue'[r])
                 PROVE  queue'[r][i].n > 0
      OBVIOUS
    <3>1. CASE r = q
      <4>1. i + 1 \in 1..Len(queue[q])
        BY <2>2, <3>1
      <4> QED
        BY <1>4, <2>2, <3>1, <4>1 DEF NumberedInv
    <3>2. CASE r # q
      BY <1>4, <2>2, <3>2 DEF NumberedInv
    <3> QED
      BY <3>1, <3>2
  <2> QED
    BY <1>4, <2>1, <2>3 DEF NumberedInv, Building
<1>5. ASSUME TypeOK, RelayInv, NumberedInv, Next PROVE NumberedInv'
  <2>1. CASE Tick \/ Lock \/ \E q \in Lanes : EndDrain(q)
    BY <1>2, <1>5, <2>1 DEF Tick, Lock, EndDrain
  <2>2. CASE \E q \in Lanes : Forward(q)
    BY <1>4, <1>5, <2>2
  <2>3. CASE \E l \in Loops : Relay(l)
    BY <1>3, <1>5, <2>3
  <2> QED
    BY <1>5, <2>1, <2>2, <2>3 DEF Next, Drain
<1> QED
  BY <1>1, <1>2, <1>5 DEF vars

\* A step that releases nothing is an offer or nothing, for every pipe.
LEMMA OtherStepIsPipeStep ==
    ASSUME TypeOK, UNCHANGED released, NEW l \in Loops, NEW d, Latest(l, d),
           got'[l] = got[l] \/ got'[l] = got[l] + 1
    PROVE  [Pipe(l, d)!PipeNext]_(Pipe(l, d)!pipeVars) /\ Latest(l, d)'
<1>1. UNCHANGED <<NewestTo(l, d), CountTo(l, d)>> /\ Latest(l, d)'
  BY DEF NewestTo, CountTo, Numbers, Reached, Latest
<1> QED
  BY <1>1 DEF Pipe!PipeNext, Pipe!Offer, Pipe!pipeVars

\* A message taken from a queue is a delivery to each destination it reaches.
LEMMA ForwardIsPipeStep ==
    ASSUME TypeOK, TypeOK', RelayInv, NumberedInv, NEW q \in Lanes, Forward(q),
           NEW l \in Loops, NEW d, Latest(l, d)
    PROVE  [Pipe(l, d)!PipeNext]_(Pipe(l, d)!pipeVars) /\ Latest(l, d)'
<1>1. queue[q] # <<>> /\ UNCHANGED got
  BY DEF Forward, Due
<1>2. PICK D \in SUBSET fwdAddr[q] :
         /\ Head(queue[q]) \in Queued
         /\ Head(queue[q]) = queue[q][1]
         /\ Record(Head(queue[q]), D) \in Taken
         /\ released' = Append(released, Record(Head(queue[q]), D))
  BY ForwardFacts
<1> DEFINE h == Head(queue[q])
           x == Record(h, D)
           k == Len(released) + 1
<1>3. x.loop = h.loop /\ x.n = h.n /\ x.to = D /\ h.loop \in Loops /\ h.n \in Nat
  BY <1>2 DEF Record, Queued
<1>4. 1 \in 1..Len(queue[q]) /\ h = queue[q][1]
  BY <1>1, <1>2 DEF TypeOK
<1>5. /\ h.n > 0 /\ h.n <= Newest(h.loop)
      /\ \A j \in 1..Len(released) : released[j].loop = h.loop => released[j].n < h.n
  BY <1>4 DEF RelayInv, QueueInv, NumberedInv
<1>6. h.n <= got[h.loop] /\ got[h.loop] \in Nat
  BY <1>3, <1>5 DEF Newest, TypeOK
<1>7. /\ DOMAIN released = 1..Len(released) /\ DOMAIN released' = 1..k
      /\ Len(released) \in Nat /\ released'[k] = x
      /\ \A i \in 1..Len(released) : released'[i] = released[i]
  BY <1>2 DEF TypeOK
<1> HIDE DEF h, x
<1>8. CASE x.loop = l /\ d \in x.to
  <2>1. Reached(l, d)' = Reached(l, d) \cup {k}
    BY <1>7, <1>8 DEF Reached
  <2>2. k \notin Reached(l, d) /\ IsFiniteSet(Reached(l, d))
    BY <1>7, ReachedFacts
  <2>3. CountTo(l, d)' = CountTo(l, d) + 1
    BY <2>1, <2>2, FS_AddElement DEF CountTo
  <2>4. Numbers(l, d)' = Numbers(l, d) \cup {h.n}
    BY <1>3, <1>7, <2>1, ReachedFacts DEF Numbers
  <2>5. Numbers(l, d) \subseteq Nat /\ \A n \in Numbers(l, d) : n < h.n
    BY <1>3, <1>5, <1>8, ReachedFacts DEF Numbers, Reached
  <2>6. NewestTo(l, d)' = h.n
    <3> DEFINE S == {0} \cup Numbers(l, d)'
    <3>1. S \subseteq Nat /\ h.n \in S /\ \A n \in S : n <= h.n
      BY <1>3, <1>5, <2>4, <2>5
    <3>2. Max(S) = h.n
      <4> HIDE DEF S
      <4> QED
        BY <3>1, MaxIs
    <3> QED
      BY <3>1, <3>2 DEF NewestTo
  <2>7. NewestTo(l, d) \in Nat /\ NewestTo(l, d) < h.n
    BY <1>3, <1>5, <2>5, NewestBelow
  <2>8. h.n \in (NewestTo(l, d) + 1)..got[l]
    BY <1>3, <1>6, <1>8, <2>7
  <2>9. Latest(l, d)'
    <3>1. h.n \in {0} \cup Numbers(l, d)'
          /\ \A n \in {0} \cup Numbers(l, d)' : n <= h.n
      BY <1>3, <1>5, <2>4, <2>5
    <3> QED
      BY <3>1 DEF Latest
  <2> QED
    BY <1>1, <2>3, <2>6, <2>8, <2>9 DEF Pipe!PipeNext, Pipe!Deliver
<1>9. CASE ~(x.loop = l /\ d \in x.to)
  <2>1. Reached(l, d)' = Reached(l, d)
    BY <1>7, <1>9 DEF Reached
  <2>2. Numbers(l, d)' = Numbers(l, d)
    BY <1>7, <2>1, ReachedFacts DEF Numbers
  <2> QED
    BY <1>1, <2>1, <2>2 DEF Pipe!pipeVars, NewestTo, CountTo, Latest
<1> QED
  BY <1>8, <1>9

(***************************************************************************)
(* Each relay thread and destination are a lossy pipe, in every mode and   *)
(* whatever the delays: a destination sees datagrams the thread received,  *)
(* in the order in which it received them and none of them twice, although *)
(* times are stamped outside the mutex, lanes are shared, addresses change *)
(* while the threads start and one of the two sends of a message may fail. *)
(***************************************************************************)
THEOREM RelaysArePipes ==
    ASSUME NEW l \in Loops, NEW d \in Dest
    PROVE  Spec => Pipe(l, d)!PipeSpec
<1> DEFINE Inv == TypeOK /\ RelayInv /\ NumberedInv
<1>1. Init => Inv /\ Latest(l, d) /\ Pipe(l, d)!PipeInit
  <2> SUFFICES ASSUME Init PROVE Inv /\ Latest(l, d) /\ Pipe(l, d)!PipeInit
    OBVIOUS
  <2>1. Inv
    BY TypeInductive, RelayInductive, NumberedInductive
  <2>2. Reached(l, d) = {} /\ Numbers(l, d) = {} /\ got[l] = 0
    BY DEF Init, Reached, Numbers
  <2>3. NewestTo(l, d) = 0
    BY <2>2, MaxIs DEF NewestTo
  <2>4. CountTo(l, d) = 0
    BY <2>2, FS_EmptySet DEF CountTo
  <2> QED
    BY <2>1, <2>2, <2>3, <2>4 DEF Pipe!PipeInit, Latest
<1>2. Inv /\ [Next]_vars => Inv'
  BY TypeInductive, RelayInductive, NumberedInductive
<1>3. Inv /\ Inv' /\ Latest(l, d) /\ [Next]_vars =>
         [Pipe(l, d)!PipeNext]_(Pipe(l, d)!pipeVars) /\ Latest(l, d)'
  <2> SUFFICES ASSUME Inv, Inv', Latest(l, d), [Next]_vars
               PROVE  [Pipe(l, d)!PipeNext]_(Pipe(l, d)!pipeVars) /\ Latest(l, d)'
    OBVIOUS
  <2>1. CASE UNCHANGED vars \/ Tick \/ Lock \/ \E q \in Lanes : EndDrain(q)
    <3>1. UNCHANGED <<got, released>>
      BY <2>1 DEF vars, Tick, Lock, EndDrain
    <3> QED
      BY <3>1, OtherStepIsPipeStep
  <2>2. CASE \E q \in Lanes : Forward(q)
    BY <2>2, ForwardIsPipeStep
  <2>3. CASE \E m \in Loops : Relay(m)
    <3>1. UNCHANGED released /\ (got'[l] = got[l] \/ got'[l] = got[l] + 1)
      BY <2>3 DEF Relay, SetRcvSock, SetFwdAddr, Receive, Stamp, Push, TypeOK
    <3> QED
      BY <3>1, OtherStepIsPipeStep
  <2> QED
    BY <2>1, <2>2, <2>3 DEF Next, Drain
<1> QED
  BY <1>1, <1>2, <1>3, PTL DEF Spec, Pipe!PipeSpec

(***************************************************************************)
(* What follows from being a pipe: a destination has had no more datagrams *)
(* of a thread than the thread received up to the newest of them.          *)
(***************************************************************************)
Accounted(l, d) ==
    CountTo(l, d) <= NewestTo(l, d) /\ NewestTo(l, d) <= got[l]

THEOREM NothingDuplicated ==
    ASSUME NEW l \in Loops, NEW d \in Dest
    PROVE  Spec => []Accounted(l, d)
<1> DEFINE Nats == CountTo(l, d) \in Nat /\ NewestTo(l, d) \in Nat
<1>1. Pipe(l, d)!PipeInit => Nats /\ Accounted(l, d)
  BY DEF Pipe!PipeInit, Accounted
<1>2. TypeOK /\ TypeOK' /\ Nats /\ Accounted(l, d)
      /\ [Pipe(l, d)!PipeNext]_(Pipe(l, d)!pipeVars)
         => Nats' /\ Accounted(l, d)'
  <2> SUFFICES ASSUME TypeOK, TypeOK', Nats, Accounted(l, d),
                      [Pipe(l, d)!PipeNext]_(Pipe(l, d)!pipeVars)
               PROVE  Nats' /\ Accounted(l, d)'
    OBVIOUS
  <2>1. got[l] \in Nat /\ got[l]' \in Nat
    BY DEF TypeOK
  <2>2. CASE Pipe(l, d)!Offer
    BY <2>1, <2>2 DEF Pipe!Offer, Accounted
  <2>3. CASE Pipe(l, d)!Deliver
    <3>1. NewestTo(l, d)' \in (NewestTo(l, d) + 1)..got[l]
          /\ CountTo(l, d)' = CountTo(l, d) + 1 /\ got[l]' = got[l]
      BY <2>3 DEF Pipe!Deliver
    <3> QED
      BY <2>1, <3>1 DEF Accounted
  <2>4. CASE UNCHANGED Pipe(l, d)!pipeVars
    BY <2>4 DEF Pipe!pipeVars, Accounted
  <2> QED
    BY <2>2, <2>3, <2>4 DEF Pipe!PipeNext
<1> QED
  BY <1>1, <1>2, RelaysArePipes, RelayTypeCorrect, PTL DEF Pipe!PipeSpec
=============================================================================

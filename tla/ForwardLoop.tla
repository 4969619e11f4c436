---------------------------- MODULE ForwardLoop ----------------------------
(***************************************************************************)
(* The UDP relay of class Generic_radioHardwareModel.  One thread per      *)
(* direction receives datagrams, drops those that arrive while the link is *)
(* closed, stamps the others with the time they are due and queues them.   *)
(* The NOS Engine thread drains the queues on every time tick and sends to *)
(* the address it finds, at that moment, in the members the threads filled *)
(* in when they started.                                                   *)
(*                                                                         *)
(* The threads that run depend on MULTI_GDS and TCP_GROUND (Mode): in      *)
(* "tcp" mode only the two crosslink threads use this code.  The relay     *)
(* threads never end, since nothing clears _keep_running.                  *)
(***************************************************************************)
EXTENDS LinkState, Sequences, Functions

CONSTANTS Mode,        \* "udp", "multi" or "tcp"
          Resolvable,  \* destinations whose host name resolves
          Faulty,      \* TRUE: sendto may fail
          MaxReceived, \* BOUND: datagrams received in all
          MaxTime      \* BOUND: every later time is taken for MaxTime

Dest == {"fsw_ci", "gsw_tlm", "gsw2_tlm", "prox_fsw", "prox_dest"}
Lanes == {"up", "down", "multi"}

\* The threads the constructor starts.
Loops == {"proxIn", "proxOut"}
            \cup (IF Mode = "udp" THEN {"up", "down"} ELSE {})
            \cup (IF Mode = "multi" THEN {"up", "multi"} ELSE {})

ASSUME ForwardAssumption ==
    /\ Mode \in {"udp", "multi", "tcp"}
    /\ Resolvable \subseteq Dest
    /\ Faulty \in BOOLEAN
    /\ MaxReceived \in Nat
    /\ MaxTime \in Nat

VARIABLES now,      \* the time of the bus
          tick,     \* where the thread that handles the time ticks stands
          pc,       \* where each relay thread stands
          buf,      \* the message each relay thread is building
          got,      \* history: number of datagrams each thread has received
          queue,    \* the message queue of each lane
          rcvSock,  \* _rcv_sock_..., by the thread whose socket it is
          fwdAddr,  \* _fwd_addr_..., a set: the multi lane has two addresses
          released  \* history: the messages taken from the queues

vars == <<now, tick, pc, buf, got, queue, rcvSock, fwdAddr, released>>

Capped(t) == IF t > MaxTime THEN MaxTime ELSE t

\* Where a thread is told to forward to.
Targets(l) ==
    CASE l = "up"      -> {"fsw_ci"}
      [] l = "down"    -> {"gsw_tlm"}
      [] l = "multi"   -> {"gsw_tlm", "gsw2_tlm"}
      [] l = "proxIn"  -> {"prox_fsw"}
      [] l = "proxOut" -> {"prox_dest"}

\* sin_addr is left uninitialised (zero in the multi lane) when a name does not resolve.
Resolved(D) == {IF d \in Resolvable THEN d ELSE "garbage" : d \in D}

\* Mutant of Lane: every direction but 0 is taken for an uplink.
LaneNonzero(l) ==
    IF l = "multi" THEN "multi" ELSE IF l = "down" THEN "down" ELSE "up"

\* direction = 1 selects the uplink's queue and members, anything else the
\* downlink's: the crosslink threads (-1) share those of the downlink.
Lane(l) ==
    IF l = "multi" THEN "multi" ELSE IF l = "up" THEN "up" ELSE "down"

\* The direction whose link state and delay a thread applies.
Direction(l) == IF l = "up" THEN "uplink" ELSE "downlink"

Idle == [n |-> 0, delay |-> 0, due |-> 0, link |-> "open"]

Init ==
    /\ now = 0
    /\ tick = "idle"
    /\ pc = [l \in Loops |-> "slotsock"]
    /\ buf = [l \in Loops |-> Idle]
    /\ got = [l \in Loops |-> 0]
    /\ queue = [q \in Lanes |-> <<>>]
    /\ rcvSock = [q \in Lanes |-> "none"]
    /\ fwdAddr = [q \in Lanes |-> {}]
    /\ released = <<>>

-----------------------------------------------------------------------------
(* The relay threads.                                                      *)

\* Mutant of SetRcvSock: the thread starts to receive before it has written
\* the forwarding address.
SetRcvSockOnly(l) ==
    /\ pc[l] = "slotsock"
    /\ rcvSock' = [rcvSock EXCEPT ![Lane(l)] = l]
    /\ pc' = [pc EXCEPT ![l] = "recv"]
    /\ UNCHANGED <<now, tick, buf, got, queue, fwdAddr, released>>

SetRcvSock(l) ==
    /\ pc[l] = "slotsock"
    /\ rcvSock' = [rcvSock EXCEPT ![Lane(l)] = l]
    /\ pc' = [pc EXCEPT ![l] = "slotaddr"]
    /\ UNCHANGED <<now, tick, buf, got, queue, fwdAddr, released>>

SetFwdAddr(l) ==
    /\ pc[l] = "slotaddr"
    /\ fwdAddr' = [fwdAddr EXCEPT ![Lane(l)] = Resolved(Targets(l))]
    /\ pc' = [pc EXCEPT ![l] = "recv"]
    /\ UNCHANGED <<now, tick, buf, got, queue, rcvSock, released>>

CanReceive == FoldFunction(+, 0, got) < MaxReceived

\* Mutant of Receive: delay is not reset, and keeps an arbitrary value.
ReceiveUnset(l) ==
    /\ pc[l] = "recv"
    /\ CanReceive
    /\ got' = [got EXCEPT ![l] = @ + 1]
    /\ buf' = [buf EXCEPT ![l] = [n |-> got[l] + 1, delay |-> MaxTime + 1, due |-> 0,
                                    link |-> "open"]]
    /\ pc' = [pc EXCEPT ![l] = "stamp"]
    /\ UNCHANGED <<now, tick, queue, rcvSock, fwdAddr, released>>

\* recvfrom(), then the delay and the state of the link are read from a data
\* point whose parsing stored n of its six values.
Receive(l) ==
    /\ pc[l] = "recv"
    /\ CanReceive
    /\ got' = [got EXCEPT ![l] = @ + 1]
    /\ \E link \in Link, n \in 0..6 :
          LET d == Direction(l)
              v == View(link, Stored(d, n))
          IN  IF Capable(d, v)
                 THEN /\ \E t \in LightTime(d, v) :
                            buf' = [buf EXCEPT ![l] =
                                      [n |-> got[l] + 1, delay |-> t, due |-> 0,
                                       link |-> Verdict(d, link, Stored(d, n))]]
                      /\ pc' = [pc EXCEPT ![l] = "stamp"]
                 ELSE UNCHANGED <<buf, pc>>
    /\ UNCHANGED <<now, tick, queue, rcvSock, fwdAddr, released>>

\* time_to_send, from the time of the bus: the mutex is not held yet.
Stamp(l) ==
    /\ pc[l] = "stamp"
    /\ buf' = [buf EXCEPT ![l].due = Capped(now + buf[l].delay)]
    /\ pc' = [pc EXCEPT ![l] = "push"]
    /\ UNCHANGED <<now, tick, got, queue, rcvSock, fwdAddr, released>>

\* The uplink and the downlink queue share a mutex, the multi queue has its own.
Locked(q) == IF q = "multi" THEN tick = "multi" ELSE tick \in {"up", "down"}

Push(l) ==
    /\ pc[l] = "push"
    /\ ~Locked(Lane(l))
    /\ queue' = [queue EXCEPT ![Lane(l)] =
                    Append(@, [loop |-> l, n |-> buf[l].n, due |-> buf[l].due,
                               pushed |-> now, link |-> buf[l].link])]
    /\ buf' = [buf EXCEPT ![l] = Idle]
    /\ pc' = [pc EXCEPT ![l] = "recv"]
    /\ UNCHANGED <<now, tick, got, rcvSock, fwdAddr, released>>

\* forward_loop and forward_loop_multi take the same steps, on different members.
Relay(l) ==
    \/ SetRcvSock(l) \/ SetFwdAddr(l)
    \/ Receive(l) \/ Stamp(l) \/ Push(l)

-----------------------------------------------------------------------------
(* The thread that handles the time ticks: the UDP callback, then (after   *)
(* the TCP one, which is not part of this module) the multi callback.      *)

Tick ==
    /\ tick = "idle"
    /\ now' = Capped(now + 1)
    /\ tick' = "udplock"
    /\ UNCHANGED <<pc, buf, got, queue, rcvSock, fwdAddr, released>>

Lock ==
    /\ tick \in {"udplock", "multilock"}
    /\ tick' = IF tick = "udplock" THEN "up" ELSE "multi"
    /\ UNCHANGED <<now, pc, buf, got, queue, rcvSock, fwdAddr, released>>

Due(q) == queue[q] # <<>> /\ Head(queue[q]).due <= now

\* What is recorded of a message taken from a queue: when, and whom it reached.
Record(m, D) == [loop |-> m.loop, n |-> m.n, due |-> m.due, pushed |-> m.pushed,
                 link |-> m.link, at |-> now, to |-> D]

\* The destinations a message sent to D reaches.
Outcomes(D) == IF Faulty THEN SUBSET D ELSE {D}

\* Mutant of Forward: a message stays queued until every sendto succeeded.
ForwardRetry(q) ==
    /\ tick = q
    /\ Due(q)
    /\ \E D \in Outcomes(fwdAddr[q]) :
          /\ released' = Append(released, Record(Head(queue[q]), D))
          /\ queue' = IF D = fwdAddr[q] THEN [queue EXCEPT ![q] = Tail(@)] ELSE queue
    /\ Len(released) < 2 * MaxReceived
    /\ UNCHANGED <<now, tick, pc, buf, got, rcvSock, fwdAddr>>

NextStage(q) ==
    CASE q = "up" -> "down" [] q = "down" -> "multilock" [] q = "multi" -> "idle"

\* Mutant of Forward: one message per tick, an if in place of the while.
ForwardOne(q) ==
    /\ tick = q
    /\ Due(q)
    /\ queue' = [queue EXCEPT ![q] = Tail(@)]
    /\ \E D \in Outcomes(fwdAddr[q]) :
          released' = Append(released, Record(Head(queue[q]), D))
    /\ tick' = NextStage(q)
    /\ UNCHANGED <<now, pc, buf, got, rcvSock, fwdAddr>>

\* The message is popped before it is sent; a failed send is only logged, and
\* does not keep the multi lane from sending to its second address.
Forward(q) ==
    /\ tick = q
    /\ Due(q)
    /\ queue' = [queue EXCEPT ![q] = Tail(@)]
    /\ \E D \in Outcomes(fwdAddr[q]) :
          released' = Append(released, Record(Head(queue[q]), D))
    /\ UNCHANGED <<now, tick, pc, buf, got, rcvSock, fwdAddr>>

\* Mutant of EndDrain: the multi callback is not registered on the bus.
EndDrainUdpOnly(q) ==
    /\ tick = q
    /\ ~Due(q)
    /\ tick' = IF q = "up" THEN "down" ELSE "idle"
    /\ UNCHANGED <<now, pc, buf, got, queue, rcvSock, fwdAddr, released>>

EndDrain(q) ==
    /\ tick = q
    /\ ~Due(q)
    /\ tick' = NextStage(q)
    /\ UNCHANGED <<now, pc, buf, got, queue, rcvSock, fwdAddr, released>>

Drain == Lock \/ \E q \in Lanes : Forward(q) \/ EndDrain(q)

Next == Tick \/ Drain \/ \E l \in Loops : Relay(l)

Spec == Init /\ [][Next]_vars

(***************************************************************************)
(* The bus ticks for ever and every thread runs.  A datagram need not      *)
(* arrive, so Receive is not fair.                                         *)
(***************************************************************************)
FairSpec ==
    /\ Spec
    /\ WF_vars(Tick) /\ WF_vars(Drain)
    /\ \A l \in Loops :
          /\ WF_vars(SetRcvSock(l)) /\ WF_vars(SetFwdAddr(l)) /\ WF_vars(Stamp(l))
          /\ SF_vars(Push(l))

-----------------------------------------------------------------------------
Stages == Lanes \cup {"idle", "udplock", "multilock"}
Verdicts == {"open", "blind", "closed"}
Built == [n : Nat, delay : Delays, due : 0..MaxTime, link : Verdicts]
Queued == [loop : Loops, n : Nat, due : 0..MaxTime, pushed : 0..MaxTime,
           link : Verdicts]
Taken == [loop : Loops, n : Nat, due : 0..MaxTime, pushed : 0..MaxTime,
          link : Verdicts, at : 0..MaxTime, to : SUBSET (Dest \cup {"garbage"})]

TypeOK ==
    /\ now \in 0..MaxTime
    /\ tick \in Stages
    /\ pc \in [Loops -> {"slotsock", "slotaddr", "recv", "stamp", "push"}]
    /\ buf \in [Loops -> Built]
    /\ got \in [Loops -> Nat]
    /\ queue \in [Lanes -> Seq(Queued)]
    /\ rcvSock \in [Lanes -> Loops \cup {"none"}]
    /\ fwdAddr \in [Lanes -> SUBSET (Dest \cup {"garbage"})]
    /\ released \in Seq(Taken)

(***************************************************************************)
(* The tick thread uses _rcv_sock and _fwd_addr with no check.  They are   *)
(* written by other threads, in two steps and with no lock, yet whenever a *)
(* message is queued both members of its lane are set.                     *)
(***************************************************************************)
SlotsReady ==
    \A q \in Lanes : queue[q] # <<>> => rcvSock[q] # "none" /\ fwdAddr[q] # {}

(***************************************************************************)
(* What forward_loop's own comment says of direction, for the lanes that   *)
(* have one thread: an uplink reaches the flight software and a multi      *)
(* downlink the two ground systems, whatever the crosslink threads write   *)
(* and in whichever order the threads start.                               *)
(***************************************************************************)
OwnLaneRouted ==
    \A i \in DOMAIN released :
        released[i].loop \in {"up", "multi"} =>
            released[i].to \subseteq Resolved(Targets(released[i].loop))

(***************************************************************************)
(* The same comment for every direction: "from fsw to radio to cryptolib", *)
(* "crosslink between satellites".  A message reaches no destination but   *)
(* the one its thread was started with.                                    *)
(***************************************************************************)
Routed ==
    \A i \in DOMAIN released :
        released[i].to \subseteq Resolved(Targets(released[i].loop))

(***************************************************************************)
(* No datagram passes a link that is known to be closed, through failing   *)
(* parses, queues and shared lanes.  A failing parse itself opens a link   *)
(* whose criterion is occultation, since the point then says not occulted, *)
(* and closes one whose criterion is the carrier-to-noise ratio.           *)
(***************************************************************************)
LinkRespected ==
    \A i \in DOMAIN released :
        released[i].link \in Tolerated(Direction(released[i].loop))

(***************************************************************************)
(* A destination sees the datagrams of one thread in the order in which    *)
(* the thread received them, and none of them twice, although delays vary, *)
(* times are stamped outside the mutex and sends may fail.                 *)
(***************************************************************************)
InOrder ==
    \A j \in DOMAIN released : \A i \in 1..(j - 1) :
        released[i].loop = released[j].loop /\ released[i].to \cap released[j].to # {}
            => released[i].n < released[j].n

\* The entries of the same queue that were taken no later than entry i.
Ahead(i) ==
    {j \in 1..i : Lane(released[j].loop) = Lane(released[i].loop)}

(***************************************************************************)
(* What queueing costs: a message leaves its queue no earlier than it is   *)
(* due, and no later than the tick at which it and everything queued ahead *)
(* of it are due and queued.  A message waits for a slower one ahead of it,*)
(* another thread's included, but never longer.                            *)
(***************************************************************************)
ReleaseWindow ==
    \A i \in DOMAIN released :
        /\ released[i].due <= released[i].at
        /\ \E j \in Ahead(i) :
              \/ released[i].at <= released[j].due
              \/ released[i].at <= released[j].pushed + 1

\* A message was sent to every address of its thread.
Forwarded(l, n) ==
    \E i \in DOMAIN released :
        /\ released[i].loop = l
        /\ released[i].n = n
        /\ released[i].to = Resolved(Targets(l))

(***************************************************************************)
(* A datagram a thread received while the link was open is sent to the     *)
(* thread's destinations in the end, both of them in the multi lane.       *)
(***************************************************************************)
OpenLinkDelivers ==
    \A l \in Loops \cap {"up", "multi"} : \A n \in 1..MaxReceived :
        (pc[l] = "stamp" /\ buf[l].n = n) ~> Forwarded(l, n)
=============================================================================

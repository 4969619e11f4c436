----------------------------- MODULE TcpBridge -----------------------------
(***************************************************************************)
(* The TCP relay between the spacecraft's UDP ports and CryptoLib's TCP    *)
(* connections: the two threads of tcp_forward_loop and the callback that  *)
(* drains their queues on every time tick.                                 *)
(*                                                                         *)
(* Downlink: telemetry datagrams of the flight software, each of which     *)
(* becomes one send() on a connection the thread opens.  Uplink: bytes of  *)
(* a connection the thread accepts; what one recv() returns, which may be  *)
(* any number of the bytes waiting, becomes one datagram.  Datagrams and   *)
(* bytes are numbered in the order in which they are sent.                 *)
(***************************************************************************)
EXTENDS Naturals, Sequences

CONSTANTS Criterion,      \* link close criterion: "none", "occulted", "cnr"
          Delays,         \* light-time delays of the data point, in ticks
          Faulty,         \* directions in which sends may fail
          SigpipeIgnored, \* FALSE: SIGPIPE ends the simulator, as by default
          UdpCap,         \* receive buffer of the telemetry port
          SndCap,         \* telemetry the connection holds until it is read
          MaxRetries,     \* 30 in the code
          MaxOffered,     \* BOUND: items sent in each direction
          MaxTime         \* BOUND: every later time is taken for MaxTime

Dirs == {"down", "up"}

ASSUME BridgeAssumption ==
    /\ Criterion \in [Dirs -> {"none", "occulted", "cnr"}]
    /\ Delays \subseteq Nat /\ 0 \in Delays
    /\ Faulty \subseteq Dirs
    /\ SigpipeIgnored \in BOOLEAN
    /\ UdpCap \in Nat \ {0} /\ SndCap \in Nat \ {0}
    /\ MaxRetries \in Nat /\ MaxOffered \in Nat /\ MaxTime \in Nat

VARIABLES now,      \* the time of the bus
          tick,     \* where the thread that handles the time ticks stands
          pc,       \* where the two relay threads stand
          tries,    \* failed attempts of the downlink's current retry loop
          buf,      \* the message each thread is building
          queue,    \* _message_queue_tcp_...
          offered,  \* history: items sent to the simulator
          read,     \* number of the last item each thread received
          udpIn,    \* receive buffer of the telemetry port
          server,   \* CryptoLib's server, to which the downlink connects, is up
          conn,     \* the downlink's connection
          window,   \* telemetry sent on it and not yet read
          link,     \* the uplink's connection
          fwdAddr,  \* the uplink's fwd_addr, later _fwd_addr_tcp_uplink
          last      \* history: the last delivery and the number of deliveries

threadVars == <<pc, tries, buf, read, fwdAddr>>
netVars == <<offered, udpIn, server, conn, window, link>>
vars == <<now, tick, threadVars, queue, netVars, last>>

Capped(t) == IF t > MaxTime THEN MaxTime ELSE t

Empty == [from |-> 0, to |-> 0, delay |-> 0, due |-> 0]

Init ==
    /\ now = 0
    /\ tick = "idle"
    /\ pc = [d \in Dirs |-> "start"]
    /\ tries = 0
    /\ buf = [d \in Dirs |-> Empty]
    /\ queue = [d \in Dirs |-> <<>>]
    /\ offered = [d \in Dirs |-> 0]
    /\ read = [d \in Dirs |-> 0]
    /\ udpIn = <<>>
    /\ server = FALSE
    /\ conn = "none"
    /\ window = 0
    /\ link = "none"
    /\ fwdAddr = "unset"
    /\ last = [d \in Dirs |-> [to |-> 0, count |-> 0]]

-----------------------------------------------------------------------------
(* Start-up of the downlink thread.                                        *)

\* udp_init() binds the telemetry port, long before anything is connected;
\* without a TCP socket the thread returns.
DownStart ==
    /\ pc["down"] = "start"
    /\ \/ pc' = [pc EXCEPT !["down"] = "resolve"]
       \/ "down" \in Faulty /\ pc' = [pc EXCEPT !["down"] = "gone"]
    /\ UNCHANGED <<tries, buf, read, fwdAddr, queue, netVars>>

\* Mutant of Failed: the number of attempts is not limited.
FailedNoLimit == tries' = tries + 1 /\ pc' = pc

\* A failed attempt: the thread returns when MaxRetries more have failed too.
Failed ==
    /\ tries' = tries + 1
    /\ pc' = IF tries = MaxRetries THEN [pc EXCEPT !["down"] = "gone"] ELSE pc

\* host_to_ip(): an address that is a literal is one that resolves at once.
Resolve ==
    /\ pc["down"] = "resolve"
    /\ \/ pc' = [pc EXCEPT !["down"] = "connect"] /\ tries' = 0
       \/ Failed
    /\ UNCHANGED <<buf, read, fwdAddr, queue, netVars>>

Connect ==
    /\ pc["down"] = "connect"
    /\ IF server
          THEN /\ conn' = "open"
               /\ pc' = [pc EXCEPT !["down"] = "recv"]
               /\ UNCHANGED tries
          ELSE Failed /\ UNCHANGED conn
    /\ UNCHANGED <<buf, read, fwdAddr, queue, offered, udpIn, server, window, link>>

-----------------------------------------------------------------------------
(* Start-up of the uplink thread.                                          *)

\* The flight software's name is looked up once; sin_addr stays uninitialised
\* when it does not resolve.
UpStart ==
    /\ pc["up"] = "start"
    /\ fwdAddr' \in {"fsw_ci", "garbage"}
    /\ pc' = [pc EXCEPT !["up"] = "listen"]
    /\ UNCHANGED <<tries, buf, read, queue, netVars>>

Listen ==
    /\ pc["up"] = "listen"
    /\ link' = "listening"
    /\ pc' = [pc EXCEPT !["up"] = "accept"]
    /\ UNCHANGED <<tries, buf, read, fwdAddr, queue, offered, udpIn, server, conn, window>>

Accept ==
    /\ pc["up"] = "accept"
    /\ link \in {"open", "closed"}
    /\ pc' = [pc EXCEPT !["up"] = "recv"]
    /\ UNCHANGED <<tries, buf, read, fwdAddr, queue, netVars>>

\* Any step of tcp_init() may fail.  Its result is ignored, and recv() is then
\* called with a clientfd nobody set, and fails.
TcpInitFails ==
    /\ pc["up"] \in {"listen", "accept"}
    /\ "up" \in Faulty
    /\ link' = "failed"
    /\ pc' = [pc EXCEPT !["up"] = "recv"]
    /\ UNCHANGED <<tries, buf, read, fwdAddr, queue, offered, udpIn, server, conn, window>>

-----------------------------------------------------------------------------
(* The loops of the two threads.                                           *)

\* communication_capable, from the state of the link the data point reports.
Capable(d, occulted, enough) ==
    CASE Criterion[d] = "occulted" -> ~occulted
      [] Criterion[d] = "cnr"      -> enough
      [] OTHER                     -> TRUE

\* What is done with the items from a to b, once they are received.
Receive(d, a, b) ==
    /\ pc[d] = "recv"
    /\ read' = [read EXCEPT ![d] = b]
    /\ \E occulted, enough \in BOOLEAN, t \in Delays :
          IF Capable(d, occulted, enough)
             THEN /\ buf' = [buf EXCEPT ![d] =
                               [from |-> a, to |-> b, delay |-> t, due |-> 0]]
                  /\ pc' = [pc EXCEPT ![d] = "stamp"]
             ELSE UNCHANGED <<buf, pc>>

DownReceive ==
    /\ udpIn # <<>>
    /\ Receive("down", Head(udpIn), Head(udpIn))
    /\ udpIn' = Tail(udpIn)
    /\ UNCHANGED <<tries, fwdAddr, queue, offered, server, conn, window, link>>

\* Mutant of UpReceive: the bytes stay in the socket (MSG_PEEK).
UpReceivePeek ==
    /\ link \in {"open", "closed"}
    /\ \E a \in {read["up"], read["up"] + 1} \ {0}, b \in 1..offered["up"] :
          a <= b /\ Receive("up", a, b)
    /\ UNCHANGED <<tries, fwdAddr, queue, netVars>>

\* recv() returns some of the bytes that are waiting.  At the end of the stream
\* it returns 0 for ever, which changes nothing: no connection is accepted again.
UpReceive ==
    /\ link \in {"open", "closed"}
    /\ \E b \in (read["up"] + 1)..offered["up"] : Receive("up", read["up"] + 1, b)
    /\ UNCHANGED <<tries, fwdAddr, queue, netVars>>

\* time_to_send, from the time of the bus: the mutex is not held yet.
Stamp(d) ==
    /\ pc[d] = "stamp"
    /\ buf' = [buf EXCEPT ![d].due = Capped(now + buf[d].delay), ![d].delay = 0]
    /\ pc' = [pc EXCEPT ![d] = "push"]
    /\ UNCHANGED <<tries, read, fwdAddr, queue, netVars>>

Entry(d) == [from |-> buf[d].from, to |-> buf[d].to, due |-> buf[d].due]

\* Mutant of Push: a priority queue, the message due first in front.
PushByDue(d) ==
    /\ pc[d] = "push"
    /\ tick # d
    /\ queue' = [queue EXCEPT ![d] =
                    SelectSeq(@, LAMBDA m : m.due <= buf[d].due)
                        \o <<Entry(d)>>
                        \o SelectSeq(@, LAMBDA m : m.due > buf[d].due)]
    /\ pc' = [pc EXCEPT ![d] = "recv"]
    /\ buf' = [buf EXCEPT ![d] = Empty]
    /\ UNCHANGED <<tries, read, fwdAddr, netVars>>

\* Each queue has a mutex of its own, held by the callback while it drains.
Push(d) ==
    /\ pc[d] = "push"
    /\ tick # d
    /\ queue' = [queue EXCEPT ![d] = Append(@, Entry(d))]
    /\ pc' = [pc EXCEPT ![d] = "recv"]
    /\ buf' = [buf EXCEPT ![d] = Empty]
    /\ UNCHANGED <<tries, read, fwdAddr, netVars>>

StartUp ==
    \/ DownStart \/ Resolve \/ Connect
    \/ UpStart \/ Listen \/ Accept \/ TcpInitFails

ThreadFrame == tick # "killed" /\ UNCHANGED <<now, tick, last>>

Thread ==
    \/ (StartUp \/ DownReceive \/ UpReceive) /\ ThreadFrame
    \/ \E d \in Dirs : (Stamp(d) \/ Push(d)) /\ ThreadFrame

-----------------------------------------------------------------------------
(* The thread that handles the time ticks.                                 *)

Tick ==
    /\ tick = "idle"
    /\ now' = Capped(now + 1)
    /\ tick' = "down"
    /\ UNCHANGED <<threadVars, queue, netVars, last>>

Due(d) == queue[d] # <<>> /\ Head(queue[d]).due <= now

Delivered(d) ==
    last' = [last EXCEPT ![d] = [to |-> Head(queue[d]).to, count |-> @.count + 1]]

\* send() on the connection.  It blocks, with the mutex held, while the ground
\* reads nothing; it takes one more message after the ground has closed; the
\* next one raises SIGPIPE.
SendDown ==
    \/ /\ conn = "open" /\ window < SndCap
       /\ window' = window + 1
       /\ Delivered("down")
       /\ UNCHANGED <<tick, conn>>
    \/ /\ conn = "open" /\ "down" \in Faulty
       /\ UNCHANGED <<tick, conn, window, last>>
    \/ /\ conn = "closed"
       /\ conn' = "reset"
       /\ UNCHANGED <<tick, window, last>>
    \/ /\ conn = "reset"
       /\ tick' = IF SigpipeIgnored THEN tick ELSE "killed"
       /\ UNCHANGED <<conn, window, last>>

SendUp ==
    /\ \/ fwdAddr = "fsw_ci" /\ Delivered("up")
       \/ (fwdAddr = "garbage" \/ "up" \in Faulty) /\ UNCHANGED last
    /\ UNCHANGED <<tick, conn, window>>

\* Mutant of Forward: the message is not popped.
ForwardNoPop(d) ==
    /\ tick = d
    /\ Due(d)
    /\ last[d].count < 2 * MaxOffered
    /\ UNCHANGED queue
    /\ IF d = "down" THEN SendDown ELSE SendUp
    /\ UNCHANGED <<now, threadVars, offered, udpIn, server, link>>

\* Mutant of Forward: the message is popped, and then found not to be due.
ForwardPopFirst(d) ==
    /\ tick = d
    /\ queue[d] # <<>>
    /\ queue' = [queue EXCEPT ![d] = Tail(@)]
    /\ IF ~Due(d) THEN UNCHANGED <<tick, conn, window, last>>
       ELSE IF d = "down" THEN SendDown ELSE SendUp
    /\ UNCHANGED <<now, threadVars, offered, udpIn, server, link>>

\* The message is popped before it is sent; a failed send is only logged.
Forward(d) ==
    /\ tick = d
    /\ Due(d)
    /\ queue' = [queue EXCEPT ![d] = Tail(@)]
    /\ IF d = "down" THEN SendDown ELSE SendUp
    /\ UNCHANGED <<now, threadVars, offered, udpIn, server, link>>

\* Mutant of EndDrain: a return in place of the break ends the callback.
EndDrainReturn(d) ==
    /\ tick = d
    /\ ~Due(d)
    /\ tick' = "idle"
    /\ UNCHANGED <<now, threadVars, queue, netVars, last>>

EndDrain(d) ==
    /\ tick = d
    /\ ~Due(d)
    /\ tick' = IF d = "down" THEN "up" ELSE "idle"
    /\ UNCHANGED <<now, threadVars, queue, netVars, last>>

Drain == \E d \in Dirs : Forward(d) \/ EndDrain(d)

-----------------------------------------------------------------------------
(* The flight software and CryptoLib, which is a client of the uplink's    *)
(* socket and a server for the downlink's.                                 *)

\* Telemetry sent before the port is bound is refused, and not numbered; later
\* it is lost when the port's buffer is full.
FswSends ==
    /\ pc["down"] # "start"
    /\ offered["down"] < MaxOffered
    /\ offered' = [offered EXCEPT !["down"] = @ + 1]
    /\ udpIn' = IF Len(udpIn) < UdpCap
                   THEN Append(udpIn, offered["down"] + 1) ELSE udpIn
    /\ UNCHANGED <<server, conn, window, link>>

ServerStarts ==
    /\ ~server
    /\ server' = TRUE
    /\ UNCHANGED <<offered, udpIn, conn, window, link>>

GroundReads ==
    /\ conn = "open" /\ window > 0
    /\ window' = window - 1
    /\ UNCHANGED <<offered, udpIn, server, conn, link>>

GroundCloses ==
    /\ \/ conn = "open" /\ conn' = "closed" /\ UNCHANGED link
       \/ link = "open" /\ link' = "closed" /\ UNCHANGED conn
    /\ UNCHANGED <<offered, udpIn, server, window>>

\* The connection is made, and may be written to, before it is accepted.
GroundConnects ==
    /\ link = "listening"
    /\ link' = "open"
    /\ UNCHANGED <<offered, udpIn, server, conn, window>>

GroundWrites ==
    /\ link = "open"
    /\ offered["up"] < MaxOffered
    /\ offered' = [offered EXCEPT !["up"] = @ + 1]
    /\ UNCHANGED <<udpIn, server, conn, window, link>>

OutsideFrame == UNCHANGED <<now, tick, threadVars, queue, last>>
Outside ==
    /\ \/ FswSends \/ ServerStarts \/ GroundReads \/ GroundCloses
       \/ GroundConnects \/ GroundWrites
    /\ OutsideFrame

Next == Thread \/ Tick \/ Drain \/ Outside

Spec == Init /\ [][Next]_vars

(***************************************************************************)
(* The bus ticks, a thread that has a message runs, and the ground reads   *)
(* the telemetry it is sent.  Nothing need be sent, connected or closed,   *)
(* and name look-ups may fail as often as they like.  A mutex held for a   *)
(* finite drain again and again is obtained in the end: Push is strongly   *)
(* fair.                                                                   *)
(***************************************************************************)
FairSpec ==
    /\ Spec
    /\ WF_vars(Tick) /\ WF_vars(Drain) /\ WF_vars(GroundReads /\ OutsideFrame)
    /\ \A d \in Dirs :
          WF_vars(Stamp(d) /\ ThreadFrame) /\ SF_vars(Push(d) /\ ThreadFrame)

-----------------------------------------------------------------------------
Items == 0..MaxOffered

TypeOK ==
    /\ now \in 0..MaxTime
    /\ tick \in {"idle", "down", "up", "killed"}
    /\ pc \in [Dirs -> {"start", "resolve", "connect", "listen", "accept",
                        "recv", "stamp", "push", "gone"}]
    /\ tries \in 0..(MaxRetries + 1)
    /\ buf \in [Dirs -> [from : Items, to : Items, delay : Delays, due : 0..MaxTime]]
    /\ queue \in [Dirs -> Seq([from : Items, to : Items, due : 0..MaxTime])]
    /\ offered \in [Dirs -> Items]
    /\ read \in [Dirs -> Items]
    /\ udpIn \in Seq(Items) /\ Len(udpIn) <= UdpCap
    /\ server \in BOOLEAN
    /\ conn \in {"none", "open", "closed", "reset"}
    /\ window \in 0..SndCap
    /\ link \in {"none", "listening", "open", "closed", "failed"}
    /\ fwdAddr \in {"unset", "fsw_ci", "garbage"}
    /\ last \in [Dirs -> [to : Items, count : Nat]]

\* The thread holds a message.
Busy(d) == pc[d] \in {"stamp", "push"}

\* Direction d, from the last delivery back to what has been sent.
DirOrdered(d) ==
    /\ last[d].to <= read[d] /\ read[d] <= offered[d]
    /\ \A i \in 1..Len(queue[d]) :
          /\ last[d].to < queue[d][i].from
          /\ queue[d][i].from <= queue[d][i].to
          /\ queue[d][i].to <= read[d]
    /\ \A i, j \in 1..Len(queue[d]) :
          i < j => queue[d][i].to < queue[d][j].from
    /\ Busy(d) =>
          /\ last[d].to < buf[d].from
          /\ buf[d].from <= buf[d].to /\ buf[d].to <= read[d]
          /\ \A i \in 1..Len(queue[d]) : queue[d][i].to < buf[d].from

\* The telemetry port, from the last datagram read to the last one sent.
PortOrdered ==
    /\ \A i \in 1..Len(udpIn) :
          read["down"] < udpIn[i] /\ udpIn[i] <= offered["down"]
    /\ \A i, j \in 1..Len(udpIn) : i < j => udpIn[i] < udpIn[j]

(***************************************************************************)
(* What is on its way through the bridge keeps the order in which it was   *)
(* sent: the last delivery, the queue, the message being built, the last   *)
(* item received and those still in the socket follow each other, and      *)
(* share no item, although delays vary and messages are due in any order.  *)
(***************************************************************************)
FlowOrdered == PortOrdered /\ \A d \in Dirs : DirOrdered(d)

(***************************************************************************)
(* Each direction is a lossy pipe: in order, and nothing twice.            *)
(***************************************************************************)
Telemetry == INSTANCE LossyPipe WITH offered <- offered["down"],
                 newest <- last["down"].to, deliveries <- last["down"].count
Commands == INSTANCE LossyPipe WITH offered <- offered["up"],
                newest <- last["up"].to, deliveries <- last["up"].count
TelemetryPipe == Telemetry!PipeSpec
CommandPipe == Commands!PipeSpec

\* Nothing in the bridge or before it drops an item of direction d.
Lossless(d) ==
    /\ d \notin Faulty
    /\ Criterion[d] = "none"
    /\ d = "down" => UdpCap >= MaxOffered

(***************************************************************************)
(* With a link that never closes and sends that do not fail, a delivery    *)
(* goes on exactly where the one before it ended, whether or not the other *)
(* end closes the connection: what a close loses is lost at the end, never *)
(* in the middle.                                                          *)
(***************************************************************************)
NoGaps ==
    [][\A d \in Dirs :
          Lossless(d) /\ last'[d] # last[d] =>
              Head(queue[d]).from = last[d].to + 1]_vars

\* Item n is in the bridge, and its link was open when it was received.
InFlight(d, n) ==
    \/ Busy(d) /\ n \in buf[d].from..buf[d].to
    \/ \E i \in 1..Len(queue[d]) : n \in queue[d][i].from..queue[d][i].to

\* What may make the bridge lose what it has accepted.
Loses(d) ==
    \/ d \in Faulty
    \/ d = "down" /\ conn # "open"
    \/ d = "up" /\ fwdAddr = "garbage"

(***************************************************************************)
(* Nothing stays in the bridge for ever: what was received while the link  *)
(* was open is delivered, or lost to a send that failed or a connection    *)
(* that was closed, or the simulator was killed by SIGPIPE.  The callback  *)
(* waits in send() for the ground to read, and with it the other direction.*)
(***************************************************************************)
Arrives ==
    \A d \in Dirs, n \in 1..MaxOffered :
        InFlight(d, n) ~> \/ last[d].to >= n
                          \/ Loses(d) /\ ~InFlight(d, n)
                          \/ tick = "killed"
=============================================================================

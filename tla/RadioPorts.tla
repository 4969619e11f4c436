----------------------------- MODULE RadioPorts -----------------------------
(***************************************************************************)
(* The two UDP ports that join the flight software and the radio device:   *)
(* the device listens on 5014 (radioRx) and the flight software on 5015    *)
(* (fswRx).  The kernel keeps the datagrams that arrived and were not read *)
(* in a bounded FIFO per socket.  A datagram may be lost on its way, and is*)
(* dropped when the buffer is full; the single hop between the two         *)
(* programs neither duplicates nor reorders.                               *)
(*                                                                         *)
(* A datagram is [kind, id, word, count, gen, until].  "hk" and "config"   *)
(* are the two device commands, "reply" is the housekeeping answer;        *)
(* "unknown" is a well-formed command with another identifier and          *)
(* "malformed" anything of the wrong size, header or trailer.  id numbers  *)
(* the housekeeping requests; gen and until are the numbers of times       *)
(* DISABLE had cleared the count when the first and the last byte of it    *)
(* were read.  These three are history only: the wire format carries no    *)
(* such fields.                                                            *)
(***************************************************************************)
EXTENDS Naturals, Sequences

CONSTANTS RxCap,   \* datagrams a socket buffer holds
          Faulty,  \* TRUE: sends may fail and datagrams may be lost
          W,       \* bytes of a device configuration word (4 in the code)
          CountMod,\* 2^32: the device counts in a uint32, and so does the app
          MaxStray \* BOUND: number of datagrams sent by third parties

ASSUME PortsAssumption ==
    /\ RxCap \in Nat \ {0}
    /\ Faulty \in BOOLEAN
    /\ W \in Nat \ {0, 1}
    /\ CountMod \in Nat \ {0}
    /\ MaxStray \in Nat

VARIABLES radioRx, \* receive buffer of the device's command socket
          fswRx,   \* receive buffer of the app's RadioSocket
          strays   \* datagrams sent by third parties so far

portVars == <<radioRx, fswRx, strays>>

\* One bit stands for each byte: the code only shifts, ORs and copies bytes,
\* and each bit position behaves like every other.
Byte == 0..1
Word == [1..W -> Byte]
Zero == [i \in 1..W |-> 0]

Datagram == [kind : {"hk", "config", "reply", "unknown", "malformed"},
             id : Nat, word : Word, count : Nat,
             gen : Nat, until : Nat]

Stray(k) ==
    [kind |-> k, id |-> 0, word |-> Zero, count |-> 0, gen |-> 0, until |-> 0]

(***************************************************************************)
(* The contents a buffer q may have after m was sent to it.                *)
(***************************************************************************)
Arrivals(q, m) ==
    (IF Len(q) < RxCap THEN {Append(q, m)} ELSE {})
        \cup (IF Faulty \/ Len(q) = RxCap THEN {q} ELSE {})

PortsInit ==
    /\ radioRx = <<>>
    /\ fswRx = <<>>
    /\ strays = 0

(***************************************************************************)
(* A third party sends to one of the two ports: a datagram the receiver    *)
(* must recognise as not its own.                                          *)
(***************************************************************************)
StrayToRadio ==
    /\ strays < MaxStray
    /\ strays' = strays + 1
    /\ \E k \in {"unknown", "malformed"} : radioRx' \in Arrivals(radioRx, Stray(k))
    /\ UNCHANGED fswRx

StrayToFsw ==
    /\ strays < MaxStray
    /\ strays' = strays + 1
    /\ fswRx' \in Arrivals(fswRx, Stray("malformed"))
    /\ UNCHANGED radioRx

PortsTypeOK ==
    /\ radioRx \in Seq(Datagram)
    /\ fswRx \in Seq(Datagram)
    /\ Len(radioRx) <= RxCap
    /\ Len(fswRx) <= RxCap
    /\ strays \in 0..MaxStray
=============================================================================

------------------------------ MODULE RadioApp ------------------------------
(***************************************************************************)
(* The main task of the cFS application: it takes one message at a time    *)
(* from its Software Bus pipe and serves it to the end, talking to the     *)
(* device through RadioSocket.  Only a housekeeping request takes two      *)
(* steps: the request is sent, the task sleeps for DEVICE_DELAY_MS, and    *)
(* then reads, without blocking, whatever its socket holds.                *)
(***************************************************************************)
EXTENDS DeviceLib

CONSTANTS PipeDepth, \* GENERIC_RADIO_PIPE_DEPTH
          Codes      \* which commands the environment sends

AllCodes == {"noop", "reset", "config", "prox", "badlength", "badcode",
             "hk", "badtlm"}

\* A message on the pipe: a command code and, for "config", its argument.
Command == [cc : AllCodes, word : Word]

ASSUME AppAssumption ==
    /\ PipeDepth \in Nat \ {0}
    /\ Codes \subseteq AllCodes

VARIABLES cmdPipe,  \* CmdPipe: messages waiting on the Software Bus
          main,     \* where the main task stands
          hk,       \* HkTelemetryPkt, filled in as the app goes
          tlm,      \* the housekeeping packet as last published
          accepted, \* history: commands the pipe took
          handled,  \* history: commands served to the end
          taken,    \* history: commands other than "hk" since the last RESET
          issued,   \* history: housekeeping requests sent
          done,     \* history: housekeeping requests served
          misses,   \* history: those reported as failed
          last      \* history: the answer last decoded

appVars == <<cmdPipe, main, hk, tlm, accepted, handled, taken, issued, done,
             misses, last>>

Counter == 0..CounterMod - 1
HkPacket == [CommandErrorCount : Counter, CommandCount : Counter,
             DeviceErrorCount : Counter, ForwardErrorCount : Counter,
             ForwardCount : Counter, DeviceCounter : Nat, DeviceConfig : Word]

\* GENERIC_RADIO_ResetCounters
ResetCounters ==
    [CommandErrorCount |-> 0, CommandCount |-> 0, DeviceErrorCount |-> 0,
     ForwardErrorCount |-> 0, ForwardCount |-> 0, DeviceCounter |-> 0,
     DeviceConfig |-> Zero]

AppInit ==
    /\ cmdPipe = <<>>
    /\ main = "pend"
    /\ hk = ResetCounters
    /\ tlm = ResetCounters
    /\ accepted = 0
    /\ handled = 0
    /\ taken = 0
    /\ issued = 0
    /\ done = 0
    /\ misses = 0
    /\ last = NoAnswer

-----------------------------------------------------------------------------
\* The Software Bus puts a command on the pipe, and drops it when the pipe is full.
SendCommand ==
    /\ accepted < MaxCommands
    /\ Len(cmdPipe) < PipeDepth
    /\ \E c \in Codes, w \in ConfigWords :
          cmdPipe' = Append(cmdPipe, [cc |-> c, word |-> w])
    /\ accepted' = accepted + 1
    /\ UNCHANGED <<portVars, main, hk, tlm, handled, taken, issued, done,
                   misses, last>>

\* CFE_SB_ReceiveBuffer returned a command with code c.
Take(c) ==
    /\ main = "pend"
    /\ cmdPipe # <<>>
    /\ Head(cmdPipe).cc = c
    /\ cmdPipe' = Tail(cmdPipe)

\* A ground command leaves the device and the other histories alone.
Served ==
    /\ handled' = handled + 1
    /\ UNCHANGED <<fswRx, strays, main, tlm, accepted, issued, done, misses, last>>

Noop ==
    /\ Take("noop")
    /\ hk' = [hk EXCEPT !.CommandCount = Bump(@)]
    /\ taken' = taken + 1
    /\ Served
    /\ UNCHANGED radioRx

\* Mutant of Reset: one counter is forgotten.
ResetAllButForward ==
    /\ Take("reset")
    /\ hk' = [ResetCounters EXCEPT !.ForwardCount = hk.ForwardCount]
    /\ taken' = 0
    /\ Served
    /\ UNCHANGED radioRx

Reset ==
    /\ Take("reset")
    /\ hk' = ResetCounters
    /\ taken' = 0
    /\ Served
    /\ UNCHANGED radioRx

\* A wrong length, an unknown code, or an unknown telemetry request code.
Invalid ==
    /\ Take("badlength") \/ Take("badcode") \/ Take("badtlm")
    /\ hk' = [hk EXCEPT !.CommandErrorCount = Bump(@)]
    /\ taken' = taken + 1
    /\ Served
    /\ UNCHANGED radioRx

ConfigSent ==
    /\ Take("config")
    /\ radioRx' \in Arrivals(radioRx, SetConfig(Head(cmdPipe).word))
    /\ hk' = [hk EXCEPT !.CommandCount = Bump(@),
                        !.DeviceCounter = (@ + 1) % CountMod]
    /\ taken' = taken + 1
    /\ Served

ConfigNotSent ==
    /\ Faulty
    /\ Take("config")
    /\ hk' = [hk EXCEPT !.CommandCount = Bump(@), !.DeviceErrorCount = Bump(@)]
    /\ taken' = taken + 1
    /\ Served
    /\ UNCHANGED radioRx

\* The payload leaves through ProxySocket, to another port of the device.  The
\* send fails for reasons of its own: its size comes from the payload.
Proximity ==
    /\ Take("prox")
    /\ \/ hk' = [hk EXCEPT !.ForwardCount = Bump(@)]
       \/ hk' = [hk EXCEPT !.ForwardErrorCount = Bump(@)]
    /\ taken' = taken + 1
    /\ Served
    /\ UNCHANGED radioRx

\* RequestHK up to OS_TaskDelay: whether the send worked is forgotten.
HkSend ==
    /\ Take("hk")
    /\ issued' = issued + 1
    /\ radioRx' \in Arrivals(radioRx, HkRequest(issued + 1))
    /\ main' = "delay"
    /\ UNCHANGED <<fswRx, strays, hk, tlm, accepted, handled, taken, done,
                   misses, last>>

\* Mutant of HkHit: the answer is left in the buffer.
HkHitPeek ==
    /\ main = "delay"
    /\ fswRx # <<>>
    /\ Head(fswRx).kind = "reply"
    /\ hk' = [hk EXCEPT !.DeviceCounter = (Head(fswRx).count + 1) % CountMod,
                        !.DeviceConfig = Head(fswRx).word]
    /\ tlm' = hk'
    /\ last' = Head(fswRx)
    /\ misses' = misses
    /\ done' = done + 1
    /\ handled' = handled + 1
    /\ main' = "pend"
    /\ UNCHANGED <<fswRx, radioRx, strays, cmdPipe, accepted, taken, issued>>

\* The delay is over and an answer is in the buffer: the oldest one is decoded.
HkHit ==
    /\ main = "delay"
    /\ fswRx # <<>>
    /\ Head(fswRx).kind = "reply"
    /\ hk' = [hk EXCEPT !.DeviceCounter = (Head(fswRx).count + 1) % CountMod,
                        !.DeviceConfig = Head(fswRx).word]
    /\ tlm' = hk'
    /\ last' = Head(fswRx)
    /\ fswRx' = Tail(fswRx)
    /\ misses' = misses
    /\ done' = done + 1
    /\ handled' = handled + 1
    /\ main' = "pend"
    /\ UNCHANGED <<radioRx, strays, cmdPipe, accepted, taken, issued>>

\* Mutant of HkMiss: the socket blocks until there is something to read.
HkMissBlocking ==
    /\ main = "delay"
    /\ fswRx # <<>>
    /\ Head(fswRx).kind # "reply"
    /\ fswRx' = Tail(fswRx)
    /\ hk' = [hk EXCEPT !.DeviceErrorCount = Bump(@)]
    /\ tlm' = hk'
    /\ misses' = misses + 1
    /\ done' = done + 1
    /\ handled' = handled + 1
    /\ main' = "pend"
    /\ UNCHANGED <<radioRx, strays, cmdPipe, accepted, taken, issued, last>>

\* The delay is over and the buffer is empty, or holds something else.
HkMiss ==
    /\ main = "delay"
    /\ \/ fswRx = <<>> /\ fswRx' = fswRx
       \/ fswRx # <<>> /\ Head(fswRx).kind # "reply" /\ fswRx' = Tail(fswRx)
    /\ hk' = [hk EXCEPT !.DeviceErrorCount = Bump(@)]
    /\ tlm' = hk'
    /\ misses' = misses + 1
    /\ done' = done + 1
    /\ handled' = handled + 1
    /\ main' = "pend"
    /\ UNCHANGED <<radioRx, strays, cmdPipe, accepted, taken, issued, last>>

MainTask ==
    \/ Noop \/ Reset \/ Invalid
    \/ ConfigSent \/ ConfigNotSent \/ Proximity
    \/ HkSend \/ HkHit \/ HkMiss

AppNext == SendCommand \/ MainTask

-----------------------------------------------------------------------------
AppTypeOK ==
    /\ cmdPipe \in Seq(Command)
    /\ main \in {"pend", "delay"}
    /\ hk \in HkPacket
    /\ tlm \in HkPacket
    /\ accepted \in Nat
    /\ handled \in Nat
    /\ taken \in Nat
    /\ issued \in Nat
    /\ done \in Nat
    /\ misses \in Nat
    /\ last \in Datagram

(***************************************************************************)
(* No ground command disappears from the telemetry: since the last RESET,  *)
(* every command taken from the pipe other than a housekeeping request     *)
(* was counted by exactly one of the four counters, wrap included.         *)
(***************************************************************************)
CommandsAccounted ==
    (hk.CommandCount + hk.CommandErrorCount + hk.ForwardCount
        + hk.ForwardErrorCount) % CounterMod = taken % CounterMod

(***************************************************************************)
(* "Reported Device Command Counter": a successful housekeeping request    *)
(* publishes the counter of the answer it decoded.                         *)
(***************************************************************************)
ReportsDeviceCounter ==
    [][last' # last => tlm'.DeviceCounter = last'.count]_appVars
=============================================================================

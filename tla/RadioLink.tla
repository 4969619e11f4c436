----------------------------- MODULE RadioLink -----------------------------
(***************************************************************************)
(* The flight software's main task and the radio device, joined by the two *)
(* UDP ports.  Nothing synchronises the two programs: the main task waits  *)
(* a fixed time for an answer, and the answer may come before the delay is *)
(* over, after it, or never.                                               *)
(***************************************************************************)
EXTENDS RadioDevice, RadioApp

VARIABLE dark \* history: the radio has been disabled ever since the
              \* housekeeping request being served was sent

vars == <<portVars, devVars, appVars, dark>>

Init ==
    /\ PortsInit
    /\ DeviceInit
    /\ AppInit
    /\ dark = FALSE

\* What a step of the device leaves alone, and the same for the app.
DeviceFrame == dark' = (dark /\ ~enabled') /\ UNCHANGED appVars
AppFrame ==
    /\ dark' = IF issued' # issued THEN ~enabled /\ cb = "idle" ELSE dark
    /\ UNCHANGED devVars

RunStep == RunThread /\ DeviceFrame
CallbackStep == CallbackThread /\ DeviceFrame
MainStep == MainTask /\ AppFrame
GroundStep == SendCommand /\ AppFrame
NetworkStep ==
    /\ StrayToRadio \/ StrayToFsw
    /\ UNCHANGED <<devVars, appVars, dark>>

Next == RunStep \/ CallbackStep \/ MainStep \/ GroundStep \/ NetworkStep

Spec == Init /\ [][Next]_vars

\* The operating systems schedule both loops: the app's task wakes when its
\* delay is over or its pipe has a message, run() when its socket has a datagram.
\* Nothing is assumed of the callback, of the ground or of the network.
FairSpec == Spec /\ WF_vars(MainStep) /\ WF_vars(RunStep)

-----------------------------------------------------------------------------
TypeOK == PortsTypeOK /\ DeviceTypeOK /\ AppTypeOK /\ dark \in BOOLEAN

\* About the datagrams of kind k in buffer q: their numbers increase, are all
\* above n, are all below n.
Ordered(q, k) ==
    \A i, j \in 1..Len(q) :
        i < j /\ q[i].kind = k /\ q[j].kind = k => q[i].id < q[j].id
Above(q, k, n) == \A i \in 1..Len(q) : q[i].kind = k => n < q[i].id
Below(q, k, n) == \A i \in 1..Len(q) : q[i].kind = k => q[i].id < n

\* The answers in q are to requests older than those in r.
Precede(q, r) ==
    \A i \in 1..Len(q) : q[i].kind = "reply" => Above(r, "hk", q[i].id)

\* The device is at work on a housekeeping request.
Answering == dev # "recv" /\ job.kind = "hk"

\* One request at a time, and only a request gets an answer.
OneAtATime ==
    /\ main = "pend" => issued = done
    /\ main = "delay" => issued = done + 1
    /\ dev \in {"snapcount", "snapconfig", "reply"} => job.kind = "hk"

(***************************************************************************)
(* Requests and answers keep their order all the way round: the answer     *)
(* decoded last, the answers in the app's buffer, the request the device   *)
(* is at work on and the requests in its buffer have increasing numbers,   *)
(* whatever was lost in between.                                           *)
(***************************************************************************)
AnswersInOrder ==
    /\ OneAtATime
    /\ last.id <= issued
    /\ Ordered(fswRx, "reply")
    /\ Above(fswRx, "reply", last.id)
    /\ Below(fswRx, "reply", issued + 1)
    /\ Ordered(radioRx, "hk")
    /\ Above(radioRx, "hk", last.id)
    /\ Below(radioRx, "hk", issued + 1)
    /\ Precede(fswRx, radioRx)
    /\ Answering => /\ last.id < job.id /\ job.id <= issued
                    /\ Below(fswRx, "reply", job.id)
                    /\ Above(radioRx, "hk", job.id)

(***************************************************************************)
(* The exchange implements the housekeeping service.                       *)
(***************************************************************************)
Service == INSTANCE HkService WITH served <- done, missed <- misses,
                                   newest <- last.id
ServiceSpec == Service!SvcSpec

(***************************************************************************)
(* A success always reports something newer than the success before it, so *)
(* however many answers come late or never, the app lags the newest request*)
(* by no more than its failures: it never decodes an answer twice.         *)
(***************************************************************************)
SkewBounded == done <= last.id + misses

\* The inductive invariant behind SkewBounded and ServiceSpec.
LinkInv == TypeOK /\ AnswersInOrder /\ SkewBounded

(***************************************************************************)
(* The radio, not the app, holds the truth: two answers decoded one after  *)
(* the other show its command counter increase, unless a DISABLE cleared   *)
(* the counter between the first byte read for the one and the last byte   *)
(* read for the other; and no answer is from before one decoded earlier.   *)
(* Holds while the counter does not wrap.  The exemption is needed: bytes  *)
(* read before and after a DISABLE make a count the radio never had.       *)
(***************************************************************************)
ReportsAdvance ==
    [][last' # last =>
          /\ last.until <= last'.gen
          /\ last.gen < last'.until \/ last.count < last'.count]_vars

(***************************************************************************)
(* A reported configuration never combines bytes of two commands: every    *)
(* byte is the one some single command asked for, or zero.  Zero bytes are *)
(* those of a word a DISABLE cleared in the middle of its being written.   *)
(***************************************************************************)
NoMixedConfig ==
    \E w \in ConfigWords :
        \A i \in 1..W : hk.DeviceConfig[i] \in {0, Wire(w)[i]}

(***************************************************************************)
(* A request sent after the simulator confirmed DISABLE, and served before *)
(* any ENABLE, fails.                                                      *)
(***************************************************************************)
DarkRequestFails == [][last' # last => ~dark]_vars

(***************************************************************************)
(* One late answer is never made up for: on a network that loses nothing   *)
(* and with a radio that stays enabled, the number of the answer decoded   *)
(* last is exactly the number of successes, so the lag equals the number   *)
(* of failures for ever after.                                             *)
(***************************************************************************)
Lossless == ~Faulty /\ MaxDisables = 0 /\ RxCap > MaxCommands + MaxStray
LagIsPermanent == Lossless => last.id + misses = done

(***************************************************************************)
(* Every housekeeping request a lossless network carried is answered,      *)
(* whatever the other side does.                                           *)
(***************************************************************************)
RequestsAnswered ==
    \A k \in 1..MaxCommands :
        issued >= k ~> \/ last.id >= k
                       \/ \E i \in 1..Len(fswRx) : fswRx[i].id >= k
=============================================================================

---------------------------- MODULE FprimeRadio ----------------------------
(***************************************************************************)
(* The F' component Generic_radio: an active component, whose one thread   *)
(* takes its asynchronous commands one at a time and writes telemetry      *)
(* channels as it goes.  Every command is answered with OK, a failed one   *)
(* included.                                                               *)
(***************************************************************************)
EXTENDS HkCall

VARIABLES pkt,     \* HkTelemetryPkt
          channel, \* the telemetry channels as last written
          noops,   \* history: NOOP commands since the last RESET_COUNTERS
          configs  \* history: CONFIG commands since then

fprimeVars == <<pkt, channel, noops, configs>>

NoCounts == [CommandCount |-> 0, CommandErrorCount |-> 0, DeviceCount |-> 0,
             DeviceErrorCount |-> 0]

\* The channels of RadioHK, of which one structure stands for all three.
FprimeInit ==
    /\ pkt = NoCounts
    /\ channel = [counts |-> NoCounts, device |-> NoAnswer]
    /\ noops = 0
    /\ configs = 0

FpNoop ==
    /\ Begin(TRUE)
    /\ pkt' = [pkt EXCEPT !.CommandCount = Bump(@)]
    /\ channel' = [channel EXCEPT !.counts.CommandCount = pkt'.CommandCount]
    /\ noops' = noops + 1
    /\ NoCall
    /\ UNCHANGED <<portVars, configs>>

\* No channel is written.
FpConfig ==
    /\ Begin(TRUE)
    /\ \/ /\ \E w \in ConfigWords : radioRx' \in Arrivals(radioRx, SetConfig(w))
          /\ pkt' = [pkt EXCEPT !.CommandCount = Bump(@), !.DeviceCount = Bump(@)]
       \/ /\ Faulty
          /\ pkt' = [pkt EXCEPT !.CommandCount = Bump(@), !.DeviceErrorCount = Bump(@)]
          /\ UNCHANGED radioRx
    /\ configs' = configs + 1
    /\ NoCall
    /\ UNCHANGED <<fswRx, strays, channel, noops>>

\* Mutant of FpReset: one counter is forgotten.
FpResetAllButErrors ==
    /\ Begin(TRUE)
    /\ pkt' = [NoCounts EXCEPT !.DeviceErrorCount = pkt.DeviceErrorCount]
    /\ channel' = [channel EXCEPT !.counts = pkt']
    /\ noops' = 0
    /\ configs' = 0
    /\ NoCall
    /\ UNCHANGED portVars

FpReset ==
    /\ Begin(TRUE)
    /\ pkt' = NoCounts
    /\ channel' = [channel EXCEPT !.counts = NoCounts]
    /\ noops' = 0
    /\ configs' = 0
    /\ NoCall
    /\ UNCHANGED portVars

FpRequest == RequestSend /\ UNCHANGED fprimeVars

\* Whatever the outcome, every channel is written.
FpReport ==
    /\ RequestHit \/ RequestMiss
    /\ channel' = [counts |-> pkt, device |-> radioHK']
    /\ UNCHANGED <<pkt, noops, configs>>

FpCommand == FpNoop \/ FpConfig \/ FpReset \/ FpRequest

FprimeTypeOK ==
    /\ pkt \in [DOMAIN NoCounts -> 0..CounterMod - 1]
    /\ channel \in [counts : [DOMAIN NoCounts -> 0..CounterMod - 1], device : Datagram]
    /\ noops \in Nat
    /\ configs \in Nat

(***************************************************************************)
(* Since the last RESET_COUNTERS every NOOP and CONFIG was counted once as *)
(* a command and every CONFIG once more, as sent or as failed: what the    *)
(* component reports and what it did agree, wrap included.  A failed       *)
(* housekeeping request is counted nowhere.                                *)
(***************************************************************************)
FprimeAccounted ==
    /\ pkt.CommandCount = (noops + configs) % CounterMod
    /\ (pkt.DeviceCount + pkt.DeviceErrorCount) % CounterMod = configs % CounterMod
=============================================================================

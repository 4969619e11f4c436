---------------------------- MODULE GroundScript ----------------------------
(***************************************************************************)
(* The ground system's automated test of the application: the script       *)
(* generic_radio_app_test.rb and the library it calls.  It sends a command,*)
(* asks for housekeeping, waits for a packet and compares the counters in  *)
(* the packet with those it expects; a NOOP whose counter is not as        *)
(* expected is sent again, twice at most.                                  *)
(*                                                                         *)
(* The application is RadioApp with no device on the other side, so every  *)
(* request publishes one packet (HkMiss).  Up- and downlink are FIFO and   *)
(* may lose what is sent.  Nothing in a packet says which request it       *)
(* answers: one asked for by somebody else on board ends the script's wait *)
(* as well.                                                                *)
(***************************************************************************)
EXTENDS RadioApp

CONSTANTS MaxLosses, \* BOUND: messages lost on the up- and downlink
          MaxOthers  \* BOUND: housekeeping requests of others on board

\* The script ends with error counters below the wrap.
ASSUME GroundAssumption ==
    /\ MaxLosses \in Nat /\ MaxOthers \in Nat
    /\ CounterMod > 2

\* safe_GENERIC_RADIO, then the sections of the script in their order.
Suite == <<"hk", "hk", "noop", "noop", "reset", "badlength", "badcode">>

VARIABLES uplink,    \* commands on their way to the pipe
          downlink,  \* packets on their way to the ground
          at,        \* step of the suite
          phase,     \* "command", "request" or "wait"
          try,       \* how often the NOOP of this step was sent
          shown,     \* CMD_COUNT and CMD_ERR_COUNT as tlm() returns them
          fresh,     \* a packet came since the request was sent
          expected,  \* count, or cmd_cnt and cmd_err_cnt
          outcome,   \* "running", "passed" or "failed"
          executed,  \* history: NOOPs the application executed
          base,      \* history: executed when the step began
          lost,      \* history: messages lost
          others,    \* history: requests of others
          disturbed  \* history: a loss, a request of others, a full pipe, or
                     \* a wait given up too early

scriptVars == <<at, phase, try, shown, fresh, expected, outcome, base>>
vars == <<portVars, appVars, uplink, downlink, scriptVars, executed, lost,
          others, disturbed>>

Report(p) == [cmd |-> p.CommandCount, err |-> p.CommandErrorCount]

\* The application has run for a while: its counters may have any value.
Init ==
    /\ PortsInit
    /\ \E c, e \in Counter :
          LET h == [ResetCounters EXCEPT !.CommandCount = c, !.CommandErrorCount = e]
          IN  /\ hk = h /\ tlm = h
              /\ shown = Report(ResetCounters)
    /\ cmdPipe = <<>> /\ main = "pend" /\ last = NoAnswer
    /\ accepted = 0 /\ handled = 0 /\ taken = 0 /\ issued = 0 /\ done = 0
    /\ misses = 0
    /\ uplink = <<>> /\ downlink = <<>>
    /\ at = 1 /\ phase = "command" /\ try = 1 /\ fresh = FALSE
    /\ expected = shown /\ outcome = "running"
    /\ executed = 0 /\ base = 0 /\ lost = 0 /\ others = 0 /\ disturbed = FALSE

-----------------------------------------------------------------------------
(* The script.                                                             *)

Running == outcome = "running"
Step == Suite[at]

\* m is sent on a link that holds q, and may be lost there.
Transmit(q, m, r) ==
    \/ r = Append(q, m) /\ UNCHANGED <<lost, disturbed>>
    \/ r = q /\ lost < MaxLosses /\ lost' = lost + 1 /\ disturbed' = TRUE

\* Mutant of Next0: the counter is taken to be without bound.
Next0NoWrap(n) == n + 1

\* CMD_COUNT + 1, where 256 is taken for 0.
Next0(n) == IF n + 1 = CounterMod THEN 0 ELSE n + 1

\* cmd(): what is expected is worked out from the packet shown last, except
\* before a repetition.
SendStep ==
    /\ Running /\ phase = "command"
    /\ IF Step = "hk" THEN UNCHANGED <<uplink, lost, disturbed>>
                      ELSE Transmit(uplink, Step, uplink')
    /\ IF try > 1 THEN UNCHANGED <<expected, base>>
       ELSE /\ base' = executed
            /\ expected' = IF Step = "noop" THEN [shown EXCEPT !.cmd = Next0(@)]
                                            ELSE shown
    /\ phase' = "request"
    /\ UNCHANGED <<portVars, appVars, downlink, at, try, shown, fresh, outcome,
                   executed, others>>

\* Mutant of AskHk: a packet that came before the request will do.
AskHkStale ==
    /\ Running /\ phase = "request"
    /\ Transmit(uplink, "hk", uplink')
    /\ phase' = "wait"
    /\ UNCHANGED <<portVars, appVars, downlink, at, try, shown, fresh, expected,
                   outcome, base, executed, others>>

\* get_GENERIC_RADIO_hk(): the request, and the start of the wait.
AskHk ==
    /\ Running /\ phase = "request"
    /\ Transmit(uplink, "hk", uplink')
    /\ fresh' = FALSE
    /\ phase' = "wait"
    /\ UNCHANGED <<portVars, appVars, downlink, at, try, shown, expected,
                   outcome, base, executed, others>>

\* Mutant of Expires: the time-out is logged, and the wait goes on.
ExpiresOnlyLogs ==
    /\ Running /\ phase = "wait" /\ ~fresh
    /\ disturbed' = TRUE
    /\ UNCHANGED <<portVars, appVars, uplink, downlink, scriptVars, executed,
                   lost, others>>

\* No packet within GENERIC_RADIO_RESPONSE_TIMEOUT: the script fails.  It gave
\* up too early when an answer was still under way.
Expires ==
    /\ Running /\ phase = "wait" /\ ~fresh
    /\ outcome' = "failed"
    /\ disturbed' = (disturbed \/ uplink # <<>> \/ cmdPipe # <<>>
                               \/ main # "pend" \/ downlink # <<>>)
    /\ UNCHANGED <<portVars, appVars, uplink, downlink, at, phase, try, shown,
                   fresh, expected, base, executed, lost, others>>

\* The check() at the end of a step.
Checked ==
    CASE Step = "hk"    -> TRUE
      [] Step = "noop"  -> shown.cmd >= expected.cmd
      [] Step = "reset" -> shown.cmd = 0 /\ shown.err = 0
      [] OTHER          -> shown.cmd = expected.cmd /\ shown.err = expected.err + 1

Awaited == Running /\ phase = "wait" /\ fresh

\* Mutant of Again: the command is repeated until the counter is right.
AgainNoLimit == Step = "noop" /\ shown.cmd # expected.cmd

\* The counter is not as expected, and this was not the third attempt.
Again == Step = "noop" /\ shown.cmd # expected.cmd /\ try < 3

Retry ==
    /\ Awaited /\ Again
    /\ try' = try + 1
    /\ phase' = "command"
    /\ UNCHANGED <<portVars, appVars, uplink, downlink, at, shown, fresh,
                   expected, outcome, base, executed, lost, others, disturbed>>

Judge ==
    /\ Awaited /\ ~Again
    /\ try' = 1
    /\ phase' = "command"
    /\ \/ Checked /\ at < Len(Suite) /\ at' = at + 1 /\ UNCHANGED outcome
       \/ Checked /\ at = Len(Suite) /\ outcome' = "passed" /\ UNCHANGED at
       \/ ~Checked /\ outcome' = "failed" /\ UNCHANGED at
    /\ UNCHANGED <<portVars, appVars, uplink, downlink, shown, fresh, expected,
                   base, executed, lost, others, disturbed>>

Script == SendStep \/ AskHk \/ Expires \/ Retry \/ Judge

-----------------------------------------------------------------------------
(* Links, application and the rest of the spacecraft.                      *)

Put(c) ==
    IF Len(cmdPipe) < PipeDepth
       THEN /\ cmdPipe' = Append(cmdPipe, [cc |-> c, word |-> Zero])
            /\ accepted' = accepted + 1
       ELSE UNCHANGED <<cmdPipe, accepted>>

Uplinked ==
    /\ uplink # <<>>
    /\ uplink' = Tail(uplink)
    /\ Put(Head(uplink))
    /\ disturbed' = (disturbed \/ Len(cmdPipe) = PipeDepth)
    /\ UNCHANGED <<portVars, main, hk, tlm, handled, taken, issued, done,
                   misses, last, downlink, scriptVars, executed, lost, others>>

OtherRequest ==
    /\ others < MaxOthers
    /\ others' = others + 1
    /\ disturbed' = TRUE
    /\ Put("hk")
    /\ UNCHANGED <<portVars, main, hk, tlm, handled, taken, issued, done,
                   misses, last, uplink, downlink, scriptVars, executed, lost>>

\* The main task takes a NOOP from its pipe in this step.
RunsNoop == cmdPipe' # cmdPipe /\ Head(cmdPipe).cc = "noop"

MainStep ==
    /\ MainTask
    /\ executed' = IF RunsNoop THEN executed + 1 ELSE executed
    /\ IF done' # done THEN Transmit(downlink, Report(tlm'), downlink')
                       ELSE UNCHANGED <<downlink, lost, disturbed>>
    /\ UNCHANGED <<uplink, scriptVars, others>>

\* A packet reaches the ground, whatever the script is doing.
Downlinked ==
    /\ downlink # <<>>
    /\ downlink' = Tail(downlink)
    /\ shown' = Head(downlink)
    /\ fresh' = TRUE
    /\ UNCHANGED <<portVars, appVars, uplink, at, phase, try, expected, outcome,
                   base, executed, lost, others, disturbed>>

Next == Script \/ Uplinked \/ OtherRequest \/ MainStep \/ Downlinked

Spec == Init /\ [][Next]_vars

\* The script runs, its wait has a time limit, the links deliver what they did
\* not lose and the main task serves what reached its pipe.
FairSpec ==
    /\ Spec
    /\ WF_vars(Script) /\ WF_vars(Uplinked) /\ WF_vars(MainStep)
    /\ WF_vars(Downlinked)

-----------------------------------------------------------------------------
Reports == [cmd : Counter, err : Counter]

TypeOK ==
    /\ AppTypeOK
    /\ uplink \in Seq(AllCodes)
    /\ downlink \in Seq(Reports)
    /\ at \in DOMAIN Suite
    /\ phase \in {"command", "request", "wait"}
    /\ try \in 1..3
    /\ shown \in Reports /\ expected \in Reports
    /\ fresh \in BOOLEAN /\ disturbed \in BOOLEAN
    /\ outcome \in {"running", "passed", "failed"}
    /\ executed \in Nat /\ base \in Nat
    /\ lost \in 0..MaxLosses /\ others \in 0..MaxOthers

(***************************************************************************)
(* The test is no false alarm: when nothing was lost or came late and      *)
(* nobody else asked for housekeeping, no step fails and no NOOP is sent a *)
(* second time, from whatever counters the application starts with and     *)
(* although they wrap.                                                     *)
(***************************************************************************)
CalmPasses == ~disturbed => outcome # "failed" /\ try = 1

\* The step of a NOOP ends, and the script goes on.
NoopPassed == at' # at /\ Step = "noop"

(***************************************************************************)
(* When the script is the only one to ask for housekeeping, its repetition *)
(* is safe: a NOOP step that passes has executed the NOOP exactly once,    *)
(* whatever was lost.  The exception is the wrap: every counter is at      *)
(* least 0, so the check passes though all three NOOPs were lost.          *)
(***************************************************************************)
ExecutedOnce ==
    [][NoopPassed => \/ executed = base + 1
                     \/ expected.cmd = 0 /\ executed = base
                     \/ others > 0]_vars

(***************************************************************************)
(* The script comes to a verdict whatever is lost.                         *)
(***************************************************************************)
ScriptEnds == <>(outcome # "running")
=============================================================================

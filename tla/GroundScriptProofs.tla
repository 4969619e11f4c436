------------------------- MODULE GroundScriptProofs -------------------------
(***************************************************************************)
(* Proofs about GroundScript: the test raises no false alarm, and a NOOP   *)
(* step that passes has executed its NOOP once.                            *)
(***************************************************************************)
EXTENDS GroundScript, RadioAppProofs

USE PortsAssumption, LibAssumption, AppAssumption, GroundAssumption

-----------------------------------------------------------------------------
(***************************************************************************)
(* What is on its way from the ground to the main task, the oldest first.  *)
(***************************************************************************)
Joined(p, u) ==
    [i \in 1..Len(p) + Len(u) |-> IF i <= Len(p) THEN p[i].cc ELSE u[i - Len(p)]]

Line == Joined(cmdPipe, uplink)

\* The command of the step has not reached the main task yet.
CommandUp == phase # "command" /\ Step # "hk" /\ Line # <<>> /\ Line[1] = Step

\* The request of the step has reached it, and its packet not the ground.
PacketDue == main = "delay" \/ downlink # <<>>

(***************************************************************************)
(* While nobody else asks for housekeeping there is one request at a time: *)
(* between two steps of the script nothing is on its way; during a step    *)
(* the command and then the request, or what losses leave of them; and     *)
(* when a packet has come it shows the counters as they are.               *)
(***************************************************************************)
Resting == phase = "command" \/ (phase = "wait" /\ fresh)

Alone ==
    /\ Resting => Line = <<>> /\ ~PacketDue
    /\ phase = "request" =>
          ~PacketDue /\ (Line = <<>> \/ (Step # "hk" /\ Line = <<Step>>))
    /\ phase = "wait" /\ ~fresh =>
          \/ Line = <<>>
          \/ ~PacketDue /\ Line = <<"hk">>
          \/ ~PacketDue /\ Step # "hk" /\ (Line = <<Step>> \/ Line = <<Step, "hk">>)
    /\ main = "delay" => downlink = <<>>
    /\ downlink # <<>> => downlink = <<Report(hk)>>
    /\ Resting /\ (at > 1 \/ phase = "wait") => shown = Report(hk)

\* Where the repetition of a NOOP stands: not executed, or executed once.
Repeating ==
    Step = "noop" /\ (phase # "command" \/ try > 1) =>
        /\ \/ executed = base /\ expected.cmd = Bump(hk.CommandCount)
           \/ executed = base + 1 /\ expected.cmd = hk.CommandCount
        /\ CommandUp \/ phase = "command" => executed = base

AloneInv == Running /\ others = 0 => Alone /\ Repeating

(***************************************************************************)
(* When nothing goes wrong, the request is on its way as long as no packet *)
(* has come, and the counters are those the check expects as soon as the   *)
(* command is executed.  RESET clears the error counter, so that it is 0   *)
(* and 1 before the two steps that add to it, and does not wrap.           *)
(***************************************************************************)
OnTime ==
    phase = "wait" /\ ~fresh =>
        PacketDue \/ Line = <<"hk">> \/ Line = <<Step, "hk">>

Foreseen ==
    /\ Step = "noop" => CommandUp \/ executed = base + 1
    /\ Step = "reset" => CommandUp \/ (hk.CommandCount = 0 /\ hk.CommandErrorCount = 0)
    /\ Step \in {"badlength", "badcode"} =>
          /\ expected.err = at - 6
          /\ hk.CommandCount = expected.cmd
          /\ CommandUp => hk.CommandErrorCount = expected.err
          /\ ~CommandUp => hk.CommandErrorCount = expected.err + 1

CalmInv ==
    ~disturbed =>
        /\ others = 0 /\ outcome # "failed" /\ try = 1
        /\ Running =>
              /\ OnTime
              /\ phase # "command" => Foreseen
              /\ phase = "command" /\ at >= 6 => hk.CommandErrorCount = at - 6

ScriptInv ==
    PortsTypeOK /\ TypeOK /\ Len(cmdPipe) <= PipeDepth /\ AloneInv /\ CalmInv

-----------------------------------------------------------------------------
(***************************************************************************)
(* Types.                                                                  *)
(***************************************************************************)

\* The suite has seven steps.
LEMMA SuiteSteps ==
    /\ Len(Suite) = 7 /\ DOMAIN Suite = 1..7
    /\ Suite[1] = "hk" /\ Suite[2] = "hk" /\ Suite[3] = "noop" /\ Suite[4] = "noop"
    /\ Suite[5] = "reset" /\ Suite[6] = "badlength" /\ Suite[7] = "badcode"
BY DEF Suite

\* What a report shows of a packet.
LEMMA ReportType == \A p \in HkPacket : Report(p) \in Reports
BY PacketFields DEF Report, Reports

\* The counter the script expects after a NOOP is the one the application will have.
LEMMA Next0IsBump == \A n \in Counter : Next0(n) = Bump(n) /\ Bump(n) \in Counter
BY BumpValue, BumpType DEF Next0

\* The script's initial state, and that of the application.
LEMMA ScriptInitTypes == Init => PortsTypeOK /\ TypeOK
<1> SUFFICES ASSUME Init PROVE PortsTypeOK /\ TypeOK
  OBVIOUS
<1>1. PortsTypeOK
  BY DEF Init, PortsInit, PortsTypeOK
<1>2. PICK c \in Counter, e \in Counter :
         /\ hk = [ResetCounters EXCEPT !.CommandCount = c, !.CommandErrorCount = e]
         /\ tlm = hk /\ shown = Report(ResetCounters)
  BY DEF Init
<1>3. hk \in HkPacket
  <2>1. [ResetCounters EXCEPT !.CommandCount = c] \in HkPacket
    BY ResetCountersType, PacketType, ZeroType
  <2>2. hk = [[ResetCounters EXCEPT !.CommandCount = c] EXCEPT !.CommandErrorCount = e]
    BY <1>2 DEF ResetCounters
  <2> QED
    BY <2>1, <2>2, PacketType, ZeroType
<1>4. shown \in Reports /\ expected \in Reports
  BY <1>2, ReportType, ResetCountersType DEF Init
<1>5. AppTypeOK
  BY <1>2, <1>3, NoAnswerType DEF Init, AppTypeOK
<1>6. /\ uplink \in Seq(AllCodes) /\ downlink \in Seq(Reports)
      /\ lost \in 0..MaxLosses /\ others \in 0..MaxOthers
      /\ executed \in Nat /\ base \in Nat /\ try \in 1..3
  BY DEF Init
<1>7. /\ at \in DOMAIN Suite /\ phase \in {"command", "request", "wait"}
      /\ outcome \in {"running", "passed", "failed"}
  BY SuiteSteps DEF Init
<1>8. fresh \in BOOLEAN /\ disturbed \in BOOLEAN
  BY Zenon DEF Init
<1> QED
  BY <1>1, <1>4, <1>5, <1>6, <1>7, <1>8, Zenon DEF TypeOK

\* Something sent on a link is on it, or lost.
LEMMA TransmitType ==
    ASSUME NEW S, NEW q \in Seq(S), NEW m \in S, NEW r, Transmit(q, m, r), TypeOK
    PROVE  /\ r \in Seq(S) /\ lost' \in 0..MaxLosses /\ disturbed' \in BOOLEAN
           /\ r = Append(q, m) \/ r = q
           /\ ~disturbed' => r = Append(q, m) /\ ~disturbed
<1>t. lost \in 0..MaxLosses /\ disturbed \in BOOLEAN
  BY DEF TypeOK
<1>1. CASE r = Append(q, m) /\ UNCHANGED <<lost, disturbed>>
  <2>1. lost' = lost /\ disturbed' = disturbed
    BY <1>1
  <2>2. r \in Seq(S)
    BY <1>1
  <2> QED
    BY <1>1, <1>t, <2>1, <2>2
<1>2. CASE r = q /\ lost < MaxLosses /\ lost' = lost + 1 /\ disturbed' = TRUE
  <2>1. lost' \in 0..MaxLosses
    BY <1>2, <1>t
  <2> QED
    BY <1>2, <2>1, Zenon
<1> QED
  BY <1>1, <1>2 DEF Transmit

\* A step of the script, of the links and of the application.
LEMMA ScriptNextTypes ==
    ASSUME PortsTypeOK, TypeOK, [Next]_vars
    PROVE  (PortsTypeOK /\ TypeOK)'
<1>a. at \in 1..7 /\ Step \in AllCodes /\ "hk" \in AllCodes
  BY SuiteSteps DEF TypeOK, Step, AllCodes
<1>s. /\ uplink \in Seq(AllCodes) /\ downlink \in Seq(Reports)
      /\ shown \in Reports /\ expected \in Reports
      /\ executed \in Nat /\ base \in Nat /\ try \in 1..3
      /\ lost \in 0..MaxLosses /\ others \in 0..MaxOthers
      /\ fresh \in BOOLEAN /\ disturbed \in BOOLEAN
  BY DEF TypeOK
<1>p. UNCHANGED <<portVars, appVars>> => PortsTypeOK' /\ AppTypeOK'
  BY DEF TypeOK, PortsTypeOK, AppTypeOK, portVars, appVars
<1>c. ASSUME NEW c \in AllCodes, Put(c), UNCHANGED <<portVars, main, hk, tlm, handled,
                                                      taken, issued, done, misses, last>>
      PROVE  PortsTypeOK' /\ AppTypeOK'
  <2>1. [cc |-> c, word |-> Zero] \in Command
    BY ZeroType DEF Command
  <2>2. cmdPipe' \in Seq(Command) /\ accepted' \in Nat
    <3>1. cmdPipe \in Seq(Command) /\ accepted \in Nat
      BY DEF TypeOK, AppTypeOK
    <3>2. CASE Len(cmdPipe) < PipeDepth
      BY <1>c, <2>1, <3>1, <3>2 DEF Put
    <3>3. CASE ~(Len(cmdPipe) < PipeDepth)
      BY <1>c, <3>1, <3>3 DEF Put
    <3> QED
      BY <3>2, <3>3
  <2> QED
    BY <1>c, <2>2 DEF TypeOK, AppTypeOK, PortsTypeOK, portVars
<1>1. CASE SendStep
  <2>1. /\ uplink' \in Seq(AllCodes) /\ lost' \in 0..MaxLosses /\ disturbed' \in BOOLEAN
    BY <1>1, <1>a, <1>s, TransmitType DEF SendStep
  <2>2. expected' \in Reports /\ base' \in Nat
    <3>1. [shown EXCEPT !.cmd = Next0(shown.cmd)] \in Reports
      BY <1>s, Next0IsBump DEF Reports
    <3> QED
      BY <1>1, <1>s, <3>1 DEF SendStep
  <2> QED
    BY <1>1, <1>p, <2>1, <2>2 DEF SendStep, TypeOK
<1>2. CASE AskHk
  <2>1. /\ uplink' \in Seq(AllCodes) /\ lost' \in 0..MaxLosses /\ disturbed' \in BOOLEAN
    BY <1>2, <1>a, <1>s, TransmitType DEF AskHk
  <2> QED
    BY <1>2, <1>p, <2>1 DEF AskHk, TypeOK
<1>3. CASE Expires
  BY <1>3, <1>p DEF Expires, TypeOK
<1>4. CASE Retry
  <2>1. try' \in 1..3
    BY <1>4, <1>s DEF Retry, Again
  <2> QED
    BY <1>4, <1>p, <2>1 DEF Retry, TypeOK
<1>5. CASE Judge
  <2>1. at' \in DOMAIN Suite /\ outcome' \in {"running", "passed", "failed"}
    BY <1>5, <1>a, SuiteSteps DEF Judge, TypeOK
  <2> QED
    BY <1>5, <1>p, <2>1 DEF Judge, TypeOK
<1>6. CASE Uplinked
  <2>1. Tail(uplink) \in Seq(AllCodes) /\ Head(uplink) \in AllCodes
    BY <1>6, <1>s DEF Uplinked
  <2>2. PortsTypeOK' /\ AppTypeOK'
    BY <1>6, <1>c, <2>1 DEF Uplinked
  <2> QED
    BY <1>6, <2>1, <2>2 DEF Uplinked, scriptVars, TypeOK
<1>7. CASE OtherRequest
  <2>1. PortsTypeOK' /\ AppTypeOK'
    BY <1>7, <1>a, <1>c DEF OtherRequest
  <2> QED
    BY <1>7, <2>1, <1>s DEF OtherRequest, scriptVars, TypeOK
<1>8. CASE MainStep
  <2>1. PortsTypeOK' /\ AppTypeOK'
    BY <1>8, MainTypes DEF MainStep, TypeOK
  <2>2. Report(tlm') \in Reports
    BY <2>1, ReportType DEF AppTypeOK
  <2>3. downlink' \in Seq(Reports) /\ lost' \in 0..MaxLosses /\ disturbed' \in BOOLEAN
    <3>1. CASE done' # done
      BY <1>8, <1>s, <2>2, <3>1, TransmitType DEF MainStep
    <3>2. CASE done' = done
      BY <1>8, <1>s, <3>2 DEF MainStep
    <3> QED
      BY <3>1, <3>2
  <2>4. executed' \in Nat
    BY <1>8, <1>s DEF MainStep
  <2> QED
    BY <1>8, <2>1, <2>3, <2>4 DEF MainStep, scriptVars, TypeOK
<1>9. CASE Downlinked
  <2>1. Tail(downlink) \in Seq(Reports) /\ Head(downlink) \in Reports
    BY <1>9, <1>s DEF Downlinked
  <2> QED
    BY <1>9, <1>p, <2>1 DEF Downlinked, TypeOK
<1>10. CASE UNCHANGED vars
  BY <1>10, <1>p DEF vars, scriptVars, TypeOK
<1> QED
  BY <1>1, <1>2, <1>3, <1>4, <1>5, <1>6, <1>7, <1>8, <1>9, <1>10 DEF Next, Script

-----------------------------------------------------------------------------
(***************************************************************************)
(* What the steps do to the line of commands.                              *)
(***************************************************************************)

\* A second command.
LEMMA AfterOne ==
    ASSUME NEW a, NEW b
    PROVE  Append(<<a>>, b) = <<a, b>>
<1>1. <<a>> \in Seq({a, b}) /\ <<a, b>> \in Seq({a, b}) /\ Len(<<a>>) = 1
  OBVIOUS
<1> DEFINE s == <<a>>
<1>2. s[1] = a
  OBVIOUS
<1> HIDE DEF s
<1>3. /\ Append(s, b) \in Seq({a, b}) /\ Len(Append(s, b)) = 2
      /\ Append(s, b)[1] = a /\ Append(s, b)[2] = b
  BY <1>1, <1>2 DEF s
<1>4. Len(<<a, b>>) = 2 /\ <<a, b>>[1] = a /\ <<a, b>>[2] = b
  OBVIOUS
<1> DEFINE t == <<a, b>>
           r == Append(s, b)
<1>5. /\ t \in Seq({a, b}) /\ Len(t) = 2 /\ t[1] = a /\ t[2] = b
      /\ r \in Seq({a, b}) /\ Len(r) = 2 /\ r[1] = a /\ r[2] = b
  BY <1>1, <1>3, <1>4
<1> HIDE DEF t, r
<1>6. t = r
  <2>1. \A i \in 1..Len(t) : t[i] = r[i]
    BY <1>5
  <2> QED
    BY <1>5, <2>1
<1> QED
  BY <1>6 DEF s, t, r

\* No command, one and two commands.
LEMMA Short ==
    ASSUME NEW a, NEW b
    PROVE  /\ Append(<<>>, a) = <<a>> /\ Append(<<a>>, b) = <<a, b>>
           /\ Tail(<<a>>) = <<>> /\ Tail(<<a, b>>) = <<b>>
           /\ <<a>> # <<>> /\ <<a, b>> # <<>> /\ Head(<<a>>) = a
           /\ <<a>>[1] = a /\ <<a, b>>[1] = a /\ <<a, b>>[2] = b
           /\ Len(<<>>) = 0 /\ Len(<<a>>) = 1 /\ Len(<<a, b>>) = 2
<1>1. /\ <<a>> # <<>> /\ <<a, b>> # <<>>
      /\ <<a>>[1] = a /\ <<a, b>>[1] = a /\ <<a, b>>[2] = b
      /\ Len(<<>>) = 0 /\ Len(<<a>>) = 1 /\ Len(<<a, b>>) = 2
  OBVIOUS
<1>2. Head(<<a>>) = a
  OBVIOUS
<1>3. Append(<<>>, a) = <<a>>
  OBVIOUS
<1>4. Append(<<a>>, b) = <<a, b>>
  BY AfterOne
<1>5. Tail(<<a>>) = <<>>
  OBVIOUS
<1>6. Tail(<<a, b>>) = <<b>>
  OBVIOUS
<1> QED
  BY <1>1, <1>2, <1>3, <1>4, <1>5, <1>6

\* Commands in the pipe come before those on the uplink.
LEMMA JoinedType ==
    ASSUME NEW p \in Seq(Command), NEW u \in Seq(AllCodes)
    PROVE  /\ Joined(p, u) \in Seq(AllCodes)
           /\ Len(Joined(p, u)) = Len(p) + Len(u)
           /\ \A i \in 1..Len(p) : Joined(p, u)[i] = p[i].cc
           /\ \A i \in 1..Len(u) : Joined(p, u)[i + Len(p)] = u[i]
<1>1. ASSUME NEW i \in 1..Len(p) + Len(u)
      PROVE  (IF i <= Len(p) THEN p[i].cc ELSE u[i - Len(p)]) \in AllCodes
  <2>1. CASE i <= Len(p)
    <3>1. p[i] \in Command
      BY <2>1
    <3> QED
      BY <2>1, <3>1 DEF Command
  <2>2. CASE ~(i <= Len(p))
    BY <2>2
  <2> QED
    BY <2>1, <2>2
<1>2. Len(p) + Len(u) \in Nat
  OBVIOUS
<1> QED
  BY <1>1, <1>2 DEF Joined

\* A command sent on the uplink joins the line at its end.
LEMMA JoinedSent ==
    ASSUME NEW p \in Seq(Command), NEW u \in Seq(AllCodes), NEW m \in AllCodes
    PROVE  Joined(p, Append(u, m)) = Append(Joined(p, u), m)
<1> DEFINE v == Append(u, m)
<1>1. /\ v \in Seq(AllCodes) /\ Len(v) = Len(u) + 1 /\ v[Len(u) + 1] = m
      /\ \A i \in 1..Len(u) : v[i] = u[i]
  OBVIOUS
<1> HIDE DEF v
<1> DEFINE J == Joined(p, u)
           K == Joined(p, v)
<1>2. /\ J \in Seq(AllCodes) /\ Len(J) = Len(p) + Len(u)
      /\ \A i \in 1..Len(p) : J[i] = p[i].cc
      /\ \A i \in 1..Len(u) : J[i + Len(p)] = u[i]
  BY JoinedType
<1>3. /\ K \in Seq(AllCodes) /\ Len(K) = Len(p) + Len(v)
      /\ \A i \in 1..Len(p) : K[i] = p[i].cc
      /\ \A i \in 1..Len(v) : K[i + Len(p)] = v[i]
  BY <1>1, JoinedType
<1> HIDE DEF J, K
<1>4. Len(K) = Len(J) + 1 /\ K[Len(J) + 1] = m
  <2>1. Len(u) + 1 \in 1..Len(v) /\ (Len(u) + 1) + Len(p) = Len(J) + 1
    BY <1>1, <1>2
  <2>2. K[(Len(u) + 1) + Len(p)] = v[Len(u) + 1]
    BY <1>3, <2>1
  <2> QED
    BY <1>1, <1>2, <1>3, <2>1, <2>2
<1>5. ASSUME NEW i \in 1..Len(J) PROVE K[i] = J[i]
  <2>1. CASE i <= Len(p)
    BY <1>2, <1>3, <2>1
  <2>2. CASE ~(i <= Len(p))
    <3>1. i - Len(p) \in 1..Len(u) /\ i - Len(p) \in 1..Len(v) /\ (i - Len(p)) + Len(p) = i
      BY <1>1, <1>2, <2>2
    <3>2. J[(i - Len(p)) + Len(p)] = u[i - Len(p)] /\ K[(i - Len(p)) + Len(p)] = v[i - Len(p)]
      BY <1>2, <1>3, <3>1
    <3> QED
      BY <1>1, <3>1, <3>2
  <2> QED
    BY <2>1, <2>2
<1>6. K = Append(J, m)
  BY <1>2, <1>3, <1>4, <1>5
<1> QED
  BY <1>6 DEF J, K, v

\* A command that enters the pipe keeps its place.
LEMMA JoinedMoved ==
    ASSUME NEW p \in Seq(Command), NEW u \in Seq(AllCodes), u # <<>>
    PROVE  Joined(Append(p, [cc |-> Head(u), word |-> Zero]), Tail(u)) = Joined(p, u)
<1> DEFINE c == [cc |-> Head(u), word |-> Zero]
           q == Append(p, c)
           v == Tail(u)
<1>1. /\ Head(u) \in AllCodes /\ v \in Seq(AllCodes) /\ Len(v) = Len(u) - 1
      /\ Head(u) = u[1] /\ \A i \in 1..Len(v) : v[i] = u[i + 1]
  OBVIOUS
<1>2. c \in Command /\ c.cc = u[1]
  BY <1>1, ZeroType DEF Command
<1> HIDE DEF c, v
<1>3. /\ q \in Seq(Command) /\ Len(q) = Len(p) + 1
      /\ q[Len(p) + 1] = c /\ \A i \in 1..Len(p) : q[i] = p[i]
  BY <1>2
<1> HIDE DEF q
<1> DEFINE J == Joined(p, u)
           K == Joined(q, v)
<1>4. /\ J \in Seq(AllCodes) /\ Len(J) = Len(p) + Len(u)
      /\ \A i \in 1..Len(p) : J[i] = p[i].cc
      /\ \A i \in 1..Len(u) : J[i + Len(p)] = u[i]
  BY JoinedType
<1>5. /\ K \in Seq(AllCodes) /\ Len(K) = Len(q) + Len(v)
      /\ \A i \in 1..Len(q) : K[i] = q[i].cc
      /\ \A i \in 1..Len(v) : K[i + Len(q)] = v[i]
  BY <1>1, <1>3, JoinedType
<1> HIDE DEF J, K
<1>6. Len(K) = Len(J)
  BY <1>1, <1>3, <1>4, <1>5
<1>7. ASSUME NEW i \in 1..Len(J) PROVE K[i] = J[i]
  <2>1. CASE i <= Len(p)
    <3>1. K[i] = q[i].cc /\ J[i] = p[i].cc /\ q[i] = p[i]
      BY <1>3, <1>4, <1>5, <2>1
    <3> QED
      BY <3>1
  <2>2. CASE i = Len(p) + 1
    <3>1. 1 \in 1..Len(u) /\ 1 + Len(p) = i /\ i \in 1..Len(q)
      BY <1>3, <1>4, <2>2
    <3>2. J[1 + Len(p)] = u[1] /\ K[i] = q[i].cc /\ q[i].cc = u[1]
      BY <1>2, <1>3, <1>4, <1>5, <2>2, <3>1
    <3> QED
      BY <3>1, <3>2
  <2>3. CASE i > Len(p) + 1
    <3> DEFINE j == i - Len(q)
    <3>1. j \in 1..Len(v) /\ j + 1 \in 1..Len(u) /\ j + Len(q) = i /\ (j + 1) + Len(p) = i
      BY <1>1, <1>3, <1>4, <2>3
    <3>2. K[j + Len(q)] = v[j] /\ J[(j + 1) + Len(p)] = u[j + 1] /\ v[j] = u[j + 1]
      BY <1>1, <1>4, <1>5, <3>1
    <3> QED
      BY <3>1, <3>2
  <2> QED
    BY <2>1, <2>2, <2>3
<1>8. K = J
  <2>1. /\ J \in Seq(AllCodes) /\ K \in Seq(AllCodes) /\ Len(K) = Len(J)
        /\ \A i \in 1..Len(J) : K[i] = J[i]
    BY <1>4, <1>5, <1>6, <1>7
  <2> QED
    BY <2>1
<1> QED
  BY <1>8 DEF J, K, q, v, c

\* One that a full pipe refuses was not the first.
LEMMA JoinedRefused ==
    ASSUME NEW p \in Seq(Command), NEW u \in Seq(AllCodes), u # <<>>, p # <<>>
    PROVE  /\ Len(Joined(p, u)) >= 2
           /\ Len(Joined(p, u)) = 2 => Joined(p, Tail(u)) = <<Joined(p, u)[1]>>
<1> DEFINE v == Tail(u)
<1>1. v \in Seq(AllCodes) /\ Len(v) = Len(u) - 1 /\ Len(u) >= 1 /\ Len(p) >= 1
  OBVIOUS
<1> HIDE DEF v
<1> DEFINE J == Joined(p, u)
           K == Joined(p, v)
<1>2. /\ J \in Seq(AllCodes) /\ Len(J) = Len(p) + Len(u)
      /\ \A i \in 1..Len(p) : J[i] = p[i].cc
      /\ \A i \in 1..Len(u) : J[i + Len(p)] = u[i]
  BY JoinedType
<1>3. /\ K \in Seq(AllCodes) /\ Len(K) = Len(p) + Len(v)
      /\ \A i \in 1..Len(p) : K[i] = p[i].cc
      /\ \A i \in 1..Len(v) : K[i + Len(p)] = v[i]
  BY <1>1, JoinedType
<1> HIDE DEF J, K
<1>4. Len(J) >= 2 /\ Len(K) = Len(J) - 1 /\ K[1] = J[1]
  BY <1>1, <1>2, <1>3
<1>5. Len(J) = 2 => K = <<J[1]>>
  BY <1>3, <1>4
<1> QED
  BY <1>4, <1>5 DEF J, K, v

\* The main task takes the first.
LEMMA JoinedTaken ==
    ASSUME NEW p \in Seq(Command), NEW u \in Seq(AllCodes), p # <<>>
    PROVE  /\ Joined(p, u) # <<>> /\ Joined(p, u)[1] = Head(p).cc
           /\ Joined(Tail(p), u) = Tail(Joined(p, u)) /\ Tail(p) # p
<1> DEFINE q == Tail(p)
<1>1. /\ q \in Seq(Command) /\ Len(q) = Len(p) - 1 /\ Len(p) >= 1 /\ q # p
      /\ Head(p) = p[1] /\ \A i \in 1..Len(q) : q[i] = p[i + 1]
  OBVIOUS
<1> HIDE DEF q
<1> DEFINE J == Joined(p, u)
           K == Joined(q, u)
<1>2. /\ J \in Seq(AllCodes) /\ Len(J) = Len(p) + Len(u)
      /\ \A i \in 1..Len(p) : J[i] = p[i].cc
      /\ \A i \in 1..Len(u) : J[i + Len(p)] = u[i]
  BY JoinedType
<1>3. /\ K \in Seq(AllCodes) /\ Len(K) = Len(q) + Len(u)
      /\ \A i \in 1..Len(q) : K[i] = q[i].cc
      /\ \A i \in 1..Len(u) : K[i + Len(q)] = u[i]
  BY <1>1, JoinedType
<1> HIDE DEF J, K
<1>4. Len(K) = Len(J) - 1 /\ J # <<>> /\ J[1] = Head(p).cc
  BY <1>1, <1>2, <1>3
<1>5. ASSUME NEW i \in 1..Len(K) PROVE K[i] = J[i + 1]
  <2>1. CASE i <= Len(q)
    <3>1. K[i] = q[i].cc /\ i + 1 \in 1..Len(p) /\ q[i] = p[i + 1]
      BY <1>1, <1>3, <2>1
    <3>2. J[i + 1] = p[i + 1].cc
      BY <1>2, <3>1
    <3> QED
      BY <3>1, <3>2
  <2>2. CASE ~(i <= Len(q))
    <3> DEFINE j == i - Len(q)
    <3>1. j \in 1..Len(u) /\ j + Len(q) = i /\ j + Len(p) = i + 1
      BY <1>1, <1>3, <2>2
    <3>2. K[j + Len(q)] = u[j] /\ J[j + Len(p)] = u[j]
      BY <1>2, <1>3, <3>1
    <3> QED
      BY <3>1, <3>2
  <2> QED
    BY <2>1, <2>2
<1>6. K = Tail(J)
  BY <1>2, <1>3, <1>4, <1>5
<1> QED
  BY <1>1, <1>4, <1>6 DEF J, K, q

(***************************************************************************)
(* The same, of the steps.                                                 *)
(***************************************************************************)

\* The line has the type of the uplink.
LEMMA LineType ==
    TypeOK => /\ cmdPipe \in Seq(Command) /\ uplink \in Seq(AllCodes)
              /\ Line \in Seq(AllCodes) /\ Len(Line) = Len(cmdPipe) + Len(uplink)
BY JoinedType DEF Line, TypeOK, AppTypeOK

\* A command of the script joins the line at its end, or is lost.
LEMMA LineSent ==
    ASSUME TypeOK, NEW m \in AllCodes, Transmit(uplink, m, uplink'), UNCHANGED cmdPipe
    PROVE  /\ Line' = Append(Line, m) \/ Line' = Line
           /\ ~disturbed' => Line' = Append(Line, m) /\ ~disturbed
<1>1. cmdPipe \in Seq(Command) /\ uplink \in Seq(AllCodes)
  BY LineType
<1>2. /\ uplink' = Append(uplink, m) \/ uplink' = uplink
      /\ ~disturbed' => uplink' = Append(uplink, m) /\ ~disturbed
  BY <1>1, TransmitType
<1>3. uplink' = Append(uplink, m) => Line' = Append(Line, m)
  BY <1>1, JoinedSent DEF Line
<1>4. uplink' = uplink => Line' = Line
  BY DEF Line
<1> QED
  BY <1>2, <1>3, <1>4

\* The pipe takes the first command of the uplink, or is full.
LEMMA LineUplinked ==
    ASSUME TypeOK, Len(cmdPipe) <= PipeDepth, Uplinked
    PROVE  /\ \/ Line' = Line
              \/ Len(Line) >= 2 /\ (Len(Line) = 2 => Line' = <<Line[1]>>) /\ disturbed'
           /\ ~disturbed' => ~disturbed
           /\ Len(cmdPipe') <= PipeDepth
<1>1. cmdPipe \in Seq(Command) /\ uplink \in Seq(AllCodes) /\ uplink # <<>>
  BY LineType DEF Uplinked
<1>2. disturbed' = (disturbed \/ Len(cmdPipe) = PipeDepth) /\ uplink' = Tail(uplink)
  BY DEF Uplinked
<1>3. CASE Len(cmdPipe) < PipeDepth
  <2>1. cmdPipe' = Append(cmdPipe, [cc |-> Head(uplink), word |-> Zero])
    BY <1>3 DEF Uplinked, Put
  <2>2. Line' = Line
    BY <1>1, <1>2, <2>1, JoinedMoved DEF Line
  <2>3. Len(cmdPipe') <= PipeDepth
    BY <1>1, <1>3, <2>1
  <2> QED
    BY <1>2, <2>2, <2>3
<1>4. CASE ~(Len(cmdPipe) < PipeDepth)
  <2>1. cmdPipe' = cmdPipe
    BY <1>4 DEF Uplinked, Put
  <2>2. Len(cmdPipe) = PipeDepth /\ cmdPipe # <<>>
    BY <1>1, <1>4
  <2>3. Len(Line) >= 2 /\ (Len(Line) = 2 => Line' = <<Line[1]>>)
    BY <1>1, <1>2, <2>1, <2>2, JoinedRefused DEF Line
  <2> QED
    BY <1>2, <2>1, <2>2, <2>3
<1> QED
  BY <1>3, <1>4

\* The main task takes the first command.
LEMMA LineTaken ==
    ASSUME TypeOK, NEW c, Take(c), UNCHANGED uplink
    PROVE  /\ Line # <<>> /\ Line[1] = c /\ Line' = Tail(Line)
           /\ main = "pend" /\ (RunsNoop <=> c = "noop") /\ Len(cmdPipe') <= Len(cmdPipe)
<1>1. cmdPipe \in Seq(Command) /\ uplink \in Seq(AllCodes)
  BY LineType
<1>2. cmdPipe # <<>> /\ Head(cmdPipe).cc = c /\ cmdPipe' = Tail(cmdPipe) /\ main = "pend"
  BY DEF Take
<1>3. /\ Line # <<>> /\ Line[1] = c /\ Line' = Tail(Line) /\ cmdPipe' # cmdPipe
  BY <1>1, <1>2, JoinedTaken DEF Line
<1>4. Len(cmdPipe') <= Len(cmdPipe)
  BY <1>1, <1>2
<1> QED
  BY <1>2, <1>3, <1>4 DEF RunsNoop

-----------------------------------------------------------------------------
(***************************************************************************)
(* Every step preserves the invariant.                                     *)
(***************************************************************************)

\* The steps of the suite, and their places.
LEMMA StepPlaces ==
    TypeOK => /\ at \in 1..7 /\ Step \in AllCodes
              /\ Step \in {"hk", "noop", "reset", "badlength", "badcode"}
              /\ (Step = "hk" <=> at <= 2) /\ (Step = "noop" <=> at \in {3, 4})
              /\ (Step = "reset" <=> at = 5) /\ (Step = "badlength" <=> at = 6)
              /\ (Step = "badcode" <=> at = 7)
BY SuiteSteps DEF TypeOK, Step, AllCodes

\* A report shows the two counters of the packet.
LEMMA ReportFields ==
    \A p : Report(p).cmd = p.CommandCount /\ Report(p).err = p.CommandErrorCount
BY DEF Report

\* The command of a step goes to the uplink.
LEMMA SendStepSafe == ScriptInv /\ SendStep => (AloneInv /\ CalmInv)'
<1> SUFFICES ASSUME ScriptInv, SendStep PROVE AloneInv' /\ CalmInv'
  OBVIOUS
<1>1. /\ TypeOK /\ AloneInv /\ CalmInv /\ Running /\ phase = "command"
      /\ phase' = "request" /\ others' = others /\ outcome' = outcome /\ try' = try
      /\ at' = at /\ Step' = Step /\ hk' = hk /\ main' = main /\ downlink' = downlink
      /\ executed' = executed /\ cmdPipe' = cmdPipe /\ shown' = shown
  BY DEF ScriptInv, SendStep, appVars, Step
<1>2. /\ Step = "hk" => Line' = Line /\ disturbed' = disturbed
      /\ Step # "hk" => \/ Line' = Append(Line, Step)
                        \/ Line' = Line /\ disturbed'
      /\ ~disturbed' => ~disturbed
  <2>1. CASE Step = "hk"
    BY <1>1, <2>1 DEF SendStep, Line
  <2>2. CASE Step # "hk"
    BY <1>1, <2>2, LineSent, StepPlaces DEF SendStep
  <2> QED
    BY <2>1, <2>2
<1>3. /\ try > 1 => expected' = expected /\ base' = base
      /\ ~(try > 1) => /\ base' = executed
                       /\ expected' = IF Step = "noop"
                                         THEN [shown EXCEPT !.cmd = Next0(shown.cmd)]
                                         ELSE shown
  BY DEF SendStep
<1>4. shown \in Reports /\ hk \in HkPacket /\ try \in 1..3
  BY <1>1 DEF TypeOK, AppTypeOK
<1>5. ASSUME others = 0
      PROVE  /\ Line = <<>> /\ ~PacketDue /\ Repeating
             /\ at > 1 => shown = Report(hk)
  BY <1>1, <1>5 DEF AloneInv, Alone, Resting
<1>6. ASSUME others = 0
      PROVE  Line' = <<>> \/ (Step # "hk" /\ Line' = <<Step>>)
  BY <1>2, <1>5, <1>6, Short
<1>7. ASSUME others = 0 PROVE Alone' /\ Repeating'
  <2>1. Alone'
    BY <1>1, <1>5, <1>6, <1>7 DEF Alone, Resting, PacketDue
  <2>2. ASSUME Step = "noop", try > 1
        PROVE  Repeating'
    BY <1>1, <1>3, <1>5, <1>7, <2>2 DEF Repeating
  <2>3. ASSUME Step = "noop", ~(try > 1)
        PROVE  Repeating'
    <3>1. shown = Report(hk) /\ hk.CommandCount \in Counter
      BY <1>1, <1>4, <1>5, <1>7, <2>3, StepPlaces, PacketFields
    <3>2. shown.cmd = hk.CommandCount /\ expected'.cmd = Bump(hk.CommandCount)
      BY <1>3, <1>4, <2>3, <3>1, ReportFields, Next0IsBump DEF Reports
    <3> QED
      BY <1>1, <1>3, <3>2, <2>3 DEF Repeating
  <2>4. ASSUME Step # "noop" PROVE Repeating'
    BY <1>1, <2>4 DEF Repeating
  <2> QED
    BY <2>1, <2>2, <2>3, <2>4
<1>8. AloneInv'
  BY <1>1, <1>7 DEF AloneInv
<1>9. ASSUME ~disturbed' PROVE CalmInv'
  <2>1. ~disturbed /\ others = 0 /\ outcome # "failed" /\ try = 1
    BY <1>1, <1>2, <1>9 DEF CalmInv
  <2>2. Line' = IF Step = "hk" THEN <<>> ELSE <<Step>>
    BY <1>2, <1>5, <1>9, <2>1, Short
  <2>3. Step # "hk" => CommandUp'
    BY <1>1, <2>2, Short DEF CommandUp
  <2>4. Step \in {"badlength", "badcode"} =>
           /\ expected'.err = at - 6 /\ hk.CommandErrorCount = at - 6
           /\ hk.CommandCount = expected'.cmd
    <3>1. Step \in {"badlength", "badcode"} => at >= 6
      BY <1>1, StepPlaces
    <3>2. at >= 6 => hk.CommandErrorCount = at - 6
      BY <1>1, <1>9, <2>1 DEF CalmInv
    <3>3. at >= 6 => shown = Report(hk)
      BY <1>1, <1>5, <2>1, StepPlaces
    <3> QED
      BY <1>3, <2>1, <3>1, <3>2, <3>3, ReportFields
  <2>5. Foreseen'
    BY <1>1, <2>3, <2>4 DEF Foreseen
  <2> QED
    BY <1>1, <2>1, <2>5 DEF CalmInv, OnTime
<1> QED
  BY <1>8, <1>9 DEF CalmInv

\* The request follows it.
LEMMA AskHkSafe == ScriptInv /\ AskHk => (AloneInv /\ CalmInv)'
<1> SUFFICES ASSUME ScriptInv, AskHk PROVE AloneInv' /\ CalmInv'
  OBVIOUS
<1>1. /\ TypeOK /\ AloneInv /\ CalmInv /\ Running /\ phase = "request"
      /\ phase' = "wait" /\ fresh' = FALSE /\ others' = others /\ outcome' = outcome
      /\ at' = at /\ Step' = Step /\ hk' = hk /\ main' = main /\ downlink' = downlink
      /\ executed' = executed /\ base' = base /\ expected' = expected /\ try' = try
      /\ cmdPipe' = cmdPipe /\ shown' = shown
  BY DEF ScriptInv, AskHk, appVars, Step
<1>2. /\ Line' = Append(Line, "hk") \/ Line' = Line
      /\ ~disturbed' => Line' = Append(Line, "hk") /\ ~disturbed
  <2>1. "hk" \in AllCodes
    BY DEF AllCodes
  <2> QED
    BY <1>1, <2>1, LineSent DEF AskHk
<1>3. ASSUME others = 0
      PROVE  /\ ~PacketDue /\ Repeating
             /\ Line = <<>> \/ (Step # "hk" /\ Line = <<Step>>)
  BY <1>1, <1>3 DEF AloneInv, Alone
<1>4. ASSUME others = 0 PROVE Step # "hk" => (CommandUp' <=> CommandUp)
  BY <1>1, <1>2, <1>3, <1>4, Short DEF CommandUp
<1>5. ASSUME others = 0 PROVE Alone' /\ Repeating'
  <2>1. Alone'
    <3>1. \/ Line' = <<>> \/ Line' = <<"hk">>
          \/ Step # "hk" /\ (Line' = <<Step>> \/ Line' = <<Step, "hk">>)
      <4>1. Append(<<>>, "hk") = <<"hk">>
        BY Short, Zenon
      <4>2. Append(<<Step>>, "hk") = <<Step, "hk">>
        BY AfterOne
      <4> QED
        BY <1>2, <1>3, <1>5, <4>1, <4>2
    <3>2. ~PacketDue' /\ main # "delay" /\ downlink = <<>>
      BY <1>1, <1>3, <1>5 DEF PacketDue
    <3> QED
      BY <1>1, <3>1, <3>2 DEF Alone, Resting
  <2>2. Repeating'
    BY <1>1, <1>3, <1>4, <1>5 DEF Repeating
  <2> QED
    BY <2>1, <2>2
<1>6. AloneInv'
  BY <1>1, <1>5 DEF AloneInv
<1>7. ASSUME ~disturbed' PROVE CalmInv'
  <2>1. ~disturbed /\ others = 0 /\ outcome # "failed" /\ try = 1 /\ Foreseen
    BY <1>1, <1>2, <1>7 DEF CalmInv
  <2>2. Line' = <<"hk">> \/ Line' = <<Step, "hk">>
    BY <1>2, <1>3, <1>7, <2>1, Short
  <2>3. Foreseen'
    BY <1>1, <1>4, <2>1, StepPlaces DEF Foreseen
  <2> QED
    BY <1>1, <2>1, <2>2, <2>3 DEF CalmInv, OnTime
<1> QED
  BY <1>6, <1>7 DEF CalmInv

\* The script gives up too early, or something was lost before.
LEMMA ExpiresSafe == ScriptInv /\ Expires => (AloneInv /\ CalmInv)'
<1> SUFFICES ASSUME ScriptInv, Expires PROVE AloneInv' /\ CalmInv'
  OBVIOUS
<1>1. AloneInv'
  BY DEF Expires, AloneInv, Running
<1>2. ASSUME ~disturbed' PROVE FALSE
  <2>1. /\ ~disturbed /\ uplink = <<>> /\ cmdPipe = <<>> /\ main = "pend"
        /\ downlink = <<>> /\ Running /\ phase = "wait" /\ ~fresh
    BY <1>2 DEF Expires
  <2>2. Len(Line) = 0 /\ ~PacketDue
    BY <2>1, LineType DEF ScriptInv, PacketDue
  <2>3. OnTime
    BY <2>1 DEF ScriptInv, CalmInv
  <2> QED
    BY <2>1, <2>2, <2>3, Short DEF OnTime
<1> QED
  BY <1>1, <1>2 DEF CalmInv

\* A NOOP is sent again when it was not executed.
LEMMA RetrySafe == ScriptInv /\ Retry => (AloneInv /\ CalmInv)'
<1> SUFFICES ASSUME ScriptInv, Retry PROVE AloneInv' /\ CalmInv'
  OBVIOUS
<1>1. /\ TypeOK /\ AloneInv /\ CalmInv /\ Running /\ phase = "wait" /\ fresh
      /\ Step = "noop" /\ shown.cmd # expected.cmd
      /\ phase' = "command" /\ fresh' = fresh /\ others' = others /\ outcome' = outcome
      /\ at' = at /\ Step' = Step /\ hk' = hk /\ main' = main /\ downlink' = downlink
      /\ executed' = executed /\ base' = base /\ expected' = expected
      /\ Line' = Line /\ shown' = shown
      /\ disturbed' = disturbed
  BY DEF ScriptInv, Retry, Awaited, Again, appVars, Step, Line
<1>2. ASSUME others = 0
      PROVE  /\ Line = <<>> /\ ~PacketDue /\ shown = Report(hk)
             /\ executed = base /\ expected.cmd = Bump(hk.CommandCount)
  BY <1>1, <1>2, ReportFields DEF AloneInv, Alone, Resting, Repeating
<1>3. ASSUME others = 0 PROVE Alone' /\ Repeating'
  <2>1. Alone'
    BY <1>1, <1>2, <1>3 DEF Alone, Resting, PacketDue
  <2>2. Repeating'
    BY <1>1, <1>2, <1>3 DEF Repeating
  <2> QED
    BY <2>1, <2>2
<1>4. AloneInv'
  BY <1>1, <1>3 DEF AloneInv
<1>5. disturbed'
  <2>1. SUFFICES ASSUME ~disturbed PROVE FALSE
    BY <1>1
  <2>2. others = 0 /\ Foreseen
    BY <1>1, <2>1 DEF CalmInv
  <2>3. ~CommandUp /\ executed = base /\ base \in Nat
    BY <1>1, <1>2, <2>2 DEF CommandUp, TypeOK
  <2> QED
    BY <1>1, <2>2, <2>3 DEF Foreseen
<1> QED
  BY <1>4, <1>5 DEF CalmInv

\* A step is judged when its packet shows the counters as they are.
LEMMA JudgeSafe == ScriptInv /\ Judge => (AloneInv /\ CalmInv)'
<1> SUFFICES ASSUME ScriptInv, Judge PROVE AloneInv' /\ CalmInv'
  OBVIOUS
<1>1. /\ TypeOK /\ AloneInv /\ CalmInv /\ Running /\ phase = "wait" /\ fresh
      /\ phase' = "command" /\ fresh' = fresh /\ others' = others /\ try' = 1
      /\ hk' = hk /\ main' = main /\ downlink' = downlink
      /\ Line' = Line /\ shown' = shown /\ disturbed' = disturbed
  BY DEF ScriptInv, Judge, Awaited, appVars, Line
<1>2. /\ \/ Checked /\ at < 7 /\ at' = at + 1 /\ outcome' = outcome
         \/ outcome' = "passed" /\ at' = at
         \/ ~Checked /\ outcome' = "failed" /\ at' = at
      /\ at \in 1..7
  BY <1>1, StepPlaces, SuiteSteps DEF Judge
<1>3. ASSUME others = 0
      PROVE  /\ Line = <<>> /\ ~PacketDue /\ shown = Report(hk) /\ Repeating
  BY <1>1, <1>3 DEF AloneInv, Alone, Resting
<1>4. ASSUME others = 0 PROVE Alone' /\ Repeating'
  <2>1. Alone'
    BY <1>1, <1>3, <1>4 DEF Alone, Resting, PacketDue
  <2>2. Repeating'
    BY <1>1 DEF Repeating
  <2> QED
    BY <2>1, <2>2
<1>5. AloneInv'
  BY <1>1, <1>4 DEF AloneInv
<1>6. ASSUME ~disturbed' PROVE CalmInv'
  <2>1. /\ ~disturbed /\ others = 0 /\ outcome # "failed" /\ Foreseen /\ ~CommandUp
    BY <1>1, <1>3, <1>6 DEF CalmInv, CommandUp
  <2>2. shown.cmd = hk.CommandCount /\ shown.err = hk.CommandErrorCount
    BY <1>3, <2>1, ReportFields
  <2>3. hk \in HkPacket /\ shown \in Reports /\ expected \in Reports
    BY <1>1 DEF TypeOK, AppTypeOK
  <2>4. Checked
    <3>1. CASE Step = "hk"
      BY <3>1 DEF Checked
    <3>2. CASE Step = "noop"
      <4>1. executed = base + 1 /\ base \in Nat
        BY <1>1, <2>1, <3>2 DEF Foreseen, TypeOK
      <4>2. expected.cmd = hk.CommandCount /\ hk.CommandCount \in Nat
        BY <1>1, <1>3, <2>1, <2>3, <3>2, <4>1, PacketFields DEF Repeating, Counter
      <4> QED
        BY <2>2, <3>2, <4>2 DEF Checked
    <3>3. CASE Step = "reset"
      BY <2>1, <2>2, <3>3 DEF Checked, Foreseen
    <3>4. CASE Step \in {"badlength", "badcode"}
      BY <2>1, <2>2, <3>4 DEF Checked, Foreseen
    <3> QED
      BY <1>1, <3>1, <3>2, <3>3, <3>4, StepPlaces
  <2>5. ASSUME Running', at' >= 6 PROVE hk.CommandErrorCount = at' - 6
    <3>1. at' = at + 1 /\ at \in 5..6
      BY <1>2, <2>4, <2>5 DEF Running
    <3>2. CASE at = 5
      BY <1>1, <2>1, <3>1, <3>2, StepPlaces DEF Foreseen
    <3>3. CASE at = 6
      <4>1. Step = "badlength" /\ expected.err = 0
        BY <1>1, <2>1, <3>3, StepPlaces DEF Foreseen
      <4> QED
        BY <2>1, <3>1, <3>3, <4>1 DEF Foreseen
    <3> QED
      BY <3>1, <3>2, <3>3
  <2>6. outcome' # "failed"
    BY <1>2, <2>1, <2>4
  <2> QED
    BY <1>1, <2>1, <2>5, <2>6 DEF CalmInv, OnTime
<1> QED
  BY <1>5, <1>6 DEF CalmInv

\* A command reaches the pipe, or finds it full.
LEMMA UplinkedSafe == ScriptInv /\ Uplinked => (AloneInv /\ CalmInv)'
<1> SUFFICES ASSUME ScriptInv, Uplinked PROVE AloneInv' /\ CalmInv'
  OBVIOUS
<1>1. /\ TypeOK /\ AloneInv /\ CalmInv /\ at' = at /\ Step' = Step /\ phase' = phase
      /\ try' = try /\ shown' = shown /\ fresh' = fresh /\ expected' = expected
      /\ outcome' = outcome /\ base' = base /\ executed' = executed /\ others' = others
      /\ hk' = hk /\ main' = main /\ downlink' = downlink
  BY DEF ScriptInv, Uplinked, scriptVars, Step
<1>2. /\ \/ Line' = Line
         \/ Len(Line) >= 2 /\ (Len(Line) = 2 => Line' = <<Line[1]>>) /\ disturbed'
      /\ ~disturbed' => ~disturbed
  BY LineUplinked DEF ScriptInv
<1>3. ASSUME Line' = Line PROVE AloneInv' /\ CalmInv'
  <2>1. (Alone' <=> Alone) /\ (CommandUp' <=> CommandUp) /\ (OnTime' <=> OnTime)
    BY <1>1, <1>3 DEF Alone, Resting, PacketDue, CommandUp, OnTime
  <2>2. (Repeating' <=> Repeating) /\ (Foreseen' <=> Foreseen)
    BY <1>1, <2>1 DEF Repeating, Foreseen
  <2> QED
    BY <1>1, <1>2, <2>1, <2>2 DEF AloneInv, CalmInv, Running
<1>4. ASSUME Len(Line) >= 2, Len(Line) = 2 => Line' = <<Line[1]>>, disturbed'
      PROVE  AloneInv' /\ CalmInv'
  <2>1. ASSUME Running, others = 0 PROVE Alone' /\ Repeating'
    <3>1. /\ Alone /\ Repeating
      BY <1>1, <2>1 DEF AloneInv
    <3>2. phase = "wait" /\ ~fresh /\ ~PacketDue /\ Step # "hk" /\ Line = <<Step, "hk">>
      <4>1. /\ Line # <<>> /\ Line # <<"hk">> /\ Line # <<Step>>
        <5>1. Len(<<>>) = 0 /\ Len(<<"hk">>) = 1 /\ Len(<<Step>>) = 1
          BY Short
        <5> QED
          BY <1>4, <5>1
      <4>2. phase \in {"command", "request", "wait"} /\ fresh \in BOOLEAN
        BY <1>1 DEF TypeOK
      <4> QED
        BY <3>1, <4>1, <4>2 DEF Alone, Resting
    <3>3. Line' = <<Step>>
      BY <1>4, <3>2, Short
    <3>4. CommandUp' <=> CommandUp
      BY <1>1, <3>2, <3>3, Short DEF CommandUp
    <3> QED
      BY <1>1, <3>1, <3>2, <3>3, <3>4 DEF Alone, Resting, PacketDue, Repeating
  <2> QED
    BY <1>1, <1>4, <2>1 DEF AloneInv, CalmInv, Running
<1> QED
  BY <1>2, <1>3, <1>4

\* A request of somebody else.
LEMMA OtherRequestSafe == ScriptInv /\ OtherRequest => (AloneInv /\ CalmInv)'
<1> SUFFICES ASSUME ScriptInv, OtherRequest PROVE AloneInv' /\ CalmInv'
  OBVIOUS
<1>1. others' = others + 1 /\ others \in Nat /\ disturbed' = TRUE
  BY DEF ScriptInv, TypeOK, OtherRequest
<1> QED
  BY <1>1 DEF AloneInv, CalmInv

\* A packet reaches the ground.
LEMMA DownlinkedSafe == ScriptInv /\ Downlinked => (AloneInv /\ CalmInv)'
<1> SUFFICES ASSUME ScriptInv, Downlinked PROVE AloneInv' /\ CalmInv'
  OBVIOUS
<1>1. /\ TypeOK /\ AloneInv /\ CalmInv /\ at' = at /\ Step' = Step /\ phase' = phase
      /\ try' = try /\ fresh' = TRUE /\ expected' = expected /\ shown' = Head(downlink)
      /\ outcome' = outcome /\ base' = base /\ executed' = executed /\ others' = others
      /\ hk' = hk /\ main' = main /\ Line' = Line /\ disturbed' = disturbed
      /\ downlink # <<>> /\ downlink' = Tail(downlink)
  BY DEF ScriptInv, Downlinked, appVars, Step, Line
<1>2. ASSUME Running, others = 0
      PROVE  /\ phase = "wait" /\ ~fresh /\ Line = <<>> /\ main # "delay"
             /\ downlink = <<Report(hk)>> /\ Repeating
  BY <1>1, <1>2 DEF AloneInv, Alone, Resting, PacketDue, TypeOK
<1>3. ASSUME Running, others = 0 PROVE downlink' = <<>> /\ shown' = Report(hk)
  BY <1>1, <1>2, <1>3, Short
<1>4. CommandUp' <=> CommandUp
  BY <1>1 DEF CommandUp
<1>5. AloneInv'
  <2>1. ASSUME Running, others = 0 PROVE Alone' /\ Repeating'
    BY <1>1, <1>2, <1>3, <1>4, <2>1 DEF Alone, Resting, PacketDue, Repeating
  <2> QED
    BY <1>1, <2>1 DEF AloneInv, Running
<1>6. CalmInv'
  <2>1. Foreseen' <=> Foreseen
    BY <1>1, <1>4 DEF Foreseen
  <2>2. OnTime' /\ (~disturbed => others = 0)
    BY <1>1 DEF OnTime, CalmInv
  <2>3. Running /\ others = 0 => phase # "command"
    BY <1>2
  <2> QED
    BY <1>1, <2>1, <2>2, <2>3 DEF CalmInv, Running
<1> QED
  BY <1>5, <1>6

(***************************************************************************)
(* The main task executes the command of the step, then its request, and   *)
(* publishes one packet.                                                   *)
(***************************************************************************)

\* What a step of the main task leaves alone.
LEMMA MainFrame ==
    MainStep => /\ at' = at /\ Step' = Step /\ phase' = phase /\ try' = try
                /\ fresh' = fresh /\ expected' = expected /\ shown' = shown
                /\ outcome' = outcome /\ base' = base /\ others' = others
                /\ uplink' = uplink
BY DEF MainStep, scriptVars, Step

\* Where the line stands when the main task takes a command.
LEMMA FirstInLine ==
    ASSUME TypeOK, Running, others = 0, Alone, NEW c, Take(c),
           UNCHANGED <<uplink, at>>
    PROVE  /\ phase # "command" /\ ~Resting /\ ~PacketDue
           /\ c = "hk" => Line' = <<>> /\ phase = "wait" /\ ~fresh /\ ~CommandUp /\ ~CommandUp'
           /\ c # "hk" => /\ c = Step /\ CommandUp /\ ~CommandUp'
                          /\ \/ Line = <<Step>> /\ Line' = <<>>
                             \/ /\ Line = <<Step, "hk">> /\ Line' = <<"hk">>
                                /\ phase = "wait" /\ ~fresh
<1>1. Line # <<>> /\ Line[1] = c /\ Line' = Tail(Line)
  BY LineTaken
<1>2. phase \in {"command", "request", "wait"} /\ fresh \in BOOLEAN
  BY DEF TypeOK
<1>3. /\ ~Resting /\ ~PacketDue /\ phase # "command"
      /\ \/ phase = "wait" /\ ~fresh /\ Line = <<"hk">>
         \/ Step # "hk" /\ Line = <<Step>>
         \/ Step # "hk" /\ phase = "wait" /\ ~fresh /\ Line = <<Step, "hk">>
  <2>1. phase # "command" /\ ~(phase = "wait" /\ fresh) /\ ~Resting
    BY <1>1 DEF Alone, Resting
  <2>2. CASE phase = "request"
    BY <1>1, <2>1, <2>2 DEF Alone
  <2>3. CASE phase = "wait"
    BY <1>1, <2>1, <2>3 DEF Alone
  <2> QED
    BY <1>2, <2>1, <2>2, <2>3
<1>4. CASE phase = "wait" /\ ~fresh /\ Line = <<"hk">>
  <2>1. c = "hk" /\ Line' = <<>>
    BY <1>1, <1>4, Short
  <2>2. ~CommandUp /\ ~CommandUp'
    BY <1>4, <2>1, Short DEF CommandUp
  <2> QED
    BY <1>3, <1>4, <2>1, <2>2
<1>5. CASE Step # "hk" /\ Line = <<Step>>
  <2>1. c = Step /\ Line' = <<>>
    BY <1>1, <1>5, Short
  <2>2. CommandUp /\ ~CommandUp'
    BY <1>3, <1>5, <2>1, Short DEF CommandUp
  <2> QED
    BY <1>3, <1>5, <2>1, <2>2
<1>6. CASE Step # "hk" /\ phase = "wait" /\ ~fresh /\ Line = <<Step, "hk">>
  <2>1. c = Step /\ Line' = <<"hk">> /\ Line[1] = Step
    BY <1>1, <1>6, Short
  <2>2. CommandUp /\ ~CommandUp'
    <3>1. Line'[1] = "hk"
      BY <2>1, Short
    <3>2. Step' = Step
      BY DEF Step
    <3> QED
      BY <1>3, <1>6, <2>1, <3>1, <3>2 DEF CommandUp
  <2> QED
    BY <1>3, <1>6, <2>1, <2>2
<1> QED
  BY <1>3, <1>4, <1>5, <1>6

\* What is left to show of a step in which the main task takes a ground command.
LEMMA TakenSafe ==
    ASSUME ScriptInv, MainStep, NEW c \in AllCodes, Take(c), c # "hk",
           downlink' = downlink, lost' = lost, disturbed' = disturbed, main' = main,
           Running /\ others = 0 /\ c = Step /\ CommandUp /\ ~CommandUp'
              /\ Alone /\ Repeating => Repeating',
           ~disturbed /\ Running /\ others = 0 /\ c = Step /\ CommandUp /\ ~CommandUp'
              /\ Foreseen /\ Repeating => Foreseen'
    PROVE  (AloneInv /\ CalmInv)'
<1>1. TypeOK /\ AloneInv /\ CalmInv
  BY DEF ScriptInv
<1>2. /\ at' = at /\ Step' = Step /\ phase' = phase /\ try' = try /\ fresh' = fresh
      /\ expected' = expected /\ shown' = shown /\ outcome' = outcome /\ base' = base
      /\ others' = others /\ uplink' = uplink
  BY MainFrame
<1>3. ASSUME Running, others = 0
      PROVE  /\ phase # "command" /\ ~Resting /\ ~PacketDue
             /\ c = Step /\ CommandUp /\ ~CommandUp'
             /\ \/ Line = <<Step>> /\ Line' = <<>>
                \/ Line = <<Step, "hk">> /\ Line' = <<"hk">> /\ phase = "wait" /\ ~fresh
             /\ Alone /\ Repeating
  <2>1. Alone /\ Repeating
    BY <1>1, <1>3 DEF AloneInv
  <2>2. Take(c) /\ uplink' = uplink /\ at' = at
    BY <1>2
  <2> QED
    BY <1>1, <1>3, <2>1, <2>2, FirstInLine
<1>4. AloneInv'
  <2>1. ASSUME Running, others = 0 PROVE Alone' /\ Repeating'
    <3>1. ~PacketDue' /\ ~Resting' /\ (Line' = <<>> \/ (Line' = <<"hk">> /\ phase' = "wait"))
      BY <1>2, <1>3, <2>1 DEF PacketDue, Resting
    <3>2. Alone'
      BY <1>2, <3>1 DEF Alone, PacketDue
    <3> QED
      BY <1>3, <2>1, <3>2
  <2> QED
    BY <1>2, <2>1 DEF AloneInv, Running
<1>5. CalmInv'
  <2>1. ASSUME ~disturbed, Running PROVE OnTime' /\ Foreseen' /\ phase' # "command"
    <3>1. others = 0 /\ OnTime
      BY <1>1, <2>1 DEF CalmInv
    <3>2. phase # "command" /\ Foreseen /\ CommandUp /\ ~CommandUp' /\ c = Step /\ Repeating
      BY <1>1, <1>3, <2>1, <3>1 DEF CalmInv
    <3>3. OnTime'
      <4>1. phase = "wait" /\ ~fresh => Line = <<"hk">> \/ Line = <<Step, "hk">>
        BY <1>3, <2>1, <3>1 DEF OnTime
      <4>2. Line # <<"hk">>
        BY <3>2, Short DEF CommandUp
      <4>3. <<Step>> # <<Step, "hk">>
        <5>1. Len(<<Step>>) = 1 /\ Len(<<Step, "hk">>) = 2
          BY Short
        <5> QED
          BY <5>1
      <4> QED
        BY <1>2, <1>3, <2>1, <3>1, <4>1, <4>2, <4>3 DEF OnTime
    <3>4. Foreseen'
      BY <2>1, <3>1, <3>2
    <3> QED
      BY <1>2, <3>2, <3>3, <3>4
  <2> QED
    BY <1>1, <1>2, <2>1 DEF CalmInv, Running
<1> QED
  BY <1>4, <1>5

\* A ground command publishes nothing.
LEMMA ServedFrame ==
    MainStep /\ Served => downlink' = downlink /\ lost' = lost /\ disturbed' = disturbed
                          /\ main' = main
<1> SUFFICES ASSUME MainStep, Served
             PROVE  downlink' = downlink /\ lost' = lost /\ disturbed' = disturbed /\ main' = main
  OBVIOUS
<1>1. done' = done /\ main' = main
  BY DEF Served
<1>2. UNCHANGED <<downlink, lost, disturbed>>
  BY <1>1 DEF MainStep
<1> QED
  BY <1>1, <1>2

\* A NOOP is executed when it is the command of the step.
LEMMA NoopSafe == ScriptInv /\ MainStep /\ Noop => (AloneInv /\ CalmInv)'
<1> SUFFICES ASSUME ScriptInv, MainStep, Noop PROVE (AloneInv /\ CalmInv)'
  OBVIOUS
<1>1. Take("noop") /\ "noop" \in AllCodes
  BY DEF Noop, AllCodes
<1>2. /\ hk' = [hk EXCEPT !.CommandCount = Bump(hk.CommandCount)]
      /\ downlink' = downlink /\ lost' = lost /\ disturbed' = disturbed /\ main' = main
  BY ServedFrame DEF Noop
<1>3. executed' = executed + 1
  BY <1>1, LineTaken, MainFrame DEF MainStep, ScriptInv
<1>4. hk \in HkPacket /\ executed \in Nat /\ base \in Nat
  BY DEF ScriptInv, TypeOK, AppTypeOK
<1>5. hk'.CommandCount = Bump(hk.CommandCount)
  BY <1>2, <1>4 DEF HkPacket
<1>6. ASSUME Running, Step = "noop", CommandUp, ~CommandUp', Repeating
      PROVE  Repeating' /\ executed' = base' + 1
  <2>1. phase # "command" /\ executed = base /\ expected.cmd = Bump(hk.CommandCount)
    BY <1>4, <1>6 DEF Repeating, CommandUp
  <2> QED
    BY <1>3, <1>4, <1>5, <1>6, <2>1, MainFrame DEF Repeating
<1>7. ASSUME Running, Step = "noop", CommandUp, ~CommandUp', Repeating
      PROVE  Foreseen'
  BY <1>6, <1>7, MainFrame DEF Foreseen
<1> QED
  BY <1>1, <1>2, <1>6, <1>7, TakenSafe

\* RESET clears the counters when it is the command of the step.
LEMMA ResetSafe == ScriptInv /\ MainStep /\ Reset => (AloneInv /\ CalmInv)'
<1> SUFFICES ASSUME ScriptInv, MainStep, Reset PROVE (AloneInv /\ CalmInv)'
  OBVIOUS
<1>1. Take("reset") /\ "reset" \in AllCodes
  BY DEF Reset, AllCodes
<1>2. /\ hk' = ResetCounters
      /\ downlink' = downlink /\ lost' = lost /\ disturbed' = disturbed /\ main' = main
  BY ServedFrame DEF Reset
<1>3. ASSUME Step = "reset" PROVE Repeating' /\ Foreseen'
  <2>1. Step' = "reset"
    BY <1>3, MainFrame
  <2>2. hk'.CommandCount = 0 /\ hk'.CommandErrorCount = 0
    BY <1>2 DEF ResetCounters
  <2> QED
    BY <2>1, <2>2 DEF Repeating, Foreseen
<1> QED
  BY <1>1, <1>2, <1>3, TakenSafe

\* A command that is refused adds one to the error counter, which is 0 or 1.
LEMMA InvalidSafe == ScriptInv /\ MainStep /\ Invalid => (AloneInv /\ CalmInv)'
<1> SUFFICES ASSUME ScriptInv, MainStep, Invalid PROVE (AloneInv /\ CalmInv)'
  OBVIOUS
<1>1. PICK c \in {"badlength", "badcode", "badtlm"} : Take(c)
  BY DEF Invalid
<1>2. /\ hk' = [hk EXCEPT !.CommandErrorCount = Bump(hk.CommandErrorCount)]
      /\ downlink' = downlink /\ lost' = lost /\ disturbed' = disturbed /\ main' = main
  BY ServedFrame DEF Invalid
<1>3. c \in AllCodes /\ c # "hk" /\ c # "noop"
  BY <1>1 DEF AllCodes
<1>4. hk \in HkPacket /\ hk.CommandErrorCount \in Counter
  BY PacketFields DEF ScriptInv, TypeOK, AppTypeOK
<1>5. /\ hk'.CommandErrorCount = Bump(hk.CommandErrorCount)
      /\ hk'.CommandCount = hk.CommandCount
  BY <1>2, <1>4 DEF HkPacket
<1>6. ASSUME c = Step, CommandUp, ~CommandUp', Foreseen PROVE Foreseen'
  <2>1. Step \in {"badlength", "badcode"} /\ at \in 6..7
    BY <1>1, <1>6, StepPlaces DEF ScriptInv
  <2>2. /\ expected.err = at - 6 /\ hk.CommandCount = expected.cmd
        /\ hk.CommandErrorCount = at - 6
    BY <1>6, <2>1 DEF Foreseen
  <2>3. Bump(hk.CommandErrorCount) = (at - 6) + 1
    BY <1>4, <2>1, <2>2, BumpValue
  <2> QED
    BY <1>5, <1>6, <2>1, <2>2, <2>3, MainFrame DEF Foreseen
<1>7. ASSUME c = Step PROVE Repeating'
  BY <1>3, <1>7, MainFrame DEF Repeating
<1> QED
  BY <1>1, <1>2, <1>3, <1>6, <1>7, TakenSafe

\* The script sends no other command; another one would have come from others.
LEMMA OtherCommandSafe ==
    ScriptInv /\ MainStep /\ (ConfigSent \/ ConfigNotSent \/ Proximity)
        => (AloneInv /\ CalmInv)'
<1> SUFFICES ASSUME ScriptInv, MainStep, ConfigSent \/ ConfigNotSent \/ Proximity
             PROVE  (AloneInv /\ CalmInv)'
  OBVIOUS
<1>1. PICK c \in {"config", "prox"} : Take(c)
  BY DEF ConfigSent, ConfigNotSent, Proximity
<1>2. Served
  BY DEF ConfigSent, ConfigNotSent, Proximity
<1>3. downlink' = downlink /\ lost' = lost /\ disturbed' = disturbed /\ main' = main
  BY <1>2, ServedFrame
<1>4. c \in AllCodes /\ c # "hk" /\ c # Step
  BY <1>1, StepPlaces DEF AllCodes, ScriptInv
<1> QED
  BY <1>1, <1>3, <1>4, TakenSafe

\* The request is taken when the command was.
LEMMA HkSendSafe == ScriptInv /\ MainStep /\ HkSend => (AloneInv /\ CalmInv)'
<1> SUFFICES ASSUME ScriptInv, MainStep, HkSend PROVE AloneInv' /\ CalmInv'
  OBVIOUS
<1>1. /\ TypeOK /\ AloneInv /\ CalmInv /\ Take("hk") /\ hk' = hk
      /\ main' = "delay" /\ done' = done
  BY DEF ScriptInv, HkSend
<1>2. downlink' = downlink /\ lost' = lost /\ disturbed' = disturbed
  BY <1>1 DEF MainStep
<1>3. executed' = executed
  BY <1>1, LineTaken, MainFrame DEF MainStep
<1>4. /\ at' = at /\ Step' = Step /\ phase' = phase /\ try' = try /\ fresh' = fresh
      /\ expected' = expected /\ shown' = shown /\ outcome' = outcome /\ base' = base
      /\ others' = others /\ uplink' = uplink
  BY MainFrame
<1>5. ASSUME Running, others = 0
      PROVE  /\ phase = "wait" /\ ~fresh /\ ~PacketDue /\ ~CommandUp /\ ~CommandUp'
             /\ Line' = <<>> /\ Repeating
  <2>1. Alone /\ Repeating
    BY <1>1, <1>5 DEF AloneInv
  <2> QED
    BY <1>1, <1>4, <1>5, <2>1, FirstInLine
<1>6. AloneInv'
  <2>1. ASSUME Running, others = 0 PROVE Alone' /\ Repeating'
    <3>1. Alone'
      BY <1>1, <1>2, <1>4, <1>5, <2>1 DEF Alone, Resting, PacketDue
    <3>2. Repeating'
      BY <1>1, <1>3, <1>4, <1>5, <2>1 DEF Repeating
    <3> QED
      BY <3>1, <3>2
  <2> QED
    BY <1>4, <2>1 DEF AloneInv, Running
<1>7. CalmInv'
  <2>1. ASSUME ~disturbed, Running PROVE OnTime' /\ Foreseen' /\ phase' # "command"
    <3>1. others = 0
      BY <1>1, <2>1 DEF CalmInv
    <3>2. phase = "wait" /\ Foreseen /\ ~CommandUp /\ ~CommandUp'
      BY <1>1, <1>5, <2>1, <3>1 DEF CalmInv
    <3>3. OnTime'
      BY <1>1 DEF OnTime, PacketDue
    <3>4. Foreseen'
      BY <1>1, <1>3, <1>4, <3>2 DEF Foreseen
    <3> QED
      BY <1>4, <3>2, <3>3, <3>4
  <2> QED
    BY <1>1, <1>2, <1>4, <2>1 DEF CalmInv, Running
<1> QED
  BY <1>6, <1>7

\* The packet is published when request and command were taken, and shows the
\* counters of commands as they are.
LEMMA HkDoneSafe == ScriptInv /\ MainStep /\ (HkHit \/ HkMiss) => (AloneInv /\ CalmInv)'
<1> SUFFICES ASSUME ScriptInv, MainStep, HkHit \/ HkMiss PROVE AloneInv' /\ CalmInv'
  OBVIOUS
<1>1. /\ TypeOK /\ AloneInv /\ CalmInv
      /\ main = "delay" /\ main' = "pend" /\ done' = done + 1 /\ tlm' = hk'
      /\ cmdPipe' = cmdPipe
  BY DEF ScriptInv, HkHit, HkMiss
<1>2. /\ hk \in HkPacket /\ done \in Nat /\ downlink \in Seq(Reports) /\ hk' \in HkPacket
  <2>1. TypeOK'
    BY ScriptNextTypes DEF ScriptInv, Next
  <2> QED
    BY <1>1, <2>1 DEF TypeOK, AppTypeOK
<1>3. hk'.CommandCount = hk.CommandCount /\ hk'.CommandErrorCount = hk.CommandErrorCount
  BY <1>2 DEF HkHit, HkMiss, HkPacket
<1>4. Report(tlm') = Report(hk') /\ Report(hk') = Report(hk) /\ Report(hk) \in Reports
  BY <1>1, <1>2, <1>3, ReportType DEF Report
<1>5. /\ downlink' = Append(downlink, Report(hk)) \/ downlink' = downlink
      /\ ~disturbed' => downlink' = Append(downlink, Report(hk)) /\ ~disturbed
  <2>1. Transmit(downlink, Report(hk), downlink')
    BY <1>1, <1>2, <1>4 DEF MainStep
  <2> QED
    BY <1>1, <1>2, <1>4, <2>1, TransmitType
<1>6. /\ at' = at /\ Step' = Step /\ phase' = phase /\ try' = try /\ fresh' = fresh
      /\ expected' = expected /\ shown' = shown /\ outcome' = outcome /\ base' = base
      /\ others' = others /\ Line' = Line /\ executed' = executed
  BY <1>1, MainFrame DEF MainStep, RunsNoop, Line
<1>7. ASSUME Running, others = 0
      PROVE  /\ phase = "wait" /\ ~fresh /\ Line = <<>> /\ downlink = <<>> /\ Repeating
  <2>1. phase \in {"command", "request", "wait"} /\ fresh \in BOOLEAN
    BY <1>1 DEF TypeOK
  <2>2. Alone /\ Repeating /\ PacketDue
    BY <1>1, <1>7 DEF AloneInv, PacketDue
  <2> QED
    BY <1>1, <2>1, <2>2 DEF Alone, Resting
<1>8. CommandUp' <=> CommandUp
  BY <1>6 DEF CommandUp
<1>9. ASSUME Running, others = 0
      PROVE  /\ downlink' = <<>> \/ downlink' = <<Report(hk')>>
             /\ ~disturbed' => downlink' # <<>>
  BY <1>4, <1>5, <1>7, <1>9, Short
<1>10. AloneInv'
  <2>1. ASSUME Running, others = 0 PROVE Alone' /\ Repeating'
    <3>1. Alone'
      BY <1>1, <1>6, <1>7, <1>9, <2>1 DEF Alone, Resting, PacketDue
    <3>2. Repeating'
      BY <1>3, <1>6, <1>7, <1>8, <2>1 DEF Repeating
    <3> QED
      BY <3>1, <3>2
  <2> QED
    BY <1>6, <2>1 DEF AloneInv, Running
<1>11. CalmInv'
  <2>1. ASSUME ~disturbed', Running PROVE OnTime' /\ Foreseen' /\ phase' # "command"
    <3>1. others = 0 /\ ~disturbed
      BY <1>1, <1>5, <2>1 DEF CalmInv
    <3>2. phase = "wait" /\ Foreseen
      BY <1>1, <1>7, <2>1, <3>1 DEF CalmInv
    <3>3. OnTime'
      BY <1>9, <2>1, <3>1 DEF OnTime, PacketDue
    <3>4. Foreseen'
      BY <1>3, <1>6, <1>8, <3>2 DEF Foreseen
    <3> QED
      BY <1>6, <3>2, <3>3, <3>4
  <2> QED
    BY <1>1, <1>5, <1>6, <2>1 DEF CalmInv, Running
<1> QED
  BY <1>10, <1>11

\* The main task.
LEMMA MainStepSafe == ScriptInv /\ MainStep => (AloneInv /\ CalmInv)'
<1> SUFFICES ASSUME ScriptInv, MainStep PROVE (AloneInv /\ CalmInv)'
  OBVIOUS
<1>1. \/ Noop \/ Reset \/ Invalid \/ ConfigSent \/ ConfigNotSent \/ Proximity
      \/ HkSend \/ HkHit \/ HkMiss
  BY DEF MainStep, MainTask
<1> QED
  BY <1>1, NoopSafe, ResetSafe, InvalidSafe, OtherCommandSafe, HkSendSafe, HkDoneSafe

\* The pipe takes no more than it holds.
LEMMA PipeBound ==
    ASSUME ScriptInv, [Next]_vars
    PROVE  Len(cmdPipe') <= PipeDepth
<1>1. TypeOK /\ Len(cmdPipe) <= PipeDepth /\ cmdPipe \in Seq(Command)
  BY DEF ScriptInv, TypeOK, AppTypeOK
<1>2. CASE UNCHANGED cmdPipe
  BY <1>1, <1>2
<1>3. CASE Uplinked
  BY <1>1, <1>3, LineUplinked
<1>4. CASE OtherRequest
  <2>1. \/ Len(cmdPipe) < PipeDepth /\ cmdPipe' = Append(cmdPipe, [cc |-> "hk", word |-> Zero])
        \/ cmdPipe' = cmdPipe
    BY <1>4 DEF OtherRequest, Put
  <2> QED
    BY <1>1, <2>1
<1>5. CASE MainStep
  <2>1. \/ \E c \in AllCodes : Take(c)
        \/ UNCHANGED cmdPipe
    BY <1>5 DEF MainStep, MainTask, Noop, Reset, Invalid, ConfigSent, ConfigNotSent,
                Proximity, HkSend, HkHit, HkMiss, AllCodes
  <2> QED
    BY <1>1, <1>2, <2>1 DEF Take
<1>6. \/ UNCHANGED cmdPipe
      \/ Uplinked \/ OtherRequest \/ MainStep
  BY DEF Next, Script, SendStep, AskHk, Expires, Retry, Judge, Downlinked, appVars, vars
<1> QED
  BY <1>2, <1>3, <1>4, <1>5, <1>6

\* The script's first state.
LEMMA ScriptInvInit == Init => ScriptInv
<1> SUFFICES ASSUME Init PROVE ScriptInv
  OBVIOUS
<1>1. PortsTypeOK /\ TypeOK
  BY ScriptInitTypes
<1>2. /\ phase = "command" /\ at = 1 /\ try = 1 /\ outcome = "running" /\ others = 0
      /\ cmdPipe = <<>> /\ uplink = <<>> /\ main = "pend" /\ downlink = <<>>
  BY DEF Init
<1>3. Line = <<>> /\ Len(cmdPipe) <= PipeDepth
  <2>1. Len(Line) = 0 /\ Line \in Seq(AllCodes)
    BY <1>1, <1>2, LineType
  <2> QED
    BY <1>2, <2>1
<1>4. Step = "hk"
  BY <1>1, <1>2, StepPlaces
<1>5. AloneInv
  BY <1>2, <1>3, <1>4 DEF AloneInv, Alone, Resting, PacketDue, Repeating
<1>6. CalmInv
  BY <1>2 DEF CalmInv, OnTime
<1> QED
  BY <1>1, <1>3, <1>5, <1>6 DEF ScriptInv

\* The invariant is inductive.
LEMMA ScriptInvStep == ScriptInv /\ [Next]_vars => ScriptInv'
<1> SUFFICES ASSUME ScriptInv, [Next]_vars PROVE ScriptInv'
  OBVIOUS
<1>1. PortsTypeOK' /\ TypeOK'
  BY ScriptNextTypes DEF ScriptInv
<1>2. Len(cmdPipe') <= PipeDepth
  BY PipeBound
<1>3. (AloneInv /\ CalmInv)'
  <2>1. CASE UNCHANGED vars
    <3>1. /\ UNCHANGED <<at, phase, try, shown, fresh, expected, outcome, base, executed,
                          others, disturbed, hk, main, downlink>>
          /\ Line' = Line /\ Step' = Step
      BY <2>1 DEF vars, scriptVars, appVars, Line, Step
    <3>2. (Alone' <=> Alone) /\ (CommandUp' <=> CommandUp) /\ (OnTime' <=> OnTime)
      BY <3>1 DEF Alone, Resting, PacketDue, CommandUp, OnTime
    <3>3. (Repeating' <=> Repeating) /\ (Foreseen' <=> Foreseen)
      BY <3>1, <3>2 DEF Repeating, Foreseen
    <3> QED
      BY <3>1, <3>2, <3>3 DEF ScriptInv, AloneInv, CalmInv, Running
  <2>2. CASE Next
    BY <2>2, SendStepSafe, AskHkSafe, ExpiresSafe, RetrySafe, JudgeSafe, UplinkedSafe,
       OtherRequestSafe, MainStepSafe, DownlinkedSafe DEF Next, Script
  <2> QED
    BY <2>1, <2>2
<1> QED
  BY <1>1, <1>2, <1>3 DEF ScriptInv

-----------------------------------------------------------------------------
(***************************************************************************)
(* Every variable of the script, of the links and of the application keeps *)
(* its type, for every width of the counters and depth of the pipe.        *)
(***************************************************************************)
THEOREM ScriptTypes == Spec => []TypeOK
<1>1. Init => PortsTypeOK /\ TypeOK
  BY ScriptInitTypes
<1>2. PortsTypeOK /\ TypeOK /\ [Next]_vars => (PortsTypeOK /\ TypeOK)'
  BY ScriptNextTypes
<1> QED
  BY <1>1, <1>2, PTL DEF Spec

(***************************************************************************)
(* The test is no false alarm, from whatever counters the application      *)
(* starts with: when nothing was lost or came late and nobody else asked   *)
(* for housekeeping, no step fails and no NOOP is sent a second time.      *)
(***************************************************************************)
THEOREM NoFalseAlarm == Spec => []CalmPasses
<1>1. Init => ScriptInv
  BY ScriptInvInit
<1>2. ScriptInv /\ [Next]_vars => ScriptInv'
  BY ScriptInvStep
<1>3. ScriptInv => CalmPasses
  BY DEF ScriptInv, CalmInv, CalmPasses
<1> QED
  BY <1>1, <1>2, <1>3, PTL DEF Spec

\* A NOOP step ends well after one execution, or after none when the counter wraps.
LEMMA NoopPassedOnce ==
    ASSUME ScriptInv, [Next]_vars, NoopPassed, others = 0
    PROVE  executed = base + 1 \/ (expected.cmd = 0 /\ executed = base)
<1>1. at' # at /\ Step = "noop"
  BY DEF NoopPassed
<1>2. Judge
  BY <1>1 DEF Next, Script, SendStep, AskHk, Expires, Retry, Uplinked, OtherRequest,
              MainStep, Downlinked, scriptVars, vars
<1>3. Running /\ phase = "wait" /\ fresh /\ Checked
  BY <1>1, <1>2 DEF Judge, Awaited
<1>4. shown = Report(hk) /\ Repeating
  BY <1>3 DEF ScriptInv, AloneInv, Alone, Resting
<1>5. CASE executed = base /\ expected.cmd = Bump(hk.CommandCount)
  <2>1. shown.cmd = hk.CommandCount /\ shown.cmd >= expected.cmd
    BY <1>1, <1>3, <1>4, ReportFields DEF Checked
  <2>2. hk.CommandCount \in Counter
    BY PacketFields DEF ScriptInv, TypeOK, AppTypeOK
  <2>3. expected.cmd = 0
    BY <1>5, <2>1, <2>2, BumpValue DEF Counter
  <2> QED
    BY <1>5, <2>3
<1> QED
  BY <1>1, <1>3, <1>4, <1>5 DEF Repeating

(***************************************************************************)
(* The repetition is safe: while the script alone asks for housekeeping, a *)
(* NOOP step that passes has executed its NOOP exactly once, whatever was  *)
(* lost, unless the counter wrapped.                                       *)
(***************************************************************************)
THEOREM PassedMeansExecuted == Spec => ExecutedOnce
<1>1. Init => ScriptInv
  BY ScriptInvInit
<1>2. ScriptInv /\ [Next]_vars => ScriptInv'
  BY ScriptInvStep
<1>3. ScriptInv /\ [Next]_vars =>
        [NoopPassed => \/ executed = base + 1
                       \/ expected.cmd = 0 /\ executed = base
                       \/ others > 0]_vars
  <2>1. ScriptInv => others = 0 \/ others > 0
    BY DEF ScriptInv, TypeOK
  <2> QED
    BY <2>1, NoopPassedOnce
<1> QED
  BY <1>1, <1>2, <1>3, PTL DEF Spec, ExecutedOnce

=============================================================================

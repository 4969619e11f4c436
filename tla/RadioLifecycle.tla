--------------------------- MODULE RadioLifecycle ---------------------------
(***************************************************************************)
(* Start-up and end of the cFS application, and its child task ProxyTask.  *)
(* The two tasks share RunStatus and ProxySocket with no lock.  Either may *)
(* be the first to learn that the application must stop: the main task     *)
(* waits for a message for ever, and looks at RunStatus only after one.    *)
(*                                                                         *)
(* cFE's Executive Services (ES) are external.  They may ask the           *)
(* application to stop, delete both tasks wherever they stand when the     *)
(* request is not honoured in time, delete the child as soon as the main   *)
(* task has exited, and start the application again.  A UDP port that a    *)
(* deleted task left bound cannot be bound again.                          *)
(***************************************************************************)
EXTENDS Naturals, Sequences

CONSTANTS Faulty,       \* TRUE: services called at start-up, the pipe and
                        \* recv may fail
          MaxInstances, \* BOUND: how often ES starts the application
          MaxMessages,  \* BOUND: messages the pipe delivers
          MaxDatagrams, \* BOUND: datagrams that reach ProxySocket
          MaxErrors     \* BOUND: failing reads of ProxySocket

ASSUME LifecycleAssumption ==
    /\ Faulty \in BOOLEAN
    /\ MaxInstances \in Nat /\ MaxMessages \in Nat
    /\ MaxDatagrams \in Nat /\ MaxErrors \in Nat

VARIABLES main,      \* where the main task stands
          step,      \* the step of AppInit it takes next
          child,     \* where ProxyTask stands
          runStatus, \* RunStatus: "run", "error" or "exit"
          request,   \* ES: the application has been asked to stop
          sock,      \* RadioSocket and ProxySocket: "zero" until AppInit
                     \* fills in the structure, "none" for sockfd = -1
          held,      \* ports that earlier instances left bound
          rx,        \* datagrams in the buffer of ProxySocket
          readData,  \* read_data: the number of the datagram that each half
                     \* of the buffer comes from, 0 for zeros
          published, \* history: what ProxyTask put on the Software Bus
          inst,      \* history: instances started
          messages,  \* history: messages the main task received
          arrived,   \* history: datagrams that reached ProxySocket
          errors,    \* history: reads that failed
          late,      \* history: uses of a closed ProxySocket, this instance
          cause      \* history: what may have left a port bound

mainVars == <<main, step, messages, late>>
childVars == <<child, rx, readData, published, arrived, errors>>
esVars == <<request, held, inst, cause>>
vars == <<mainVars, childVars, esVars, runStatus, sock>>

Sockets == {"radio", "prox"}
Steps == <<"evs", "pipe", "subcmd", "subhk", "radio", "prox", "child", "event">>
Blank == [i \in {1, 2} |-> 0]

Init ==
    /\ main = "init" /\ step = 1 /\ child = "none"
    /\ runStatus = "run" /\ request = FALSE
    /\ sock = [s \in Sockets |-> "zero"]
    /\ held = {} /\ cause = {}
    /\ rx = <<>> /\ readData = Blank /\ published = <<>>
    /\ inst = 1 /\ messages = 0 /\ arrived = 0 /\ errors = 0 /\ late = 0

-----------------------------------------------------------------------------
\* CFE_ES_RunLoop(&RunStatus): TRUE while nobody has a reason to stop; else it
\* leaves the reason in RunStatus, where the other task sees it too.
Continue == runStatus = "run" /\ ~request /\ UNCHANGED runStatus
Stop ==
    /\ runStatus # "run" \/ request
    /\ runStatus' = IF runStatus = "run" THEN "exit" ELSE runStatus

(* The main task. *)

\* One call of AppInit succeeds.
InitStep ==
    /\ main = "init"
    /\ Steps[step] \in Sockets => Steps[step] \notin held
    /\ sock' = IF Steps[step] \in Sockets
                  THEN [sock EXCEPT ![Steps[step]] = "open"] ELSE sock
    /\ child' = IF Steps[step] = "child" THEN "loop" ELSE child
    /\ step' = step + 1
    /\ main' = IF step = Len(Steps) THEN "loop" ELSE "init"
    /\ UNCHANGED <<messages, late, rx, readData, published, arrived, errors,
                   esVars, runStatus>>

\* One call of AppInit fails: what was created before it stays as it is.
InitFails ==
    /\ main = "init"
    /\ Faulty \/ Steps[step] \in held
    /\ sock' = IF Steps[step] \in Sockets
                  THEN [sock EXCEPT ![Steps[step]] = "none"] ELSE sock
    /\ cause' = IF Steps[step] = "child" THEN cause \cup {"orphan"} ELSE cause
    /\ runStatus' = "error"
    /\ main' = "loop"
    /\ UNCHANGED <<step, messages, late, childVars, request, held, inst>>

MainLoop ==
    /\ main = "loop"
    /\ \/ Continue /\ main' = "pend"
       \/ Stop /\ main' = "close"
    /\ UNCHANGED <<step, messages, late, childVars, esVars, sock>>

\* A proximity command, or any other message: those do not use ProxySocket.
Receive ==
    /\ main = "pend"
    /\ messages < MaxMessages
    /\ messages' = messages + 1
    /\ main' \in {"forward", "loop"}
    /\ UNCHANGED <<step, late, childVars, esVars, runStatus, sock>>

\* Mutant of PipeError: the task reads the pipe again at once.
PipeErrorRetry ==
    /\ Faulty
    /\ main = "pend"
    /\ runStatus' = "error"
    /\ UNCHANGED <<mainVars, childVars, esVars, sock>>

PipeError ==
    /\ Faulty
    /\ main = "pend"
    /\ runStatus' = "error"
    /\ main' = "loop"
    /\ UNCHANGED <<step, messages, late, childVars, esVars, sock>>

\* GENERIC_RADIO_ProximityForward: whether the send works or not.
Forward ==
    /\ main = "forward"
    /\ late' = IF sock["prox"] = "open" THEN late ELSE late + 1
    /\ main' = "loop"
    /\ UNCHANGED <<step, messages, childVars, esVars, runStatus, sock>>

\* Mutant of Close: the main task exits without closing its socket.
CloseNothing ==
    /\ main = "close"
    /\ main' = "exited"
    /\ UNCHANGED <<step, messages, late, childVars, esVars, runStatus, sock>>

\* socket_close(&RadioSocket), then CFE_ES_ExitApp.
Close ==
    /\ main = "close"
    /\ sock' = [sock EXCEPT !["radio"] = "closed"]
    /\ main' = "exited"
    /\ UNCHANGED <<step, messages, late, childVars, esVars, runStatus>>

MainTask ==
    \/ InitStep \/ InitFails \/ MainLoop
    \/ Receive \/ PipeError \/ Forward \/ Close

-----------------------------------------------------------------------------
(* ProxyTask. *)

\* Mutant of ChildLoop: read_data is not cleared.
ChildLoopNoMemSet ==
    /\ child = "loop"
    /\ \/ Continue /\ child' = "read" /\ readData' = readData
       \/ Stop /\ child' = "close" /\ UNCHANGED readData
    /\ UNCHANGED <<mainVars, rx, published, arrived, errors, esVars, sock>>

ChildLoop ==
    /\ child = "loop"
    /\ \/ Continue /\ child' = "read" /\ readData' = Blank
       \/ Stop /\ child' = "close" /\ UNCHANGED readData
    /\ UNCHANGED <<mainVars, rx, published, arrived, errors, esVars, sock>>

\* Mutant of Filled: recv may write past the end of the buffer.
FilledTooFar(b, d) == [i \in 1..3 |-> d.n]

\* A datagram fills the buffer, or only the first half of it.
Filled(b, d) == [b EXCEPT ![1] = d.n, ![2] = IF d.full THEN d.n ELSE @]

ChildRead ==
    /\ child = "read"
    /\ rx # <<>>
    /\ readData' = Filled(readData, Head(rx))
    /\ rx' = Tail(rx)
    /\ published' = Append(published, readData')
    /\ child' = "loop"
    /\ UNCHANGED <<mainVars, arrived, errors, esVars, runStatus, sock>>

\* Mutant of ChildIdle: SOCKET_TRY_AGAIN ends the loop too.
ChildIdleEnds ==
    /\ child = "read"
    /\ rx = <<>>
    /\ child' = "done"
    /\ UNCHANGED <<mainVars, rx, readData, published, arrived, errors, esVars,
                   runStatus, sock>>

\* SOCKET_TRY_AGAIN: nothing is published.
ChildIdle ==
    /\ child = "read"
    /\ rx = <<>>
    /\ child' = "loop"
    /\ UNCHANGED <<mainVars, rx, readData, published, arrived, errors, esVars,
                   runStatus, sock>>

\* Mutant of ChildReadFails: the task gives up, and closes its socket.
ChildReadFailsCloses ==
    /\ Faulty
    /\ child = "read"
    /\ errors < MaxErrors
    /\ errors' = errors + 1
    /\ sock' = [sock EXCEPT !["prox"] = "closed"]
    /\ child' = "done"
    /\ UNCHANGED <<mainVars, rx, readData, published, arrived, esVars, runStatus>>

\* Any other status: the buffer is published as if it held a packet.
ChildReadFails ==
    /\ Faulty
    /\ child = "read"
    /\ errors < MaxErrors
    /\ errors' = errors + 1
    /\ published' = Append(published, readData)
    /\ child' = "loop"
    /\ UNCHANGED <<mainVars, rx, readData, arrived, esVars, runStatus, sock>>

ChildClose ==
    /\ child = "close"
    /\ sock' = [sock EXCEPT !["prox"] = "closed"]
    /\ child' = "done"
    /\ UNCHANGED <<mainVars, rx, readData, published, arrived, errors, esVars,
                   runStatus>>

ProxyTask ==
    ChildLoop \/ ChildRead \/ ChildIdle \/ ChildReadFails \/ ChildClose

-----------------------------------------------------------------------------
(* The environment. *)

DatagramArrives ==
    /\ sock["prox"] = "open"
    /\ main # "gone"
    /\ arrived < MaxDatagrams
    /\ arrived' = arrived + 1
    /\ \E full \in BOOLEAN : rx' = Append(rx, [n |-> arrived + 1, full |-> full])
    /\ UNCHANGED <<mainVars, child, readData, published, errors, esVars,
                   runStatus, sock>>

EsRequest ==
    /\ main \notin {"exited", "gone"}
    /\ ~request
    /\ request' = TRUE
    /\ UNCHANGED <<mainVars, childVars, held, inst, cause, runStatus, sock>>

\* Both tasks end: the main task has exited, or the request was not honoured
\* in time.  What is still open stays bound.
EsCleanup ==
    /\ main # "gone"
    /\ main = "exited" \/ request
    /\ main' = "gone"
    /\ child' = "gone"
    /\ held' = held \cup {s \in Sockets : sock[s] = "open"}
    /\ cause' = cause \cup (IF main # "exited" THEN {"killed"} ELSE {})
                      \cup (IF main = "exited" /\ child \in {"loop", "read", "close"}
                               THEN {"cut"} ELSE {})
    /\ UNCHANGED <<step, messages, late, rx, readData, published, arrived,
                   errors, request, inst, runStatus, sock>>

\* The application is loaded anew; its data start as zeros.
EsStart ==
    /\ main = "gone"
    /\ inst < MaxInstances
    /\ inst' = inst + 1
    /\ main' = "init" /\ step' = 1 /\ child' = "none"
    /\ runStatus' = "run" /\ request' = FALSE
    /\ sock' = [s \in Sockets |-> "zero"]
    /\ rx' = <<>> /\ readData' = Blank /\ late' = 0
    /\ UNCHANGED <<messages, published, arrived, errors, held, cause>>

Services == DatagramArrives \/ EsRequest \/ EsCleanup \/ EsStart

Next == MainTask \/ ProxyTask \/ Services

Spec == Init /\ [][Next]_vars

\* Both tasks are scheduled and ES cleans up in the end.  A message need not
\* arrive: the main task may wait for one for ever.
FairSpec ==
    /\ Spec
    /\ WF_vars(InitStep \/ InitFails \/ MainLoop \/ Forward \/ Close)
    /\ WF_vars(ProxyTask)
    /\ WF_vars(EsCleanup)

-----------------------------------------------------------------------------
Cells == [{1, 2} -> Nat]
Datagram == [n : Nat, full : BOOLEAN]

TypeOK ==
    /\ main \in {"init", "loop", "pend", "forward", "close", "exited", "gone"}
    /\ step \in 1..Len(Steps) + 1
    /\ child \in {"none", "loop", "read", "close", "done", "gone"}
    /\ runStatus \in {"run", "error", "exit"}
    /\ request \in BOOLEAN
    /\ sock \in [Sockets -> {"zero", "none", "open", "closed"}]
    /\ held \subseteq Sockets
    /\ rx \in Seq(Datagram)
    /\ readData \in Cells
    /\ published \in Seq(Cells)
    /\ inst \in Nat /\ messages \in Nat /\ arrived \in Nat /\ errors \in Nat
    /\ late \in Nat
    /\ cause \subseteq {"killed", "orphan", "cut"}

(***************************************************************************)
(* ProxyTask closes ProxySocket while the main task may be about to        *)
(* forward through it.  That is bounded: the child closes only when        *)
(* RunStatus tells both tasks to stop, so the main task uses the closed    *)
(* socket for at most the one message it was serving or waiting for.       *)
(***************************************************************************)
LateForwardOnce ==
    /\ late <= 1
    /\ main # "gone" /\ sock["prox"] = "closed" => runStatus # "run"

(***************************************************************************)
(* A port left bound keeps the next instance from starting.  RadioSocket's *)
(* is left only when ES deletes the application in the middle; that of     *)
(* ProxySocket also when the child could not be created, or was deleted    *)
(* because the main task exited before the child had seen RunStatus.       *)
(***************************************************************************)
LeaksExplained ==
    /\ "radio" \in held => "killed" \in cause
    /\ "prox" \in held => cause # {}

(***************************************************************************)
(* ProxyTask puts its buffer on the Software Bus whatever recv returned.   *)
(* Still no packet mixes the bytes of two datagrams, a failing read        *)
(* publishes zeros, and the datagrams appear in order and at most once.    *)
(***************************************************************************)
PublishedIntact ==
    /\ \A i \in DOMAIN published : published[i][2] \in {0, published[i][1]}
    /\ \A i, j \in DOMAIN published :
          i < j /\ published[i][1] # 0 /\ published[j][1] # 0
             => published[i][1] < published[j][1]

(***************************************************************************)
(* An application that has met an error ends: both tasks leave their loops *)
(* without waiting for anything, and ES cleans up.                         *)
(***************************************************************************)
ErrorEnds == runStatus = "error" ~> main = "gone"

(***************************************************************************)
(* A datagram that reached ProxySocket of an application that keeps        *)
(* running is published in the end, failing reads in between included.     *)
(***************************************************************************)
Stopping == runStatus # "run" \/ request \/ main = "gone"
DatagramPublished ==
    \A n \in 1..MaxDatagrams :
        (\E i \in DOMAIN rx : rx[i].n = n)
            ~> Stopping \/ \E i \in DOMAIN published : published[i][1] = n
=============================================================================

------------------------ MODULE RadioLifecycleProofs ------------------------
(***************************************************************************)
(* Proofs about RadioLifecycle, for every value of its constants.          *)
(***************************************************************************)
EXTENDS RadioLifecycle, TLAPS

\* Which call of AppInit creates what.
LEMMA StepFacts ==
    /\ Len(Steps) = 8
    /\ \A i \in 1..8 : /\ Steps[i] = "radio" <=> i = 5
                       /\ Steps[i] = "prox" <=> i = 6
                       /\ Steps[i] = "child" <=> i = 7
BY DEF Steps

(***************************************************************************)
(* Type correctness needs that the start-up steps are left in time.        *)
(***************************************************************************)
TypeInv == TypeOK /\ (main = "init" => step <= 8)

\* A buffer keeps its two halves.
LEMMA CellsType ==
    /\ Blank \in Cells
    /\ \A b \in Cells, d \in Datagram : Filled(b, d) \in Cells
BY DEF Blank, Cells, Filled, Datagram

\* Only the start-up changes the step the main task takes next.
LEMMA TypeMain ==
    ASSUME TypeInv, MainTask
    PROVE  TypeInv'
<1> USE DEF TypeInv, TypeOK, mainVars, childVars, esVars, Sockets
<1>1. CASE InitStep
  BY <1>1, StepFacts DEF InitStep
<1>2. CASE InitFails
  BY <1>2, StepFacts DEF InitFails
<1>3. CASE MainLoop
  BY <1>3 DEF MainLoop, Continue, Stop
<1>4. CASE Receive
  BY <1>4 DEF Receive
<1>5. CASE PipeError
  BY <1>5 DEF PipeError
<1>6. CASE Forward
  BY <1>6 DEF Forward
<1>7. CASE Close
  BY <1>7 DEF Close
<1> QED
  BY <1>1, <1>2, <1>3, <1>4, <1>5, <1>6, <1>7 DEF MainTask

\* The child keeps its buffer and what it publishes well-typed.
LEMMA TypeChild ==
    ASSUME TypeInv, ProxyTask
    PROVE  TypeInv'
<1> USE DEF TypeInv, TypeOK, mainVars, esVars
<1>1. CASE ChildLoop
  BY <1>1, CellsType DEF ChildLoop, Continue, Stop
<1>2. CASE ChildRead
  <2>1. Head(rx) \in Datagram
    BY <1>2 DEF ChildRead
  <2>2. readData' \in Cells
    BY <1>2, <2>1, CellsType DEF ChildRead
  <2> QED
    BY <1>2, <2>2 DEF ChildRead
<1>3. CASE ChildIdle
  BY <1>3 DEF ChildIdle
<1>4. CASE ChildReadFails
  BY <1>4 DEF ChildReadFails
<1>5. CASE ChildClose
  BY <1>5 DEF ChildClose, Sockets
<1> QED
  BY <1>1, <1>2, <1>3, <1>4, <1>5 DEF ProxyTask

\* So do the network and ES.
LEMMA TypeServices ==
    ASSUME TypeInv, Services
    PROVE  TypeInv'
<1> USE DEF TypeInv, TypeOK, mainVars, childVars, esVars, Sockets
<1>1. CASE DatagramArrives
  <2>1. \A full \in BOOLEAN : [n |-> arrived + 1, full |-> full] \in Datagram
    BY DEF Datagram
  <2>2. rx' \in Seq(Datagram)
    BY <1>1, <2>1 DEF DatagramArrives
  <2> QED
    BY <1>1, <2>2 DEF DatagramArrives
<1>2. CASE EsRequest
  BY <1>2 DEF EsRequest
<1>3. CASE EsCleanup
  BY <1>3 DEF EsCleanup
<1>4. CASE EsStart
  <2>1. rx' \in Seq(Datagram) /\ readData' \in Cells /\ published' \in Seq(Cells)
    BY <1>4, CellsType DEF EsStart
  <2>2. step' \in 1..Len(Steps) + 1 /\ (main' = "init" => step' <= 8)
    BY <1>4, StepFacts DEF EsStart
  <2>3. sock' \in [Sockets -> {"zero", "none", "open", "closed"}]
    BY <1>4 DEF EsStart
  <2>4. /\ held' \subseteq Sockets /\ cause' \subseteq {"killed", "orphan", "cut"}
        /\ request' \in BOOLEAN
    BY <1>4 DEF EsStart
  <2>5. /\ inst' \in Nat /\ messages' \in Nat /\ arrived' \in Nat
        /\ errors' \in Nat /\ late' \in Nat
    BY <1>4 DEF EsStart
  <2> QED
    BY <1>4, <2>1, <2>2, <2>3, <2>4, <2>5 DEF EsStart
<1> QED
  BY <1>1, <1>2, <1>3, <1>4 DEF Services

\* TypeInv is inductive.
LEMMA TypeInductive ==
    /\ Init => TypeInv
    /\ TypeInv /\ [Next]_vars => TypeInv'
<1>1. Init => TypeInv
  <2> SUFFICES ASSUME Init PROVE TypeInv
    OBVIOUS
  <2>1. rx \in Seq(Datagram) /\ published \in Seq(Cells) /\ readData \in Cells
    BY CellsType DEF Init
  <2>2. step \in 1..Len(Steps) + 1 /\ step <= 8
    BY StepFacts DEF Init
  <2>3. sock \in [Sockets -> {"zero", "none", "open", "closed"}]
    BY DEF Init
  <2> QED
    BY <2>1, <2>2, <2>3 DEF Init, TypeInv, TypeOK
<1>2. TypeInv /\ UNCHANGED vars => TypeInv'
  BY DEF TypeInv, TypeOK, vars, mainVars, childVars, esVars
<1> QED
  BY <1>1, <1>2, TypeMain, TypeChild, TypeServices DEF Next

(***************************************************************************)
(* Every variable of the two tasks and of ES keeps its type, whatever      *)
(* fails at start-up and whenever ES interferes.                           *)
(***************************************************************************)
THEOREM LifecycleTypes == Spec => []TypeOK
<1>1. TypeInv => TypeOK
  BY DEF TypeInv
<1> QED
  BY TypeInductive, <1>1, PTL DEF Spec

-----------------------------------------------------------------------------
(***************************************************************************)
(* Why one late use is the most there can be.  The child closes only after *)
(* RunStatus says stop, and that is for good.  A main task that has used   *)
(* the closed socket therefore finds RunStatus changed when it comes back  *)
(* to the head of its loop, and leaves.                                    *)
(***************************************************************************)
LateInv ==
    /\ late <= 1
    /\ late = 1 => main \in {"loop", "close", "exited", "gone"}
    /\ main # "gone" /\ (late = 1 \/ sock["prox"] = "closed") => runStatus # "run"
    /\ main # "gone" /\ child = "close" => runStatus # "run"
    /\ \/ main = "init" /\ step > 6
       \/ main \in {"loop", "pend", "forward"} /\ runStatus = "run"
       \/ main \in {"pend", "forward"}
       => sock["prox"] \in {"open", "closed"}

\* The main task.
LEMMA LateMain ==
    ASSUME TypeInv, LateInv, MainTask
    PROVE  LateInv'
<1> USE DEF TypeInv, TypeOK, LateInv, mainVars, childVars, esVars, Sockets
<1>1. CASE InitStep
  BY <1>1, StepFacts DEF InitStep
<1>2. CASE InitFails
  BY <1>2, StepFacts DEF InitFails
<1>3. CASE MainLoop
  BY <1>3 DEF MainLoop, Continue, Stop
<1>4. CASE Receive
  BY <1>4 DEF Receive
<1>5. CASE PipeError
  BY <1>5 DEF PipeError
<1>6. CASE Forward
  BY <1>6 DEF Forward
<1>7. CASE Close
  BY <1>7 DEF Close
<1> QED
  BY <1>1, <1>2, <1>3, <1>4, <1>5, <1>6, <1>7 DEF MainTask

\* ProxyTask, and what happens around the two tasks.
LEMMA LateOthers ==
    ASSUME TypeInv, LateInv, ProxyTask \/ Services
    PROVE  LateInv'
<1> USE DEF TypeInv, TypeOK, LateInv, mainVars, childVars, esVars, Sockets
<1>1. CASE ChildLoop
  BY <1>1 DEF ChildLoop, Continue, Stop
<1>2. CASE ChildRead \/ ChildIdle \/ ChildReadFails
  BY <1>2 DEF ChildRead, ChildIdle, ChildReadFails
<1>3. CASE ChildClose
  BY <1>3 DEF ChildClose
<1>4. CASE DatagramArrives \/ EsRequest
  BY <1>4 DEF DatagramArrives, EsRequest
<1>5. CASE EsCleanup
  BY <1>5 DEF EsCleanup
<1>6. CASE EsStart
  BY <1>6 DEF EsStart
<1> QED
  BY <1>1, <1>2, <1>3, <1>4, <1>5, <1>6 DEF ProxyTask, Services

(***************************************************************************)
(* However the steps of the two tasks interleave, the main task forwards   *)
(* through a socket the child has closed at most once, and only when both  *)
(* were told to stop.                                                      *)
(***************************************************************************)
THEOREM LateAtMostOnce == Spec => []LateForwardOnce
<1>1. Init => LateInv
  BY DEF Init, LateInv, Sockets
<1>2. TypeInv /\ LateInv /\ [Next]_vars => LateInv'
  <2>1. TypeInv /\ LateInv /\ UNCHANGED vars => LateInv'
    BY DEF LateInv, vars, mainVars, childVars, esVars
  <2> QED
    BY <2>1, LateMain, LateOthers DEF Next
<1>3. LateInv => LateForwardOnce
  BY DEF LateInv, LateForwardOnce
<1> QED
  BY TypeInductive, <1>1, <1>2, <1>3, PTL DEF Spec

-----------------------------------------------------------------------------
(***************************************************************************)
(* Why a port is left bound only for the reasons named.  The main task     *)
(* closes RadioSocket before it exits; the child closes ProxySocket before *)
(* it is done; and a ProxySocket without a child is one whose child could  *)
(* not be created.                                                         *)
(***************************************************************************)
LeakInv ==
    /\ LeaksExplained
    /\ main = "exited" => sock["radio"] # "open"
    /\ child = "done" => sock["prox"] # "open"
    /\ main # "gone" => child # "gone"
    /\ main = "init" => /\ step <= 6 => sock["prox"] # "open"
                        /\ step <= 7 <=> child = "none"
    /\ main \notin {"init", "gone"} /\ child = "none" /\ sock["prox"] = "open"
          => "orphan" \in cause

\* The main task.
LEMMA LeakMain ==
    ASSUME TypeInv, LeakInv, MainTask
    PROVE  LeakInv'
<1> USE DEF TypeInv, TypeOK, LeakInv, LeaksExplained, mainVars, childVars, esVars, Sockets
<1>1. CASE InitStep
  BY <1>1, StepFacts DEF InitStep
<1>2. CASE InitFails
  BY <1>2, StepFacts DEF InitFails
<1>3. CASE MainLoop
  BY <1>3 DEF MainLoop
<1>4. CASE Receive
  BY <1>4 DEF Receive
<1>5. CASE PipeError
  BY <1>5 DEF PipeError
<1>6. CASE Forward
  BY <1>6 DEF Forward
<1>7. CASE Close
  BY <1>7 DEF Close
<1> QED
  BY <1>1, <1>2, <1>3, <1>4, <1>5, <1>6, <1>7 DEF MainTask

\* ProxyTask, and what happens around the two tasks.
LEMMA LeakOthers ==
    ASSUME TypeInv, LeakInv, ProxyTask \/ Services
    PROVE  LeakInv'
<1> USE DEF TypeInv, TypeOK, LeakInv, LeaksExplained, mainVars, childVars, esVars, Sockets
<1>1. CASE ChildLoop
  BY <1>1 DEF ChildLoop
<1>2. CASE ChildRead \/ ChildIdle \/ ChildReadFails
  BY <1>2 DEF ChildRead, ChildIdle, ChildReadFails
<1>3. CASE ChildClose
  BY <1>3 DEF ChildClose
<1>4. CASE DatagramArrives \/ EsRequest
  BY <1>4 DEF DatagramArrives, EsRequest
<1>5. CASE EsCleanup
  BY <1>5 DEF EsCleanup
<1>6. CASE EsStart
  BY <1>6, StepFacts DEF EsStart
<1> QED
  BY <1>1, <1>2, <1>3, <1>4, <1>5, <1>6 DEF ProxyTask, Services

(***************************************************************************)
(* An instance that starts, serves and exits by itself leaves no port      *)
(* bound; every port left bound has one of three causes.                   *)
(***************************************************************************)
THEOREM LeaksAlwaysExplained == Spec => []LeaksExplained
<1>1. Init => LeakInv
  BY DEF Init, LeakInv, LeaksExplained, Sockets
<1>2. TypeInv /\ LeakInv /\ [Next]_vars => LeakInv'
  <2>1. TypeInv /\ LeakInv /\ UNCHANGED vars => LeakInv'
    BY DEF LeakInv, LeaksExplained, vars, mainVars, childVars, esVars
  <2> QED
    BY <2>1, LeakMain, LeakOthers DEF Next
<1>3. LeakInv => LeaksExplained
  BY DEF LeakInv
<1> QED
  BY TypeInductive, <1>1, <1>2, <1>3, PTL DEF Spec

-----------------------------------------------------------------------------
(***************************************************************************)
(* Why packets stay whole: the buffer is blank whenever the child is about *)
(* to read, and the datagrams in the socket are numbered above everything  *)
(* that was published.                                                     *)
(***************************************************************************)
PublishInv ==
    /\ PublishedIntact
    /\ child = "read" => readData = Blank
    /\ \A i, j \in 1..Len(rx) : i < j => rx[i].n < rx[j].n
    /\ \A i \in 1..Len(rx) : rx[i].n \in 1..arrived
    /\ \A i \in DOMAIN published : published[i][1] <= arrived
    /\ \A i \in DOMAIN published, j \in 1..Len(rx) : published[i][1] < rx[j].n

\* Publishing one more buffer, newer than all before it, or blank.
LEMMA PublishOne ==
    ASSUME TypeInv, PublishedIntact, NEW b \in Cells,
           b[2] \in {0, b[1]},
           b[1] # 0 => \A i \in DOMAIN published : published[i][1] < b[1],
           published' = Append(published, b)
    PROVE  PublishedIntact'
<1> USE DEF TypeInv, TypeOK
<1>1. /\ Len(published') = Len(published) + 1
      /\ DOMAIN published = 1..Len(published)
      /\ DOMAIN published' = 1..Len(published) + 1
      /\ published'[Len(published) + 1] = b
      /\ \A i \in 1..Len(published) : published'[i] = published[i]
  OBVIOUS
<1> QED
  BY <1>1 DEF PublishedIntact, Cells

\* Reading and publishing the oldest datagram.
LEMMA PublishRead ==
    ASSUME TypeInv, PublishInv, ChildRead
    PROVE  PublishInv'
<1> USE DEF TypeInv, TypeOK, ChildRead
<1> DEFINE d == Head(rx)
           b == Filled(readData, d)
<1>1. d \in Datagram /\ d = rx[1] /\ 1 \in 1..Len(rx)
  OBVIOUS
<1>2. b \in Cells /\ b[1] = d.n /\ b[2] \in {0, d.n}
  BY <1>1, CellsType DEF PublishInv, Filled, Blank, Cells
<1>3. published' = Append(published, b)
  OBVIOUS
<1>4. PublishedIntact'
  BY <1>1, <1>2, <1>3, PublishOne DEF PublishInv
<1>5. /\ DOMAIN published = 1..Len(published)
      /\ DOMAIN published' = 1..Len(published) + 1
      /\ published'[Len(published) + 1] = b
      /\ \A i \in 1..Len(published) : published'[i] = published[i]
  BY <1>2, <1>3
<1>6. Len(rx') = Len(rx) - 1 /\ \A i \in 1..Len(rx') : rx'[i] = rx[i + 1]
  OBVIOUS
<1>7. \A i \in 1..Len(rx') : i + 1 \in 1..Len(rx) /\ d.n < rx'[i].n
  BY <1>1, <1>6 DEF PublishInv
<1>8. UNCHANGED arrived /\ child' = "loop" /\ d.n \in 1..arrived
  BY <1>1 DEF PublishInv
<1>9. \A i, j \in 1..Len(rx') : i < j => rx'[i].n < rx'[j].n
  BY <1>6, <1>7 DEF PublishInv
<1>10. \A i \in DOMAIN published' : published'[i][1] <= arrived
  BY <1>2, <1>5, <1>8 DEF PublishInv
<1>11. \A i \in DOMAIN published', j \in 1..Len(rx') : published'[i][1] < rx'[j].n
  BY <1>2, <1>5, <1>6, <1>7 DEF PublishInv
<1>12. \A i \in 1..Len(rx') : rx'[i].n \in 1..arrived'
  BY <1>6, <1>7, <1>8 DEF PublishInv
<1> QED
  BY <1>4, <1>8, <1>9, <1>10, <1>11, <1>12 DEF PublishInv

\* A failing read publishes the blank buffer.
LEMMA PublishFails ==
    ASSUME TypeInv, PublishInv, ChildReadFails
    PROVE  PublishInv'
<1> USE DEF TypeInv, TypeOK, ChildReadFails, mainVars, esVars
<1>1. readData = Blank /\ Blank \in Cells /\ Blank[1] = 0 /\ Blank[2] = 0
  BY CellsType DEF PublishInv, Blank
<1>2. PublishedIntact'
  BY <1>1, PublishOne DEF PublishInv
<1>3. /\ DOMAIN published = 1..Len(published)
      /\ DOMAIN published' = 1..Len(published) + 1
      /\ published'[Len(published) + 1] = Blank
      /\ \A i \in 1..Len(published) : published'[i] = published[i]
  BY <1>1
<1>4. UNCHANGED <<rx, arrived>> /\ child' = "loop"
  OBVIOUS
<1>5. \A i \in DOMAIN published' : published'[i][1] <= arrived
  BY <1>1, <1>3 DEF PublishInv
<1>6. \A i \in DOMAIN published', j \in 1..Len(rx) : published'[i][1] < rx[j].n
  BY <1>1, <1>3 DEF PublishInv
<1> QED
  BY <1>2, <1>4, <1>5, <1>6 DEF PublishInv

\* A datagram that arrives gets the next number.
LEMMA PublishArrival ==
    ASSUME TypeInv, PublishInv, DatagramArrives
    PROVE  PublishInv'
<1> USE DEF TypeInv, TypeOK, DatagramArrives, mainVars, esVars
<1>1. PICK full \in BOOLEAN : rx' = Append(rx, [n |-> arrived + 1, full |-> full])
  OBVIOUS
<1>2. /\ Len(rx') = Len(rx) + 1
      /\ rx'[Len(rx) + 1].n = arrived + 1
      /\ \A i \in 1..Len(rx) : rx'[i] = rx[i]
  BY <1>1
<1>3. UNCHANGED <<child, readData, published>> /\ arrived' = arrived + 1
  OBVIOUS
<1>4. \A i \in DOMAIN published : published[i][1] \in Nat
  BY DEF Cells
<1>5. \A i \in 1..Len(rx) : rx[i] \in Datagram /\ rx[i].n \in Nat
  <2>1. \A d \in Datagram : d.n \in Nat
    BY DEF Datagram
  <2> QED
    BY <2>1
<1> QED
  BY <1>2, <1>3, <1>4, <1>5 DEF PublishInv, PublishedIntact

\* Nobody else touches the buffers, except to clear them.
LEMMA PublishOthers ==
    ASSUME TypeInv, PublishInv,
           MainTask \/ ChildLoop \/ ChildIdle \/ ChildClose \/ EsRequest \/ EsCleanup
               \/ EsStart \/ UNCHANGED vars
    PROVE  PublishInv'
<1> USE DEF PublishInv, PublishedIntact, mainVars, childVars, esVars
<1>1. CASE MainTask
  <2>1. UNCHANGED <<rx, readData, published, arrived>>
    BY <1>1 DEF MainTask, InitStep, InitFails, MainLoop, Receive, PipeError,
                Forward, Close
  <2>2. child' = "read" => child = "read"
    BY <1>1 DEF MainTask, InitStep, InitFails, MainLoop, Receive, PipeError,
                Forward, Close
  <2> QED
    BY <2>1, <2>2
<1>2. CASE ChildLoop
  BY <1>2 DEF ChildLoop
<1>3. CASE ChildIdle \/ ChildClose
  BY <1>3 DEF ChildIdle, ChildClose
<1>4. CASE EsRequest \/ EsCleanup
  BY <1>4 DEF EsRequest, EsCleanup
<1>5. CASE EsStart
  <2>1. rx' = <<>> /\ readData' = Blank /\ UNCHANGED <<published, arrived>>
    BY <1>5 DEF EsStart
  <2> QED
    BY <2>1
<1>6. CASE UNCHANGED vars
  BY <1>6 DEF vars
<1> QED
  BY <1>1, <1>2, <1>3, <1>4, <1>5, <1>6

(***************************************************************************)
(* No packet that ProxyTask publishes mixes two datagrams, none is         *)
(* published twice and none out of order.                                  *)
(***************************************************************************)
THEOREM PublishedStaysIntact == Spec => []PublishedIntact
<1>1. Init => PublishInv
  BY DEF Init, PublishInv, PublishedIntact
<1>2. TypeInv /\ PublishInv /\ [Next]_vars => PublishInv'
  BY PublishRead, PublishFails, PublishArrival, PublishOthers
     DEF Next, ProxyTask, Services
<1>3. PublishInv => PublishedIntact
  BY DEF PublishInv
<1> QED
  BY TypeInductive, <1>1, <1>2, <1>3, PTL DEF Spec
=============================================================================

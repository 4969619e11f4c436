------------------------------- MODULE HkCall -------------------------------
(***************************************************************************)
(* GENERIC_RADIO_RequestHK as the F' component and the checkout program    *)
(* call it, with a structure of their own for the answer.  The caller      *)
(* sleeps between the send and the read; it does nothing else meanwhile.   *)
(***************************************************************************)
EXTENDS DeviceLib

VARIABLES given,    \* history: commands or lines the program has taken
          finished, \* history: those it is done with
          calling,  \* the caller sleeps in GENERIC_RADIO_RequestHK
          radioHK,  \* RadioHK, the structure the answer is decoded into
          asked,    \* history: calls begun
          returned, \* history: calls that returned
          failed    \* history: those that returned an error

callVars == <<given, finished, calling, radioHK, asked, returned, failed>>

\* A structure whose members were never written.
Uninitialised == [NoAnswer EXCEPT !.kind = "malformed"]

CallInit(structure) ==
    /\ given = 0
    /\ finished = 0
    /\ calling = FALSE
    /\ radioHK = structure
    /\ asked = 0
    /\ returned = 0
    /\ failed = 0

\* The program takes a command and is done with it, or starts a call for it.
Begin(done) ==
    /\ ~calling
    /\ given < MaxCommands
    /\ given' = given + 1
    /\ finished' = IF done THEN given + 1 ELSE finished

NoCall == UNCHANGED <<calling, radioHK, asked, returned, failed>>

\* Up to OS_TaskDelay: whether the send worked is forgotten.
RequestSend ==
    /\ Begin(FALSE)
    /\ calling' = TRUE
    /\ asked' = asked + 1
    /\ radioRx' \in Arrivals(radioRx, HkRequest(asked + 1))
    /\ UNCHANGED <<fswRx, strays, radioHK, returned, failed>>

Return ==
    /\ calling
    /\ calling' = FALSE
    /\ returned' = returned + 1
    /\ finished' = given
    /\ UNCHANGED <<radioRx, strays, given, asked>>

\* Mutant of RequestHit: the answer is left in the buffer.
RequestHitPeek ==
    /\ fswRx # <<>>
    /\ Head(fswRx).kind = "reply"
    /\ radioHK' = Head(fswRx)
    /\ UNCHANGED <<fswRx, failed>>
    /\ Return

RequestHit ==
    /\ fswRx # <<>>
    /\ Head(fswRx).kind = "reply"
    /\ fswRx' = Tail(fswRx)
    /\ radioHK' = Head(fswRx)
    /\ UNCHANGED failed
    /\ Return

\* Mutant of RequestMiss: the datagram is decoded before it is verified.
RequestMissDecodes ==
    /\ \/ fswRx = <<>> /\ UNCHANGED <<fswRx, radioHK>>
       \/ /\ fswRx # <<>> /\ Head(fswRx).kind # "reply"
          /\ fswRx' = Tail(fswRx)
          /\ radioHK' = Head(fswRx)
    /\ failed' = failed + 1
    /\ Return

\* The buffer is empty, or holds something that is not an answer.
RequestMiss ==
    /\ \/ fswRx = <<>> /\ UNCHANGED fswRx
       \/ fswRx # <<>> /\ Head(fswRx).kind # "reply" /\ fswRx' = Tail(fswRx)
    /\ failed' = failed + 1
    /\ UNCHANGED radioHK
    /\ Return

CallTypeOK ==
    /\ given \in 0..MaxCommands
    /\ finished \in 0..given
    /\ calling \in BOOLEAN
    /\ radioHK \in Datagram
    /\ asked \in Nat
    /\ returned \in Nat
    /\ failed \in Nat
=============================================================================

----------------------------- MODULE HkService -----------------------------
(***************************************************************************)
(* What the housekeeping exchange promises, whatever the network and the   *)
(* simulator command callback do: requests are issued one at a time; each  *)
(* is served once, either with the device's answer to some request that    *)
(* was issued and is newer than the answer decoded before it (Hit), or as  *)
(* a failure (Miss).  It does not promise that the answer is the one to    *)
(* the request being served.                                               *)
(***************************************************************************)
EXTENDS Naturals

VARIABLES issued, \* requests issued so far
          served, \* requests served so far
          missed, \* requests reported as failed
          newest  \* number of the request whose answer was decoded last

svcVars == <<issued, served, missed, newest>>

SvcInit ==
    /\ issued = 0
    /\ served = 0
    /\ missed = 0
    /\ newest = 0

Issue ==
    /\ issued = served
    /\ issued' = issued + 1
    /\ UNCHANGED <<served, missed, newest>>

Hit ==
    /\ served < issued
    /\ served' = served + 1
    /\ newest' \in newest + 1..issued
    /\ UNCHANGED <<issued, missed>>

Miss ==
    /\ served < issued
    /\ served' = served + 1
    /\ missed' = missed + 1
    /\ UNCHANGED <<issued, newest>>

SvcNext == Issue \/ Hit \/ Miss

SvcSpec == SvcInit /\ [][SvcNext]_svcVars
=============================================================================

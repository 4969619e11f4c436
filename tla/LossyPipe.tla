----------------------------- MODULE LossyPipe -----------------------------
(***************************************************************************)
(* What one direction of a relay promises: items are offered one after the *)
(* other and numbered; deliveries are of later and later items, each of    *)
(* them offered before; any item may never be delivered.                   *)
(***************************************************************************)
EXTENDS Naturals

VARIABLES offered,    \* number of items offered
          newest,     \* number of the last item of the last delivery
          deliveries  \* number of deliveries

pipeVars == <<offered, newest, deliveries>>

PipeInit == offered = 0 /\ newest = 0 /\ deliveries = 0

Offer ==
    /\ offered' = offered + 1
    /\ UNCHANGED <<newest, deliveries>>

\* A delivery is of one item or of several that follow each other.
Deliver ==
    /\ newest' \in (newest + 1)..offered
    /\ deliveries' = deliveries + 1
    /\ UNCHANGED offered

PipeNext == Offer \/ Deliver

PipeSpec == PipeInit /\ [][PipeNext]_pipeVars
=============================================================================

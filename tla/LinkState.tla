----------------------------- MODULE LinkState -----------------------------
(***************************************************************************)
(* What a relay thread learns of its link: classes Generic_radioDataPoint, *)
(* Generic_radio42DataProvider and Generic_radioDataProvider.  The 42      *)
(* simulation tells, per direction, whether the path is occulted, the      *)
(* light-time delay and the carrier-to-noise ratio; the data point parses  *)
(* them on demand, in a fixed order, and stops at the first value it       *)
(* cannot parse.  What it has not stored keeps its initial value: not      *)
(* occulted, no delay, a ratio of 0.                                       *)
(***************************************************************************)
EXTENDS Integers

CONSTANTS Criterion, \* close criterion of a direction: "none", "occulted", "cnr"
          DelayOn,   \* delay-on of a direction: "on", "off", or "unset" when
                     \* the default provider leaves the member uninitialised
          Delays     \* light-time delays, in ticks

Directions == {"uplink", "downlink"}

\* The limit of the ratio is above 0 (15 when it is not configured).
ASSUME LinkAssumption ==
    /\ Criterion \in [Directions -> {"none", "occulted", "cnr"}]
    /\ DelayOn \in [Directions -> {"on", "off", "unset"}]
    /\ Delays \subseteq Nat /\ 0 \in Delays

\* The state of one link; enough: the ratio reaches the limit.
Link == [occulted : BOOLEAN, delay : Delays, enough : BOOLEAN]

\* do_parsing() stores the three values of the uplink, then those of the
\* downlink: so many of direction d, when n of the six were stored.
Stored(d, n) ==
    LET m == IF d = "uplink" THEN n ELSE n - 3
    IN  IF m < 0 THEN 0 ELSE IF m > 3 THEN 3 ELSE m

\* Mutant of View: the delay is parsed before the occultation is stored.
ViewDelayFirst(link, m) == [occulted |-> m > 1 /\ link.occulted,
                            delay    |-> IF m > 0 THEN link.delay ELSE 0,
                            enough   |-> m > 2 /\ link.enough]

\* A direction of the data point of which m values were stored.
View(link, m) == [occulted |-> m > 0 /\ link.occulted,
                  delay    |-> IF m > 1 THEN link.delay ELSE 0,
                  enough   |-> m > 2 /\ link.enough]

\* communication_capable
Capable(d, v) ==
    CASE Criterion[d] = "occulted" -> ~v.occulted
      [] Criterion[d] = "cnr"      -> v.enough
      [] OTHER                     -> TRUE

\* The values delay may have.
LightTime(d, v) ==
    CASE DelayOn[d] = "on"    -> {v.delay}
      [] DelayOn[d] = "off"   -> {0}
      [] DelayOn[d] = "unset" -> Delays

\* The values the criterion of d needs were stored.
Seen(d, m) ==
    CASE Criterion[d] = "occulted" -> m > 0
      [] Criterion[d] = "cnr"      -> m > 2
      [] OTHER                     -> TRUE

\* How a datagram that was let through fared: over an open link, over one that
\* is closed but whose state was not known, or over one known to be closed.
Verdict(d, link, m) ==
    IF Capable(d, link) THEN "open" ELSE IF Seen(d, m) THEN "closed" ELSE "blind"

\* The only way through a closed link.
Tolerated(d) == {"open"} \cup (IF Criterion[d] = "occulted" THEN {"blind"} ELSE {})
=============================================================================

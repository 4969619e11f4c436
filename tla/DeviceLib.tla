----------------------------- MODULE DeviceLib -----------------------------
(***************************************************************************)
(* The part of the device protocol library that keeps no state: the        *)
(* datagrams GENERIC_RADIO_SetConfiguration and GENERIC_RADIO_RequestHK    *)
(* send, and the byte order they give a configuration word.                *)
(***************************************************************************)
EXTENDS RadioPorts

CONSTANTS LittleEndian, \* TRUE: the flight processor is little-endian
          CounterMod,   \* 2^8: the counters of a flight program are uint8
          ConfigWords,  \* configuration words the ground commands
          MaxCommands   \* BOUND: number of commands given to a flight program

ASSUME LibAssumption ==
    /\ LittleEndian \in BOOLEAN
    /\ CounterMod \in Nat \ {0}
    /\ ConfigWords \subseteq Word /\ ConfigWords # {}
    /\ MaxCommands \in Nat

\* Mutant of Bump: the counters are wider than the packet's members.
BumpWide(n) == n + 1

Bump(n) == (n + 1) % CounterMod

Reversed(w) == [i \in 1..W |-> w[W + 1 - i]]

\* CFE_MAKE_BIG32 swaps the bytes on a little-endian processor; the shifts that
\* follow already put the most significant byte first, on any processor.
Wire(w) == IF LittleEndian THEN Reversed(w) ELSE w

HkRequest(i) ==
    [kind |-> "hk", id |-> i, word |-> Zero, count |-> 0, gen |-> 0, until |-> 0]

\* Mutant of SetConfig: the command identifier is that of Get Housekeeping.
SetConfigMislabelled(w) ==
    [kind |-> "hk", id |-> 0, word |-> Wire(w), count |-> 0, gen |-> 0,
     until |-> 0]

SetConfig(w) ==
    [kind |-> "config", id |-> 0, word |-> Wire(w), count |-> 0, gen |-> 0,
     until |-> 0]

\* The contents of a housekeeping structure before an answer was decoded.
NoAnswer ==
    [kind |-> "reply", id |-> 0, word |-> Zero, count |-> 0, gen |-> 0,
     until |-> 0]
=============================================================================

------------------------------ MODULE Checkout ------------------------------
(***************************************************************************)
(* The standalone checkout program: a prompt around the device protocol    *)
(* library.  The result of fgets is ignored, so when standard input ends   *)
(* the loop tokenises again what strtok left of the last line: its first   *)
(* word.                                                                   *)
(***************************************************************************)
EXTENDS HkCall

\* A line: its first word, and the number of words that follow it.
Line == [cc : {"help", "exit", "hk", "prox", "cfg", "other", "blank"}, args : 0..2]

VARIABLES where,     \* where main() stands
          inputBuf,  \* the line in input_buf
          ended,     \* standard input has ended
          sock,      \* RadioSocket and ProxSocket: "ok", "broken" when creation
                     \* failed but left a descriptor, or "none"
          cfgTyped,  \* history: cfg lines with one argument that were typed
          cfgSent    \* history: calls of GENERIC_RADIO_SetConfiguration

checkoutVars == <<where, inputBuf, ended, sock, cfgTyped, cfgSent>>

\* The bytes of input_buf are not initialised; they are taken for no command.
CheckoutInit ==
    /\ where = "start"
    /\ inputBuf = [cc |-> "other", args |-> 0]
    /\ ended = FALSE
    /\ sock = [radio |-> "none", prox |-> "none"]
    /\ cfgTyped = 0
    /\ cfgSent = 0

\* The second socket is created whether or not the first was.
CkCreate ==
    /\ where = "start"
    /\ \E r, p \in (IF Faulty THEN {"ok", "broken", "none"} ELSE {"ok"}) :
          /\ sock' = [radio |-> r, prox |-> p]
          /\ where' = IF r = "ok" /\ p = "ok" THEN "prompt" ELSE "closing"
    /\ UNCHANGED <<portVars, callVars, inputBuf, ended, cfgTyped, cfgSent>>

\* Mutant of Rest: the line is tokenised in a copy.
RestAll(l) == l

\* strtok ends the first word with a NUL, and what follows it is lost.
Rest(l) == [l EXCEPT !.args = 0]

\* What fgets and strtok give main() next.
Input == IF ended THEN {Rest(inputBuf)} ELSE Line

\* get_command and process_command for line l, apart from the call of RequestHK.
Settle(l) ==
    /\ Begin(TRUE)
    /\ \/ /\ l.cc = "exit"
          /\ where' = "closing"
          /\ UNCHANGED <<portVars, cfgSent>>
       \/ /\ l.cc = "cfg" /\ l.args = 1
          /\ cfgSent' = cfgSent + 1
          /\ \/ \E w \in ConfigWords : radioRx' \in Arrivals(radioRx, SetConfig(w))
             \/ Faulty /\ UNCHANGED radioRx
          /\ UNCHANGED <<fswRx, strays, where>>
       \/ /\ l.cc # "exit"
          /\ l.cc = "cfg" => l.args # 1
          /\ l.cc = "hk" => l.args # 0
          /\ UNCHANGED <<portVars, where, cfgSent>>
    /\ NoCall

CkLine ==
    /\ where = "prompt"
    /\ \E l \in Input :
          /\ inputBuf' = l
          /\ cfgTyped' = IF ~ended /\ l.cc = "cfg" /\ l.args = 1 THEN cfgTyped + 1
                                                                 ELSE cfgTyped
          /\ \/ Settle(l)
             \/ l.cc = "hk" /\ l.args = 0 /\ RequestSend /\ UNCHANGED <<where, cfgSent>>
    /\ UNCHANGED <<ended, sock>>

CkReport == (RequestHit \/ RequestMiss) /\ UNCHANGED checkoutVars

\* Standard input ends: a pipe or a file, or the terminal's end of file.
CkEnd ==
    /\ where = "prompt"
    /\ ~ended
    /\ ended' = TRUE
    /\ UNCHANGED <<portVars, callVars, where, inputBuf, sock, cfgTyped, cfgSent>>

\* Each socket that has a descriptor is closed.
CkClose ==
    /\ where = "closing"
    /\ where' = "exited"
    /\ sock' = [s \in DOMAIN sock |-> "none"]
    /\ UNCHANGED <<portVars, callVars, inputBuf, ended, cfgTyped, cfgSent>>

CheckoutTypeOK ==
    /\ where \in {"start", "prompt", "closing", "exited"}
    /\ inputBuf \in Line
    /\ ended \in BOOLEAN
    /\ sock \in [{"radio", "prox"} -> {"ok", "broken", "none"}]
    /\ cfgTyped \in Nat
    /\ cfgSent \in Nat

(***************************************************************************)
(* After the end of its input the program repeats its last command for     *)
(* ever, but never sends a configuration nobody typed: the argument is     *)
(* lost with the rest of the line.                                         *)
(***************************************************************************)
NoConfigReplay == cfgSent <= cfgTyped
=============================================================================

---------------------------- MODULE RadioDevice ----------------------------
(***************************************************************************)
(* The simulated radio: class Generic_radioHardwareModel, without its      *)
(* forwarding threads.  Two threads share _enabled, _count and _config     *)
(* with no lock:                                                           *)
(*  - run() receives command datagrams and handles one at a time (dev);    *)
(*  - the NOS Engine thread runs command_callback() (cb).                  *)
(* Every read and write of a shared member is a step of its own, so the    *)
(* steps of the two threads interleave in every order the race allows.     *)
(***************************************************************************)
EXTENDS RadioPorts

CONSTANTS ByteBase,    \* values of a byte of _count (256 in the code)
          Place,       \* what a one in each byte of _count is worth
          MaxDisables  \* BOUND: number of DISABLE commands

\* _count has as many bytes as _config, the most significant first, and no more.
PositionalCount ==
    /\ ByteBase \in Nat \ {0}
    /\ Place \in [1..W -> Nat \ {0}]
    /\ Place[W] = 1
    /\ \A i \in 1..W - 1 : Place[i] = ByteBase * Place[i + 1]
    /\ CountMod = ByteBase * Place[1]

ASSUME DeviceAssumption == MaxDisables \in Nat /\ PositionalCount

VARIABLES enabled,     \* _enabled = GENERIC_RADIO_SIM_SUCCESS
          count,       \* _count
          config,      \* _config, one element per byte, most significant first
          keepRunning, \* _keep_running
          dev,         \* where run() stands
          job,         \* the datagram run() handles, sock_buffer
          tmp,         \* _count as loaded, or as far as copied into out_data
          reg,         \* _config as loaded or copied into out_data
          lane,        \* byte of _count or _config handled next
          cb,          \* where command_callback() stands
          gen,         \* history: number of times _count was cleared
          jobGen,      \* history: gen when the first byte of _count was read
          jobUntil,    \* history: gen when the byte read last was read
          raced        \* history: a command was handled while _count was cleared

devVars == <<enabled, count, config, keepRunning, dev, job, tmp, reg, lane,
             cb, gen, jobGen, jobUntil, raced>>

Or(a, b) == IF a > b THEN a ELSE b

DevPC == {"recv", "load", "store", "config", "orload", "orstore",
          "snapcount", "snapconfig", "reply"}
CbPC == {"idle", "enable", "clearcount", "clearconfig", "enabled_reply",
         "disabled_reply", "stopping_reply", "other_reply"}

NoJob == Stray("malformed")

DeviceInit ==
    /\ enabled = TRUE
    /\ count = 0
    /\ config = Zero
    /\ keepRunning = TRUE
    /\ dev = "recv"
    /\ job = NoJob
    /\ tmp = 0
    /\ reg = Zero
    /\ lane = 1
    /\ cb = "idle"
    /\ gen = 0
    /\ jobGen = 0
    /\ jobUntil = 0
    /\ raced = FALSE

-----------------------------------------------------------------------------
(* The run() thread.                                                       *)

\* Mutant of Accepted: the simulator forgets to check that it is enabled.
AcceptedWhileDisabled(m) == m.kind \in {"hk", "config"}

\* A datagram is handled only while enabled, with the right size, header and
\* trailer, and a command identifier the switch knows.
Accepted(m) == enabled /\ m.kind \in {"hk", "config"}

\* The locals of the handler end with it.
HandlerEnds ==
    /\ dev' = "recv"
    /\ job' = NoJob
    /\ tmp' = 0
    /\ reg' = Zero
    /\ lane' = 1
    /\ jobGen' = 0
    /\ jobUntil' = 0

\* Mutant of DevReceive: one datagram that is not a command ends the loop.
DevReceiveOnce ==
    /\ dev = "recv"
    /\ keepRunning
    /\ radioRx # <<>>
    /\ radioRx' = Tail(radioRx)
    /\ IF Accepted(Head(radioRx))
          THEN job' = Head(radioRx) /\ dev' = "load" /\ UNCHANGED keepRunning
          ELSE keepRunning' = FALSE /\ UNCHANGED <<job, dev>>
    /\ UNCHANGED <<fswRx, strays, enabled, count, config, tmp, reg, lane, cb,
                   gen, jobGen, jobUntil, raced>>

DevReceive ==
    /\ dev = "recv"
    /\ keepRunning
    /\ radioRx # <<>>
    /\ radioRx' = Tail(radioRx)
    /\ IF Accepted(Head(radioRx))
          THEN job' = Head(radioRx) /\ dev' = "load"
          ELSE UNCHANGED <<job, dev>>
    /\ UNCHANGED <<fswRx, strays, enabled, count, config, keepRunning, tmp,
                   reg, lane, cb, gen, jobGen, jobUntil, raced>>

\* _count++ is a load and a store.
DevLoadCount ==
    /\ dev = "load"
    /\ tmp' = count
    /\ dev' = "store"
    /\ UNCHANGED <<portVars, enabled, count, config, keepRunning, job, reg,
                   lane, cb, gen, jobGen, jobUntil, raced>>

\* Mutant of DevStoreCount: housekeeping requests are not counted.
DevStoreCountConfigOnly ==
    /\ dev = "store"
    /\ count' = IF job.kind = "hk" THEN tmp ELSE (tmp + 1) % CountMod
    /\ tmp' = 0
    /\ dev' = IF job.kind = "hk" THEN "snapcount" ELSE "config"
    /\ UNCHANGED <<portVars, enabled, config, keepRunning, job, reg,
                   lane, cb, gen, jobGen, jobUntil, raced>>

DevStoreCount ==
    /\ dev = "store"
    /\ count' = (tmp + 1) % CountMod
    /\ tmp' = 0
    /\ dev' = IF job.kind = "hk" THEN "snapcount" ELSE "config"
    /\ UNCHANGED <<portVars, enabled, config, keepRunning, job, reg,
                   lane, cb, gen, jobGen, jobUntil, raced>>

\* Mutant of DevStoreConfig: the first byte is ORed in like the others.
DevStoreConfigOred ==
    /\ dev = "config"
    /\ config' = [config EXCEPT ![1] = Or(@, job.word[1])]
    /\ lane' = 2
    /\ dev' = "orload"
    /\ UNCHANGED <<portVars, enabled, count, keepRunning, job, tmp, reg, cb,
                   gen, jobGen, jobUntil, raced>>

\* _config = in_data[3] << 24: the first byte is stored, the others zeroed.
DevStoreConfig ==
    /\ dev = "config"
    /\ config' = [i \in 1..W |-> IF i = 1 THEN job.word[1] ELSE 0]
    /\ lane' = 2
    /\ dev' = "orload"
    /\ UNCHANGED <<portVars, enabled, count, keepRunning, job, tmp, reg, cb,
                   gen, jobGen, jobUntil, raced>>

\* _config |= in_data[..]: a load, then a store of the word with one more byte.
DevLoadConfig ==
    /\ dev = "orload"
    /\ reg' = config
    /\ dev' = "orstore"
    /\ UNCHANGED <<portVars, enabled, count, config, keepRunning, job, tmp,
                   lane, cb, gen, jobGen, jobUntil, raced>>

DevOrConfig ==
    /\ dev = "orstore"
    /\ config' = [reg EXCEPT ![lane] = Or(@, job.word[lane])]
    /\ \/ lane = W /\ HandlerEnds
       \/ lane < W /\ dev' = "orload" /\ lane' = lane + 1 /\ reg' = Zero
                   /\ UNCHANGED <<job, tmp, jobGen, jobUntil>>
    /\ UNCHANGED <<portVars, enabled, count, keepRunning, cb, gen, raced>>

\* (c >> shift) & 0xFF, put at the same place in the answer.
CountByte(c, i) == ((c \div Place[i]) % ByteBase) * Place[i]

\* create_generic_radio_hk(): _count byte by byte, then _config.  A DISABLE in
\* between leaves the answer with a count the radio never had.
DevReadCount ==
    /\ dev = "snapcount"
    /\ tmp' = tmp + CountByte(count, lane)
    /\ jobGen' = IF lane = 1 THEN gen ELSE jobGen
    /\ jobUntil' = gen
    /\ lane' = IF lane = W THEN 1 ELSE lane + 1
    /\ dev' = IF lane = W THEN "snapconfig" ELSE "snapcount"
    /\ UNCHANGED <<portVars, enabled, count, config, keepRunning, job, reg,
                   cb, gen, raced>>

\* Mutant of DevReadConfig: the copy runs one byte too far.
DevReadConfigTooFar ==
    /\ dev = "snapconfig"
    /\ reg' = [reg EXCEPT ![lane] = config[lane]]
    /\ lane' = IF lane > W THEN 1 ELSE lane + 1
    /\ dev' = IF lane > W THEN "reply" ELSE "snapconfig"
    /\ UNCHANGED <<portVars, enabled, count, config, keepRunning, job, tmp,
                   cb, gen, jobGen, jobUntil, raced>>

DevReadConfig ==
    /\ dev = "snapconfig"
    /\ reg' = [reg EXCEPT ![lane] = config[lane]]
    /\ lane' = IF lane = W THEN 1 ELSE lane + 1
    /\ dev' = IF lane = W THEN "reply" ELSE "snapconfig"
    /\ UNCHANGED <<portVars, enabled, count, config, keepRunning, job, tmp,
                   cb, gen, jobGen, jobUntil, raced>>

Answer == [kind |-> "reply", id |-> job.id, word |-> reg, count |-> tmp,
           gen |-> jobGen, until |-> jobUntil]

\* Mutant of DevReply: a reply may be sent again.
DevReplyAgain ==
    /\ dev = "reply"
    /\ fswRx' \in Arrivals(fswRx, Answer)
    /\ HandlerEnds \/ UNCHANGED <<dev, job, tmp, reg, lane, jobGen, jobUntil>>
    /\ UNCHANGED <<radioRx, strays, enabled, count, config, keepRunning, cb,
                   gen, raced>>

\* The result of sendto is only logged.
DevReply ==
    /\ dev = "reply"
    /\ fswRx' \in Arrivals(fswRx, Answer)
    /\ HandlerEnds
    /\ UNCHANGED <<radioRx, strays, enabled, count, config, keepRunning, cb,
                   gen, raced>>

RunThread ==
    \/ DevReceive \/ DevLoadCount \/ DevStoreCount
    \/ DevStoreConfig \/ DevLoadConfig \/ DevOrConfig
    \/ DevReadCount \/ DevReadConfig \/ DevReply

-----------------------------------------------------------------------------
(* The NOS Engine thread.                                                  *)

CbEnable ==
    /\ cb = "idle"
    /\ enabled' = TRUE
    /\ cb' = "enable"
    /\ UNCHANGED <<portVars, count, config, keepRunning, dev, job, tmp, reg,
                   lane, gen, jobGen, jobUntil, raced>>

CbKeepRunning ==
    /\ cb = "enable"
    /\ keepRunning' = TRUE
    /\ cb' = "enabled_reply"
    /\ UNCHANGED <<portVars, enabled, count, config, dev, job, tmp, reg, lane,
                   gen, jobGen, jobUntil, raced>>

CbDisable ==
    /\ cb = "idle"
    /\ gen < MaxDisables
    /\ enabled' = FALSE
    /\ cb' = "clearcount"
    /\ UNCHANGED <<portVars, count, config, keepRunning, dev, job, tmp, reg,
                   lane, gen, jobGen, jobUntil, raced>>

CbClearCount ==
    /\ cb = "clearcount"
    /\ count' = 0
    /\ gen' = gen + 1
    /\ raced' = (dev # "recv")
    /\ cb' = "clearconfig"
    /\ UNCHANGED <<portVars, enabled, config, keepRunning, dev, job, tmp, reg,
                   lane, jobGen, jobUntil>>

CbClearConfig ==
    /\ cb = "clearconfig"
    /\ config' = Zero
    /\ cb' = "disabled_reply"
    /\ UNCHANGED <<portVars, enabled, count, keepRunning, dev, job, tmp, reg,
                   lane, gen, jobGen, jobUntil, raced>>

\* STOP only chooses the text of the answer.
CbStop ==
    /\ cb = "idle"
    /\ cb' = "stopping_reply"
    /\ UNCHANGED <<portVars, enabled, count, config, keepRunning, dev, job,
                   tmp, reg, lane, gen, jobGen, jobUntil, raced>>

\* HELP, and every command that is not recognised.
CbOther ==
    /\ cb = "idle"
    /\ cb' = "other_reply"
    /\ UNCHANGED <<portVars, enabled, count, config, keepRunning, dev, job,
                   tmp, reg, lane, gen, jobGen, jobUntil, raced>>

CbReply ==
    /\ cb \in {"enabled_reply", "disabled_reply", "stopping_reply", "other_reply"}
    /\ cb' = "idle"
    /\ UNCHANGED <<portVars, enabled, count, config, keepRunning, dev, job,
                   tmp, reg, lane, gen, jobGen, jobUntil, raced>>

CallbackThread ==
    \/ CbEnable \/ CbKeepRunning
    \/ CbDisable \/ CbClearCount \/ CbClearConfig
    \/ CbStop \/ CbOther \/ CbReply

DeviceNext == RunThread \/ CallbackThread

-----------------------------------------------------------------------------
DeviceTypeOK ==
    /\ enabled \in BOOLEAN
    /\ count \in 0..CountMod - 1
    /\ config \in Word
    /\ keepRunning \in BOOLEAN
    /\ dev \in DevPC
    /\ job \in Datagram
    /\ tmp \in Nat
    /\ reg \in Word
    /\ lane \in 1..W
    /\ cb \in CbPC
    /\ gen \in Nat
    /\ jobGen \in Nat
    /\ jobUntil \in Nat
    /\ raced \in BOOLEAN

(***************************************************************************)
(* A disabled radio reports nothing of its past: once DISABLE has answered *)
(* and until the next ENABLE, _count and _config are zero, unless run()    *)
(* was still handling a command when the callback cleared them.            *)
(***************************************************************************)
DisableClears ==
    /\ ~enabled
    /\ cb \notin {"clearcount", "clearconfig"}
    /\ ~raced
    => count = 0 /\ config = Zero
=============================================================================

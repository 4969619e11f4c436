-------------------------- MODULE RadioDataProofs --------------------------
(***************************************************************************)
(* Proofs about what the device holds, counts and reports, and about how   *)
(* far the application lags behind it: what a DISABLE leaves behind, where *)
(* the bytes of a reported configuration come from, that reported counts   *)
(* advance, and that a lag never heals.                                    *)
(***************************************************************************)
EXTENDS RadioLinkProofs, FiniteSetTheorems

USE PortsAssumption, DeviceAssumption, LibAssumption, AppAssumption

(***************************************************************************)
(* What makes DisableClears inductive: until the next ENABLE, run() does   *)
(* not take another command, so nothing is stored after the callback       *)
(* cleared it; cb tells which of the two assignments were made.            *)
(***************************************************************************)
ClearInv ==
    ~enabled /\ ~raced /\ cb # "clearcount" =>
        /\ dev = "recv"
        /\ count = 0
        /\ cb # "clearconfig" => config = Zero

\* A disabled run() that stands at recvfrom changes nothing it shares.
LEMMA ClearRun ==
    ASSUME ClearInv, RunThread
    PROVE  ClearInv'
<1>1. CASE DevReceive
  BY <1>1 DEF DevReceive, Accepted, ClearInv
<1>2. CASE ~DevReceive
  <2>1. dev # "recv" /\ UNCHANGED <<enabled, raced, cb>>
    BY <1>2 DEF RunThread, DevLoadCount, DevStoreCount, DevStoreConfig, DevLoadConfig,
       DevOrConfig, DevReadCount, DevReadConfig, DevReply
  <2> QED
    BY <2>1 DEF ClearInv
<1> QED
  BY <1>1, <1>2

\* The callback's three assignments, and its other commands.
LEMMA ClearCallback ==
    ASSUME TypeOK, ClearInv, CallbackThread
    PROVE  ClearInv'
BY DEF CallbackThread, CbEnable, CbKeepRunning, CbDisable, CbClearCount, CbClearConfig,
   CbStop, CbOther, CbReply, ClearInv, TypeOK, DeviceTypeOK

(***************************************************************************)
(* A radio that has been disabled holds neither count nor configuration,   *)
(* unless run() was in the middle of a command when they were cleared.     *)
(***************************************************************************)
THEOREM DisabledIsClear == Spec => []DisableClears
<1>1. Init => ClearInv
  BY DEF Init, DeviceInit, ClearInv
<1>2. TypeOK /\ ClearInv /\ [Next]_vars => ClearInv'
  <2> SUFFICES ASSUME TypeOK, ClearInv, [Next]_vars PROVE ClearInv'
    OBVIOUS
  <2>1. CASE RunStep
    BY <2>1, ClearRun DEF RunStep
  <2>2. CASE CallbackStep
    BY <2>2, ClearCallback DEF CallbackStep
  <2>3. CASE UNCHANGED devVars
    BY <2>3 DEF devVars, ClearInv
  <2> QED
    BY <2>1, <2>2, <2>3
    DEF Next, MainStep, GroundStep, NetworkStep, AppFrame, vars
<1>3. ClearInv => DisableClears
  BY DEF ClearInv, DisableClears
<1> QED
  BY <1>1, <1>2, <1>3, TypeCorrect, PTL DEF Spec

-----------------------------------------------------------------------------
\* The bytes of c are those of w, or zero.
Within(c, w) == \A i \in 1..W : c[i] \in {0, w[i]}

\* The word on the wire for some configuration of the ground.
OnWire(w) == \E v \in ConfigWords : w = Wire(v)

\* The bytes of c come from one command.
OneSource(c) == \E v \in ConfigWords : Within(c, Wire(v))

(***************************************************************************)
(* Every word on its way, in either direction, comes from one command: in  *)
(* the datagrams (Carried), in _config and the copies run() holds of it    *)
(* (Held), in the pipe and in the packet (Commanded).  While run() builds  *)
(* _config, it and the copy hold bytes of the command in hand; while an    *)
(* answer is put together, _config is only ever cleared, so it and the     *)
(* copy have the same source.                                              *)
(***************************************************************************)
Carried(q, r) ==
    /\ \A i \in 1..Len(q) : q[i].kind = "config" => OnWire(q[i].word)
    /\ \A i \in 1..Len(r) : r[i].kind = "reply" => OneSource(r[i].word)

Held ==
    /\ dev \notin {"recv", "load", "store"} =>
          (job.kind = "config" <=> dev \in {"config", "orload", "orstore"})
    /\ dev # "recv" => job.kind \in {"hk", "config"}
    /\ dev # "recv" /\ job.kind = "config" => OnWire(job.word)
    /\ OneSource(config)
    /\ dev \in {"orload", "orstore"} => Within(config, job.word)
    /\ dev = "orstore" => Within(reg, job.word)
    /\ dev \in {"recv", "load", "store", "snapcount"} => reg = Zero
    /\ dev = "snapconfig" =>
          \E v \in ConfigWords : Within(config, Wire(v)) /\ Within(reg, Wire(v))
    /\ dev = "reply" => OneSource(reg)

Commanded ==
    /\ \A i \in 1..Len(cmdPipe) : cmdPipe[i].word \in ConfigWords
    /\ OneSource(hk.DeviceConfig)

\* The zero word, and a word itself, come from one command.
LEMMA Sources ==
    /\ \A w : Within(Zero, w)
    /\ \A w : Within(w, w)
    /\ OneSource(Zero)
    /\ \A c : \A w : OnWire(w) /\ Within(c, w) => OneSource(c)
<1>1. \A w : Within(Zero, w) /\ Within(w, w)
  BY DEF Within, Zero
<1> QED
  BY <1>1 DEF OneSource, OnWire

\* Whatever is sent to a buffer is one of its last contents, or the new datagram.
LEMMA SendElements ==
    ASSUME NEW q \in Seq(Datagram), NEW m \in Datagram, NEW r \in Arrivals(q, m)
    PROVE  r \in Seq(Datagram) /\ \A i \in 1..Len(r) : r[i] = m \/ \E j \in 1..Len(q) : r[i] = q[j]
BY DEF Arrivals

\* And nothing new shows up when one is read.
LEMMA ReadElements ==
    ASSUME NEW S, NEW q \in Seq(S), q # <<>>
    PROVE  /\ \A i \in 1..Len(Tail(q)) : \E j \in 1..Len(q) : Tail(q)[i] = q[j]
           /\ 1 \in 1..Len(q) /\ Head(q) = q[1]
<1>1. \A i \in 1..Len(Tail(q)) : i + 1 \in 1..Len(q) /\ Tail(q)[i] = q[i + 1]
  OBVIOUS
<1> QED
  BY <1>1

\* One byte more of the command in hand.
LEMMA OrWithin ==
    ASSUME NEW c \in Word, NEW w \in Word, NEW k \in 1..W, Within(c, w)
    PROVE  Within([c EXCEPT ![k] = Or(@, w[k])], w)
<1> SUFFICES ASSUME NEW i \in 1..W PROVE [c EXCEPT ![k] = Or(@, w[k])][i] \in {0, w[i]}
  BY DEF Within
<1>1. c[k] \in {0, w[k]} /\ c[i] \in {0, w[i]} /\ w[k] \in 0..1
  BY DEF Within, Word, Byte
<1>2. Or(c[k], w[k]) \in {0, w[k]}
  BY <1>1 DEF Or
<1> QED
  BY <1>1, <1>2 DEF Word

\* run() keeps to one source.
LEMMA HeldRun ==
    ASSUME TypeOK, Carried(radioRx, fswRx), Held, RunThread
    PROVE  Held' /\ Carried(radioRx, fswRx)'
<1> USE DEF Held
<1>0. /\ radioRx \in Seq(Datagram) /\ fswRx \in Seq(Datagram)
      /\ config \in Word /\ reg \in Word /\ job \in Datagram /\ lane \in 1..W
      /\ job.word \in Word
  BY DEF TypeOK, PortsTypeOK, DeviceTypeOK, Datagram
<1>u. UNCHANGED <<radioRx, fswRx>> => Carried(radioRx, fswRx)'
  BY DEF Carried, OnWire, OneSource, Within
<1>1. CASE DevReceive
  <2>1. /\ dev = "recv" /\ radioRx # <<>> /\ radioRx' = Tail(radioRx)
        /\ UNCHANGED <<fswRx, config, reg>>
    BY <1>1 DEF DevReceive
  <2>2. Carried(radioRx, fswRx)'
    <3>1. \A i \in 1..Len(radioRx') : \E j \in 1..Len(radioRx) : radioRx'[i] = radioRx[j]
      BY <1>0, <2>1, ReadElements
    <3> QED
      BY <2>1, <3>1 DEF Carried
  <2>3. Head(radioRx).kind = "config" => OnWire(Head(radioRx).word)
    BY <1>0, <2>1, ReadElements DEF Carried
  <2>4. CASE Accepted(Head(radioRx))
    <3>1. job' = Head(radioRx) /\ dev' = "load"
      BY <1>1, <2>4 DEF DevReceive
    <3> QED
      BY <2>1, <2>2, <2>3, <2>4, <3>1 DEF Accepted, OnWire, OneSource, Within
  <2>5. CASE ~Accepted(Head(radioRx))
    <3>1. job' = job /\ dev' = dev
      BY <1>1, <2>5 DEF DevReceive
    <3> QED
      BY <2>1, <2>2, <3>1
  <2> QED
    BY <2>4, <2>5
<1>2. CASE DevLoadCount \/ DevStoreCount
  BY <1>2, <1>u DEF DevLoadCount, DevStoreCount, portVars, OnWire, OneSource, Within
<1>3. CASE DevStoreConfig
  <2>1. /\ dev = "config" /\ dev' = "orload" /\ job.kind = "config" /\ OnWire(job.word)
        /\ config' = [i \in 1..W |-> IF i = 1 THEN job.word[1] ELSE 0]
        /\ UNCHANGED <<radioRx, fswRx, job, reg>>
    BY <1>3 DEF DevStoreConfig, portVars
  <2>2. Within(config', job.word)
    BY <2>1 DEF Within
  <2> QED
    BY <1>u, <2>1, <2>2, Sources
<1>4. CASE DevLoadConfig
  BY <1>4, <1>u DEF DevLoadConfig, portVars
<1>5. CASE DevOrConfig
  <2>1. /\ dev = "orstore" /\ config' = [reg EXCEPT ![lane] = Or(@, job.word[lane])]
        /\ UNCHANGED <<radioRx, fswRx>>
    BY <1>5 DEF DevOrConfig, portVars
  <2>2. Within(config', job.word) /\ OnWire(job.word) /\ job.kind = "config"
    BY <1>0, <2>1, OrWithin
  <2>3. OneSource(config')
    BY <2>2, Sources
  <2>4. CASE lane = W /\ HandlerEnds
    BY <1>u, <2>1, <2>3, <2>4 DEF HandlerEnds
  <2>5. CASE dev' = "orload" /\ job' = job
    BY <1>u, <2>1, <2>2, <2>3, <2>5
  <2> QED
    BY <1>5, <2>4, <2>5 DEF DevOrConfig
<1>6. CASE DevReadCount
  <2>1. /\ dev = "snapcount" /\ dev' \in {"snapcount", "snapconfig"}
        /\ UNCHANGED <<radioRx, fswRx, job, reg, config>>
    BY <1>6 DEF DevReadCount, portVars
  <2>2. reg = Zero /\ job.kind = "hk"
    BY <2>1
  <2>3. PICK v \in ConfigWords : Within(config, Wire(v))
    BY DEF OneSource
  <2>4. Within(reg, Wire(v))
    BY <2>2, Sources
  <2> QED
    BY <1>u, <2>1, <2>2, <2>3, <2>4
<1>7. CASE DevReadConfig
  <2>1. /\ dev = "snapconfig" /\ dev' \in {"snapconfig", "reply"}
        /\ reg' = [reg EXCEPT ![lane] = config[lane]]
        /\ UNCHANGED <<radioRx, fswRx, job, config>>
    BY <1>7 DEF DevReadConfig, portVars
  <2>2. job.kind # "config" /\ job.kind \in {"hk", "config"}
    BY <2>1
  <2>3. PICK v \in ConfigWords : Within(config, Wire(v)) /\ Within(reg, Wire(v))
    BY <2>1
  <2>4. Within(reg', Wire(v))
    BY <1>0, <2>1, <2>3 DEF Within, Word
  <2>5. OneSource(reg') /\ OneSource(config')
    BY <2>1, <2>3, <2>4 DEF OneSource
  <2> QED
    BY <1>u, <2>1, <2>2, <2>3, <2>4, <2>5
<1>8. CASE DevReply
  <2>1. /\ dev = "reply" /\ fswRx' \in Arrivals(fswRx, Answer) /\ HandlerEnds
        /\ UNCHANGED <<radioRx, config>>
    BY <1>8 DEF DevReply
  <2>2. Answer \in Datagram /\ Answer.word = reg /\ OneSource(reg)
    BY <1>0, <2>1 DEF Answer, Datagram, TypeOK, DeviceTypeOK
  <2>3. \A i \in 1..Len(fswRx') : fswRx'[i] = Answer \/ \E j \in 1..Len(fswRx) : fswRx'[i] = fswRx[j]
    BY <1>0, <2>1, <2>2, SendElements
  <2>4. Carried(radioRx, fswRx)'
    BY <2>1, <2>2, <2>3 DEF Carried
  <2> QED
    BY <2>1, <2>4 DEF HandlerEnds
<1> QED
  BY <1>1, <1>2, <1>3, <1>4, <1>5, <1>6, <1>7, <1>8 DEF RunThread

\* The callback only ever clears _config.
LEMMA HeldCallback ==
    ASSUME Held, CallbackThread
    PROVE  Held' /\ UNCHANGED <<radioRx, fswRx>>
<1>1. UNCHANGED <<radioRx, fswRx, dev, job, reg>> /\ (config' = config \/ config' = Zero)
  BY DEF CallbackThread, CbEnable, CbKeepRunning, CbDisable, CbClearCount, CbClearConfig,
     CbStop, CbOther, CbReply, portVars
<1>2. CASE config' = config
  BY <1>1, <1>2 DEF Held, OneSource, OnWire, Within
<1>3. CASE config' = Zero
  <2>1. OneSource(config') /\ \A w : Within(config', w)
    BY <1>3, Sources
  <2> QED
    BY <1>1, <2>1 DEF Held
<1> QED
  BY <1>1, <1>2, <1>3

\* A configuration of the ground leaves as it was commanded, in the wire order.
LEMMA SetConfigWire ==
    \A w \in ConfigWords : /\ SetConfig(w) \in Datagram
                           /\ SetConfig(w).kind = "config" => OnWire(SetConfig(w).word)
<1>1. ConfigWords \subseteq Word
  OBVIOUS
<1> QED
  BY <1>1, SetConfigType DEF SetConfig, OnWire

\* What the main task sends comes from its pipe, and what it reports from an answer.
LEMMA CarriedMain ==
    ASSUME TypeOK, Carried(radioRx, fswRx), Commanded, MainTask
    PROVE  Carried(radioRx, fswRx)' /\ Commanded'
<1> USE DEF Commanded
<1>0. /\ radioRx \in Seq(Datagram) /\ fswRx \in Seq(Datagram)
      /\ cmdPipe \in Seq(Command) /\ hk \in HkPacket /\ issued \in Nat
  BY DEF TypeOK, PortsTypeOK, AppTypeOK
<1>p. cmdPipe # <<>> /\ cmdPipe' = Tail(cmdPipe) =>
          /\ \A i \in 1..Len(cmdPipe') : cmdPipe'[i].word \in ConfigWords
          /\ Head(cmdPipe).word \in ConfigWords
  BY <1>0, ReadElements
<1>t. \A c : Take(c) => cmdPipe # <<>> /\ cmdPipe' = Tail(cmdPipe)
  BY DEF Take
<1>f. UNCHANGED fswRx /\ UNCHANGED radioRx => Carried(radioRx, fswRx)'
  BY DEF Carried
<1>r. fswRx # <<>> /\ fswRx' = Tail(fswRx) /\ UNCHANGED radioRx =>
          /\ Carried(radioRx, fswRx)'
          /\ Head(fswRx).kind = "reply" => OneSource(Head(fswRx).word)
  <2> SUFFICES ASSUME fswRx # <<>>, fswRx' = Tail(fswRx), UNCHANGED radioRx
               PROVE  /\ Carried(radioRx, fswRx)'
                      /\ Head(fswRx).kind = "reply" => OneSource(Head(fswRx).word)
    OBVIOUS
  <2>1. /\ \A i \in 1..Len(fswRx') : \E j \in 1..Len(fswRx) : fswRx'[i] = fswRx[j]
        /\ 1 \in 1..Len(fswRx) /\ Head(fswRx) = fswRx[1]
    BY <1>0, ReadElements
  <2> QED
    BY <2>1 DEF Carried
<1>s. ASSUME NEW m \in Datagram, m.kind = "config" => OnWire(m.word),
             radioRx' \in Arrivals(radioRx, m), UNCHANGED fswRx
      PROVE  Carried(radioRx, fswRx)'
  <2>1. \A i \in 1..Len(radioRx') :
            radioRx'[i] = m \/ \E j \in 1..Len(radioRx) : radioRx'[i] = radioRx[j]
    BY <1>0, <1>s, SendElements
  <2> QED
    BY <1>s, <2>1 DEF Carried
<1>1. CASE Noop \/ Invalid \/ ConfigNotSent \/ Proximity
  <2>1. /\ cmdPipe # <<>> /\ cmdPipe' = Tail(cmdPipe)
        /\ UNCHANGED <<radioRx, fswRx>>
    BY <1>1, <1>t DEF Noop, Invalid, ConfigNotSent, Proximity, Served
  <2>2. hk'.DeviceConfig = hk.DeviceConfig
    BY <1>0, <1>1 DEF Noop, Invalid, ConfigNotSent, Proximity, HkPacket
  <2> QED
    BY <1>f, <1>p, <2>1, <2>2
<1>2. CASE Reset
  <2>1. hk'.DeviceConfig = Zero
    BY <1>2 DEF Reset, ResetCounters
  <2> QED
    BY <1>2, <1>f, <1>p, <1>t, <2>1, Sources DEF Reset, Served
<1>3. CASE ConfigSent
  <2>1. /\ cmdPipe # <<>> /\ cmdPipe' = Tail(cmdPipe) /\ UNCHANGED fswRx
        /\ radioRx' \in Arrivals(radioRx, SetConfig(Head(cmdPipe).word))
    BY <1>3, <1>t DEF ConfigSent, Served
  <2>2. hk'.DeviceConfig = hk.DeviceConfig
    BY <1>0, <1>3 DEF ConfigSent, HkPacket
  <2>3. Carried(radioRx, fswRx)'
    BY <1>p, <1>s, <2>1, SetConfigWire
  <2> QED
    BY <1>p, <2>1, <2>2, <2>3
<1>4. CASE HkSend
  <2>1. /\ cmdPipe # <<>> /\ cmdPipe' = Tail(cmdPipe) /\ UNCHANGED <<fswRx, hk>>
        /\ radioRx' \in Arrivals(radioRx, HkRequest(issued + 1))
    BY <1>4, <1>t DEF HkSend
  <2>2. HkRequest(issued + 1) \in Datagram /\ HkRequest(issued + 1).kind # "config"
    BY <1>0, HkRequestType DEF HkRequest
  <2>3. Carried(radioRx, fswRx)'
    BY <1>s, <2>1, <2>2
  <2> QED
    BY <1>p, <2>1, <2>3
<1>5. CASE HkHit
  <2>1. /\ fswRx # <<>> /\ fswRx' = Tail(fswRx) /\ UNCHANGED <<radioRx, cmdPipe>>
        /\ Head(fswRx).kind = "reply"
    BY <1>5 DEF HkHit
  <2>2. hk'.DeviceConfig = Head(fswRx).word
    BY <1>0, <1>5 DEF HkHit, HkPacket
  <2> QED
    BY <1>r, <2>1, <2>2
<1>6. CASE HkMiss
  <2>1. UNCHANGED <<radioRx, cmdPipe>> /\ hk'.DeviceConfig = hk.DeviceConfig
    BY <1>0, <1>6 DEF HkMiss, HkPacket
  <2>2. UNCHANGED fswRx \/ (fswRx # <<>> /\ fswRx' = Tail(fswRx))
    BY <1>6 DEF HkMiss
  <2> QED
    BY <1>f, <1>r, <2>1, <2>2
<1> QED
  BY <1>1, <1>2, <1>3, <1>4, <1>5, <1>6 DEF MainTask

\* Third parties send neither commands nor answers.
LEMMA CarriedNetwork ==
    ASSUME TypeOK, Carried(radioRx, fswRx), StrayToRadio \/ StrayToFsw
    PROVE  Carried(radioRx, fswRx)'
<1>0. radioRx \in Seq(Datagram) /\ fswRx \in Seq(Datagram)
  BY DEF TypeOK, PortsTypeOK
<1>1. CASE StrayToRadio
  <2>1. PICK k \in {"unknown", "malformed"} : radioRx' \in Arrivals(radioRx, Stray(k))
    BY <1>1 DEF StrayToRadio
  <2>2. UNCHANGED fswRx /\ Stray(k) \in Datagram /\ Stray(k).kind # "config"
    BY <1>1, StrayType DEF StrayToRadio, Stray
  <2>3. \A i \in 1..Len(radioRx') :
            radioRx'[i] = Stray(k) \/ \E j \in 1..Len(radioRx) : radioRx'[i] = radioRx[j]
    BY <1>0, <2>1, <2>2, SendElements
  <2> QED
    BY <2>2, <2>3 DEF Carried
<1>2. CASE StrayToFsw
  <2>1. /\ UNCHANGED radioRx /\ fswRx' \in Arrivals(fswRx, Stray("malformed"))
        /\ Stray("malformed") \in Datagram /\ Stray("malformed").kind # "reply"
    BY <1>2, StrayType DEF StrayToFsw, Stray
  <2>2. \A i \in 1..Len(fswRx') :
            fswRx'[i] = Stray("malformed") \/ \E j \in 1..Len(fswRx) : fswRx'[i] = fswRx[j]
    BY <1>0, <2>1, SendElements
  <2> QED
    BY <2>1, <2>2 DEF Carried
<1> QED
  BY <1>1, <1>2

\* What the ground commands is one of its configurations.
LEMMA CommandedGround ==
    ASSUME TypeOK, Commanded, SendCommand
    PROVE  Commanded'
<1>1. PICK c \in Codes, w \in ConfigWords : cmdPipe' = Append(cmdPipe, [cc |-> c, word |-> w])
  BY DEF SendCommand
<1>2. cmdPipe \in Seq(Command) /\ UNCHANGED hk
  BY DEF TypeOK, AppTypeOK, SendCommand
<1>3. \A i \in 1..Len(cmdPipe') : cmdPipe'[i].word = w \/ \E j \in 1..Len(cmdPipe) : cmdPipe'[i] = cmdPipe[j]
  BY <1>1, <1>2
<1> QED
  BY <1>2, <1>3 DEF Commanded

(***************************************************************************)
(* No reported configuration combines bytes of two commands, with words of *)
(* any length, whatever is lost and however the device's two threads       *)
(* interleave.                                                             *)
(***************************************************************************)
THEOREM ConfigNeverMixed == Spec => []NoMixedConfig
<1>1. Init => Carried(radioRx, fswRx) /\ Held /\ Commanded
  BY Sources DEF Init, PortsInit, DeviceInit, AppInit, Carried, Held, Commanded, ResetCounters
<1>2. TypeOK /\ Carried(radioRx, fswRx) /\ Held /\ Commanded /\ [Next]_vars
         => Carried(radioRx, fswRx)' /\ Held' /\ Commanded'
  <2> SUFFICES ASSUME TypeOK, Carried(radioRx, fswRx), Held, Commanded, [Next]_vars
               PROVE  Carried(radioRx, fswRx)' /\ Held' /\ Commanded'
    OBVIOUS
  <2>a. UNCHANGED appVars => Commanded'
    BY DEF appVars, Commanded
  <2>d. UNCHANGED devVars => Held'
    BY DEF devVars, Held, OneSource, OnWire, Within
  <2>p. UNCHANGED <<radioRx, fswRx>> => Carried(radioRx, fswRx)'
    BY DEF Carried
  <2>1. CASE RunStep
    BY <2>1, <2>a, HeldRun DEF RunStep, DeviceFrame
  <2>2. CASE CallbackStep
    BY <2>2, <2>a, <2>p, HeldCallback DEF CallbackStep, DeviceFrame
  <2>3. CASE MainStep
    BY <2>3, <2>d, CarriedMain DEF MainStep, AppFrame
  <2>4. CASE GroundStep
    BY <2>4, <2>d, <2>p, CommandedGround DEF GroundStep, AppFrame, SendCommand, portVars
  <2>5. CASE NetworkStep
    BY <2>5, <2>a, <2>d, CarriedNetwork DEF NetworkStep
  <2>6. CASE UNCHANGED vars
    BY <2>6, <2>a, <2>d, <2>p DEF vars, portVars
  <2> QED
    BY <2>1, <2>2, <2>3, <2>4, <2>5, <2>6 DEF Next
<1>3. Commanded => NoMixedConfig
  BY DEF Commanded, NoMixedConfig, OneSource, Within
<1> QED
  BY <1>1, <1>2, <1>3, TypeCorrect, PTL DEF Spec

-----------------------------------------------------------------------------
(***************************************************************************)
(* A network that loses nothing: the lag of the application equals the     *)
(* number of requests it reported as failed, for ever.                     *)
(***************************************************************************)

\* A datagram of kind k with number n is in buffer q.
Holds(q, k, n) == \E i \in 1..Len(q) : q[i].kind = k /\ q[i].id = n

\* Request n, or its answer, is somewhere between the two programs.
UnderWay(n) ==
    \/ Holds(fswRx, "reply", n)
    \/ Answering /\ job.id = n
    \/ Holds(radioRx, "hk", n)

Busy == IF dev = "recv" THEN 0 ELSE 1

(***************************************************************************)
(* Why nothing is lost.  Each datagram comes from a command or a third     *)
(* party, so the buffers, larger than both bounds together, never fill     *)
(* (Room); the device is enabled, and ends a housekeeping command only     *)
(* with an answer (Attentive).                                             *)
(***************************************************************************)
Room ==
    /\ accepted <= MaxCommands
    /\ Len(radioRx) + Len(fswRx) + Busy + Len(cmdPipe) <= accepted + strays

Attentive ==
    /\ enabled
    /\ dev # "recv" => job.kind \in {"hk", "config"}
    /\ dev \in {"config", "orload", "orstore"} => job.kind = "config"

NoneLost == \A n \in Nat : last.id < n /\ n <= issued => UnderWay(n)

LagInv ==
    Lossless => Room /\ Attentive /\ NoneLost /\ last.id + misses = done

\* The numbers the argument counts with.
Sizes ==
    /\ radioRx \in Seq(Datagram) /\ fswRx \in Seq(Datagram)
    /\ Len(radioRx) \in Nat /\ Len(fswRx) \in Nat /\ Len(cmdPipe) \in Nat
    /\ accepted \in Nat /\ strays \in Nat /\ strays <= MaxStray
    /\ Busy \in 0..1 /\ RxCap \in Nat /\ MaxCommands \in Nat /\ MaxStray \in Nat
    /\ job \in Datagram /\ job.id \in Nat /\ last.id \in Nat
    /\ issued \in Nat /\ done \in Nat /\ misses \in Nat

\* The types say so.
LEMMA LagTypes == TypeOK => Sizes
BY IdType DEF TypeOK, PortsTypeOK, DeviceTypeOK, AppTypeOK, Busy, Sizes

\* Where a request may be, now and after a step.
LEMMA UnderWayParts ==
    /\ \A n : UnderWay(n) <=>
          \/ Holds(fswRx, "reply", n)
          \/ dev # "recv" /\ job.kind = "hk" /\ job.id = n
          \/ Holds(radioRx, "hk", n)
    /\ \A n : UnderWay(n)' <=>
          \/ Holds(fswRx', "reply", n)
          \/ dev' # "recv" /\ job'.kind = "hk" /\ job'.id = n
          \/ Holds(radioRx', "hk", n)
BY DEF UnderWay, Answering, Holds

\* A buffer with room, on a network that loses nothing, takes what is sent to it.
LEMMA SendArrives ==
    ASSUME NEW q \in Seq(Datagram), NEW m \in Datagram, NEW r \in Arrivals(q, m),
           ~Faulty, Len(q) < RxCap
    PROVE  /\ Len(r) = Len(q) + 1
           /\ \A k, n : Holds(q, k, n) => Holds(r, k, n)
           /\ Holds(r, m.kind, m.id)
<1>1. r = Append(q, m)
  BY DEF Arrivals
<1>2. /\ Len(r) = Len(q) + 1 /\ Len(q) \in Nat /\ r[Len(q) + 1] = m
      /\ \A i \in 1..Len(q) : r[i] = q[i]
  BY <1>1
<1> QED
  BY <1>2 DEF Holds

\* A datagram that was not the oldest is still there when that one is read.
LEMMA ReadLeaves ==
    ASSUME NEW q \in Seq(Datagram), q # <<>>
    PROVE  /\ Len(Tail(q)) = Len(q) - 1
           /\ \A k, n : Holds(q, k, n) =>
                 Holds(Tail(q), k, n) \/ (Head(q).kind = k /\ Head(q).id = n)
<1>1. /\ Len(q) \in Nat /\ Len(q) >= 1 /\ Len(Tail(q)) = Len(q) - 1 /\ Head(q) = q[1]
      /\ \A i \in 1..(Len(q) - 1) : Tail(q)[i] = q[i + 1]
  OBVIOUS
<1>2. ASSUME NEW k, NEW n, NEW i \in 1..Len(q), q[i].kind = k, q[i].id = n
      PROVE  Holds(Tail(q), k, n) \/ (Head(q).kind = k /\ Head(q).id = n)
  <2>1. CASE i = 1
    BY <1>1, <1>2, <2>1
  <2>2. CASE i # 1
    <3>1. i - 1 \in 1..Len(Tail(q)) /\ Tail(q)[i - 1] = q[i]
      BY <1>1, <2>2
    <3> QED
      BY <1>2, <3>1 DEF Holds
  <2> QED
    BY <2>1, <2>2
<1> QED
  BY <1>1, <1>2 DEF Holds

\* The steps of run(): a request becomes a job, and the job an answer.
LEMMA LagRun ==
    ASSUME TypeOK, LagInv, Lossless, OneAtATime, RunThread, UNCHANGED appVars
    PROVE  Room' /\ Attentive' /\ NoneLost'
<1>f. Sizes
  BY LagTypes
<1> USE <1>f DEF Sizes
<1>0. /\ UNCHANGED <<cmdPipe, accepted, strays, last, issued, enabled>>
      /\ Room /\ Attentive /\ NoneLost
  BY DEF LagInv, appVars, portVars, RunThread, DevReceive, DevLoadCount, DevStoreCount,
     DevStoreConfig, DevLoadConfig, DevOrConfig, DevReadCount, DevReadConfig, DevReply
<1>1. CASE DevReceive
  <2>1. /\ dev = "recv" /\ radioRx # <<>> /\ radioRx' = Tail(radioRx) /\ fswRx' = fswRx
        /\ IF Head(radioRx).kind \in {"hk", "config"}
              THEN job' = Head(radioRx) /\ dev' = "load"
              ELSE UNCHANGED <<job, dev>>
    BY <1>0, <1>1 DEF DevReceive, Accepted, Attentive
  <2>2. Room'
    BY <1>0, <2>1, ReadLeaves DEF Room, Busy
  <2>3. Attentive'
    BY <1>0, <2>1 DEF Attentive
  <2>4. \A n : UnderWay(n) => UnderWay(n)'
    BY <2>1, ReadLeaves, UnderWayParts
  <2> QED
    BY <1>0, <2>2, <2>3, <2>4 DEF NoneLost
<1>2. CASE DevReply
  <2>1. /\ dev = "reply" /\ job.kind = "hk" /\ fswRx' \in Arrivals(fswRx, Answer)
        /\ dev' = "recv" /\ radioRx' = radioRx
    BY <1>2 DEF DevReply, HandlerEnds, OneAtATime
  <2>2. Answer \in Datagram /\ Answer.kind = "reply" /\ Answer.id = job.id
    BY DEF Answer, Datagram, TypeOK, DeviceTypeOK
  <2>3. Len(fswRx) < RxCap /\ ~Faulty
    BY <1>0, <2>1 DEF Room, Busy, Lossless
  <2>4. /\ Len(fswRx') = Len(fswRx) + 1
        /\ \A k, n : Holds(fswRx, k, n) => Holds(fswRx', k, n)
        /\ Holds(fswRx', "reply", job.id)
    BY <2>1, <2>2, <2>3, SendArrives
  <2>5. Room'
    BY <1>0, <2>1, <2>4 DEF Room, Busy
  <2>6. Attentive'
    BY <1>0, <2>1 DEF Attentive
  <2>7. \A n : UnderWay(n) => UnderWay(n)'
    BY <2>1, <2>4, UnderWayParts
  <2> QED
    BY <1>0, <2>5, <2>6, <2>7 DEF NoneLost
<1>3. CASE DevOrConfig
  <2>1. /\ dev = "orstore" /\ job.kind = "config" /\ UNCHANGED <<radioRx, fswRx>>
        /\ dev' = "recv" \/ (dev' = "orload" /\ job' = job)
    BY <1>0, <1>3 DEF DevOrConfig, HandlerEnds, portVars, Attentive
  <2>2. Room'
    BY <1>0, <2>1 DEF Room, Busy
  <2>3. Attentive'
    BY <1>0, <2>1 DEF Attentive
  <2>4. \A n : UnderWay(n) => UnderWay(n)'
    BY <2>1, UnderWayParts
  <2> QED
    BY <1>0, <2>2, <2>3, <2>4 DEF NoneLost
<1>4. CASE DevLoadCount \/ DevStoreCount \/ DevStoreConfig \/ DevLoadConfig
             \/ DevReadCount \/ DevReadConfig
  <2>1. /\ UNCHANGED <<radioRx, fswRx, job>> /\ dev # "recv" /\ dev' # "recv"
        /\ dev' \in {"config", "orload", "orstore"} => job.kind = "config"
    BY <1>0, <1>4 DEF DevLoadCount, DevStoreCount, DevStoreConfig, DevLoadConfig,
       DevReadCount, DevReadConfig, portVars, Attentive
  <2>2. Room' /\ Attentive'
    BY <1>0, <2>1 DEF Room, Busy, Attentive
  <2>3. \A n : UnderWay(n) => UnderWay(n)'
    BY <2>1, UnderWayParts
  <2> QED
    BY <1>0, <2>2, <2>3 DEF NoneLost
<1> QED
  BY <1>1, <1>2, <1>3, <1>4 DEF RunThread

\* The main task: a request is put under way, and the one decoded is the oldest.
LEMMA LagMain ==
    ASSUME LinkInv, LagInv, Lossless, MainTask, UNCHANGED devVars
    PROVE  Room' /\ Attentive' /\ NoneLost' /\ last'.id + misses' = done'
<1>t. TypeOK
  BY DEF LinkInv
<1>f. Sizes
  BY <1>t, LagTypes
<1> USE <1>t, <1>f DEF Sizes
<1>0. /\ UNCHANGED <<dev, job, enabled, accepted, strays>>
      /\ Room /\ Attentive /\ NoneLost /\ last.id + misses = done
  BY Zenon DEF LagInv, devVars, MainTask, Noop, Reset, Invalid, ConfigSent, ConfigNotSent,
     Proximity, Served, HkSend, HkHit, HkMiss
<1>1. Attentive' /\ (Answering' <=> Answering) /\ Busy' = Busy
  BY <1>0 DEF Attentive, Answering, Busy
<1>2. \A c : Take(c) => Len(cmdPipe) >= 1 /\ Len(cmdPipe') = Len(cmdPipe) - 1
                        /\ Head(cmdPipe) \in Command
  BY DEF Take, TypeOK, AppTypeOK
<1>3. CASE Noop \/ Reset \/ Invalid \/ ConfigNotSent \/ Proximity
  <2>1. UNCHANGED <<radioRx, fswRx, last, issued, done, misses>>
    BY <1>3, Zenon DEF Noop, Reset, Invalid, ConfigNotSent, Proximity, Served
  <2>2. \E c : Take(c)
    BY <1>3, Zenon DEF Noop, Reset, Invalid, ConfigNotSent, Proximity
  <2>3. Room'
    BY <1>0, <1>1, <1>2, <2>1, <2>2 DEF Room
  <2>4. NoneLost'
    BY <1>0, <1>1, <2>1 DEF NoneLost, UnderWay, Holds
  <2> QED
    BY <1>0, <1>1, <2>1, <2>3, <2>4
<1>4. CASE ConfigSent
  <2> DEFINE m == SetConfig(Head(cmdPipe).word)
  <2>1. /\ radioRx' \in Arrivals(radioRx, m) /\ Take("config")
        /\ UNCHANGED <<fswRx, last, issued, done, misses>>
    BY <1>4, Zenon DEF ConfigSent, Served
  <2>2. m \in Datagram
    BY <1>2, <2>1, SetConfigType DEF Command
  <2>3. Len(radioRx) < RxCap /\ ~Faulty
    BY <1>0, <1>2, <2>1 DEF Room, Lossless
  <2> HIDE DEF m
  <2>4. /\ Len(radioRx') = Len(radioRx) + 1
        /\ \A k, n : Holds(radioRx, k, n) => Holds(radioRx', k, n)
    BY <2>1, <2>2, <2>3, SendArrives
  <2>5. Room'
    BY <1>0, <1>1, <1>2, <2>1, <2>4 DEF Room
  <2>6. \A n : UnderWay(n) => UnderWay(n)'
    BY <1>0, <1>1, <2>1, <2>4, UnderWayParts
  <2> QED
    BY <1>0, <1>1, <2>1, <2>5, <2>6 DEF NoneLost
<1>5. CASE HkSend
  <2> DEFINE m == HkRequest(issued + 1)
  <2>1. /\ radioRx' \in Arrivals(radioRx, m) /\ Take("hk") /\ issued' = issued + 1
        /\ UNCHANGED <<fswRx, last, done, misses>>
    BY <1>5 DEF HkSend
  <2>2. m \in Datagram /\ m.kind = "hk" /\ m.id = issued + 1
    BY HkRequestType DEF HkRequest
  <2>3. Len(radioRx) < RxCap /\ ~Faulty
    BY <1>0, <1>2, <2>1 DEF Room, Lossless
  <2> HIDE DEF m
  <2>4. /\ Len(radioRx') = Len(radioRx) + 1
        /\ \A k, n : Holds(radioRx, k, n) => Holds(radioRx', k, n)
        /\ Holds(radioRx', "hk", issued + 1)
    BY <2>1, <2>2, <2>3, SendArrives
  <2>5. Room'
    BY <1>0, <1>1, <1>2, <2>1, <2>4 DEF Room
  <2>6. \A n : UnderWay(n) \/ n = issued + 1 => UnderWay(n)'
    <3>1. UNCHANGED <<dev, job, fswRx>>
      BY <1>0, <2>1
    <3>2. /\ \A n : Holds(radioRx, "hk", n) => Holds(radioRx', "hk", n)
          /\ Holds(radioRx', "hk", issued + 1)
      BY <2>4
    <3> QED
      BY <3>1, <3>2, UnderWayParts, Zenon
  <2>7. NoneLost'
    <3>1. \A n \in Nat : n <= issued + 1 => n <= issued \/ n = issued + 1
      OBVIOUS
    <3> QED
      <4>1. last' = last /\ issued' = issued + 1
        BY <2>1
      <4>2. \A n \in Nat : last.id < n /\ n <= issued => UnderWay(n)'
        BY <1>0, <2>6 DEF NoneLost
      <4> QED
        BY <2>6, <3>1, <4>1, <4>2 DEF NoneLost
  <2> QED
    BY <1>0, <1>1, <2>1, <2>5, <2>7
<1>6. CASE HkHit
  <2> DEFINE h == Head(fswRx).id
  <2>1. /\ fswRx # <<>> /\ Head(fswRx).kind = "reply"
        /\ last' = Head(fswRx) /\ fswRx' = Tail(fswRx)
        /\ misses' = misses /\ done' = done + 1
        /\ UNCHANGED <<radioRx, issued, cmdPipe>>
    BY <1>6, Zenon DEF HkHit
  <2>2. Chain(radioRx, fswRx, dev, job, last.id, issued)
    BY OrderingIsChain DEF LinkInv, Ordering, ChainNow
  <2>3. /\ h \in Nat /\ last.id < h /\ h <= issued
        /\ Chain(radioRx, Tail(fswRx), dev, job, h, issued)
    BY <2>1, <2>2, OrderingTypes, ChainRead
  <2>4. \A n : UnderWay(n) => n = h \/ UnderWay(n)'
    BY <1>0, <1>1, <2>1, ReadLeaves, UnderWayParts
  <2>5. \A n : UnderWay(n)' => h < n
    BY <1>0, <1>1, <2>1, <2>3 DEF UnderWay, Holds, Chain, Above, Answering
  <2>6. h = last.id + 1
    <3>1. last.id + 1 \in Nat /\ last.id < last.id + 1 /\ last.id + 1 <= issued
      BY <2>3
    <3>2. UnderWay(last.id + 1)
      BY <1>0, <3>1 DEF NoneLost
    <3>3. last.id + 1 = h \/ h < last.id + 1
      BY <2>4, <2>5, <3>2
    <3> QED
      BY <2>3, <3>3
  <2>7. Room'
    BY <1>0, <1>1, <2>1, ReadLeaves DEF Room
  <2>8. NoneLost'
    <3>1. ASSUME NEW n \in Nat, h < n, n <= issued PROVE UnderWay(n)'
      <4>1. UnderWay(n) /\ n # h
        BY <1>0, <2>3, <3>1 DEF NoneLost
      <4> QED
        BY <2>4, <4>1
    <3> QED
      BY <2>1, <3>1 DEF NoneLost
  <2> QED
    BY <1>0, <1>1, <2>1, <2>6, <2>7, <2>8
<1>7. CASE HkMiss
  <2>1. /\ fswRx' = fswRx
           \/ (fswRx # <<>> /\ Head(fswRx).kind # "reply" /\ fswRx' = Tail(fswRx))
        /\ misses' = misses + 1 /\ done' = done + 1
        /\ UNCHANGED <<radioRx, issued, last, cmdPipe>>
    BY <1>7, Zenon DEF HkMiss
  <2>2. Room'
    BY <1>0, <1>1, <2>1, ReadLeaves DEF Room
  <2>3. \A n : UnderWay(n) => UnderWay(n)'
    <3>1. UNCHANGED <<dev, job, radioRx>>
      BY <1>0, <2>1
    <3>2. \A n : Holds(fswRx, "reply", n) => Holds(fswRx', "reply", n)
      BY <2>1, ReadLeaves
    <3> QED
      BY <3>1, <3>2, UnderWayParts, Zenon
  <2> QED
    BY <1>0, <1>1, <2>1, <2>2, <2>3 DEF NoneLost
<1> QED
  BY <1>3, <1>4, <1>5, <1>6, <1>7 DEF MainTask

\* A third party's datagram takes a place in a buffer that has one left.
LEMMA LagNetwork ==
    ASSUME TypeOK, LagInv, Lossless, NetworkStep
    PROVE  Room' /\ Attentive' /\ NoneLost' /\ last'.id + misses' = done'
<1>f. Sizes
  BY LagTypes
<1> USE <1>f DEF Sizes
<1>0. /\ UNCHANGED <<dev, job, enabled, cmdPipe, accepted, last, issued, done, misses>>
      /\ Room /\ Attentive /\ NoneLost /\ last.id + misses = done
      /\ strays < MaxStray /\ strays' = strays + 1
  BY DEF LagInv, NetworkStep, devVars, appVars, StrayToRadio, StrayToFsw
<1>1. Len(radioRx) < RxCap /\ Len(fswRx) < RxCap /\ ~Faulty
  BY <1>0 DEF Room, Lossless
<1>2. /\ Len(radioRx') + Len(fswRx') = Len(radioRx) + Len(fswRx) + 1
      /\ \A k, n : Holds(radioRx, k, n) => Holds(radioRx', k, n)
      /\ \A k, n : Holds(fswRx, k, n) => Holds(fswRx', k, n)
  <2>1. CASE StrayToRadio
    <3>1. PICK m \in Datagram : radioRx' \in Arrivals(radioRx, m)
      BY <2>1, StrayType DEF StrayToRadio
    <3>2. fswRx' = fswRx
      BY <2>1 DEF StrayToRadio
    <3>3. /\ Len(radioRx') = Len(radioRx) + 1
          /\ \A k, n : Holds(radioRx, k, n) => Holds(radioRx', k, n)
      BY <1>1, <3>1, SendArrives
    <3> QED
      BY <3>2, <3>3
  <2>2. CASE StrayToFsw
    <3>1. PICK m \in Datagram : fswRx' \in Arrivals(fswRx, m)
      BY <2>2, StrayType DEF StrayToFsw
    <3>2. radioRx' = radioRx
      BY <2>2 DEF StrayToFsw
    <3>3. /\ Len(fswRx') = Len(fswRx) + 1
          /\ \A k, n : Holds(fswRx, k, n) => Holds(fswRx', k, n)
      BY <1>1, <3>1, SendArrives
    <3> QED
      BY <3>2, <3>3
  <2> QED
    BY <2>1, <2>2 DEF NetworkStep
<1>3. Room'
  <2>1. Len(radioRx') \in Nat /\ Len(fswRx') \in Nat
    <3>1. PortsTypeOK'
      BY NetworkTypeOK DEF NetworkStep
    <3> QED
      BY <3>1 DEF PortsTypeOK
  <2> QED
    BY <1>0, <1>2, <2>1 DEF Room, Busy
<1>4. Attentive' /\ \A n : UnderWay(n) => UnderWay(n)'
  BY <1>0, <1>2, UnderWayParts DEF Attentive
<1> QED
  BY <1>0, <1>3, <1>4 DEF NoneLost

\* Every step.
LEMMA LagNext == LinkInv /\ LagInv /\ [Next]_vars => LagInv'
<1> SUFFICES ASSUME LinkInv, LagInv, Lossless, [Next]_vars
             PROVE  Room' /\ Attentive' /\ NoneLost' /\ last'.id + misses' = done'
  BY DEF LagInv, Lossless
<1>t. TypeOK /\ OneAtATime /\ Room /\ Attentive /\ NoneLost /\ last.id + misses = done
  BY DEF LinkInv, AnswersInOrder, LagInv
<1>f. Sizes
  BY <1>t, LagTypes
<1> USE <1>t, <1>f DEF Sizes
<1>1. CASE RunStep
  <2>1. UNCHANGED appVars /\ RunThread
    BY <1>1 DEF RunStep, DeviceFrame
  <2>2. UNCHANGED <<last, misses, done>>
    BY <2>1 DEF appVars
  <2> QED
    BY <2>1, <2>2, LagRun
<1>2. CASE MainStep
  BY <1>2, LagMain DEF MainStep, AppFrame
<1>3. CASE NetworkStep
  BY <1>3, LagNetwork
<1>4. CASE CallbackStep
  <2>1. UNCHANGED <<radioRx, fswRx, dev, job, strays>>
    BY <1>4 DEF CallbackStep, CallbackThread, CbEnable, CbKeepRunning, CbDisable,
       CbClearCount, CbClearConfig, CbStop, CbOther, CbReply, portVars
  <2>3. enabled'
    <3>1. ~(gen < MaxDisables)
      BY DEF Lossless, TypeOK, DeviceTypeOK
    <3> QED
      BY <1>4, <3>1 DEF CallbackStep, CallbackThread, CbEnable, CbKeepRunning, CbDisable,
         CbClearCount, CbClearConfig, CbStop, CbOther, CbReply, Attentive
  <2>2. UNCHANGED <<cmdPipe, accepted, last, issued, done, misses>>
    BY <1>4 DEF CallbackStep, DeviceFrame, appVars
  <2> QED
    BY <2>1, <2>2, <2>3 DEF Room, Busy, Attentive, NoneLost, UnderWay, Answering
<1>5. CASE GroundStep
  <2>1. /\ UNCHANGED <<radioRx, fswRx, strays, last, issued, done, misses>>
        /\ accepted < MaxCommands /\ accepted' = accepted + 1
        /\ \E c : cmdPipe' = Append(cmdPipe, c) /\ c \in Command
    BY <1>5 DEF GroundStep, SendCommand, portVars, Command
  <2>2. UNCHANGED <<dev, job, enabled>>
    BY <1>5 DEF GroundStep, AppFrame, devVars
  <2>3. Len(cmdPipe') = Len(cmdPipe) + 1
    BY <2>1 DEF TypeOK, AppTypeOK
  <2>4. Room'
    BY <2>1, <2>2, <2>3 DEF Room, Busy
  <2> QED
    BY <2>1, <2>2, <2>4 DEF Attentive, NoneLost, UnderWay, Answering
<1>6. CASE UNCHANGED vars
  BY <1>6 DEF vars, portVars, devVars, appVars, Room, Busy, Attentive, NoneLost,
     UnderWay, Answering
<1> QED
  BY <1>1, <1>2, <1>3, <1>4, <1>5, <1>6 DEF Next

(***************************************************************************)
(* On a network that loses nothing and with a radio that stays enabled,    *)
(* the answer decoded last is older than the newest request by exactly the *)
(* number of failures reported: a late answer is never made up for.        *)
(***************************************************************************)
THEOREM LagNeverHeals == Spec => []LagIsPermanent
<1>1. Init => LagInv
  BY DEF Init, PortsInit, DeviceInit, AppInit, NoAnswer, LagInv, Room, Busy,
     Attentive, NoneLost
<1>2. LagInv => LagIsPermanent
  BY DEF LagInv, LagIsPermanent
<1> QED
  BY <1>1, <1>2, LagNext, LinkInvInductive, PTL DEF Spec

-----------------------------------------------------------------------------
(***************************************************************************)
(* The device's count as the application sees it.                          *)
(***************************************************************************)

\* The bytes of answer a's count were read while the count was cleared for the
\* a.gen-th to the a.until-th time.  An answer with count c, read from g to u,
\* is newer: its reading starts when that of a is over, and it shows a larger
\* count unless a clear came between the first byte of a and the last of it.
Before(a, g, u, c) ==
    /\ a.gen <= a.until /\ a.until <= g
    /\ a.gen < u \/ a.count < c

\* Answer b is newer than a.
Newer(b, a) == Before(a, b.gen, b.until, b.count)

\* The answers in buffer q get newer, and all are newer than a.
Advancing(q, a) ==
    /\ \A i \in 1..Len(q) : q[i].kind = "reply" => Newer(q[i], a)
    /\ \A i, j \in 1..Len(q) :
          i < j /\ q[i].kind = "reply" /\ q[j].kind = "reply" => Newer(q[j], q[i])

\* a and all answers in q are older than one with count c, read from g to u.
AllBefore(q, a, g, u, c) ==
    /\ Before(a, g, u, c)
    /\ \A i \in 1..Len(q) : q[i].kind = "reply" => Before(q[i], g, u, c)

\* The bytes 1 to i of a count, the others zero.
Leading(c, i) == (c \div Place[i]) * Place[i]

(***************************************************************************)
(* No answer shows more than the device has counted.  Between the increment*)
(* and the answer no other answer shows the new value.  While run() copies *)
(* the count byte by byte, the copy is a prefix of the count unless a      *)
(* DISABLE cleared it since the first byte; and the answer belongs to all  *)
(* generations from the first byte to the last.                            *)
(***************************************************************************)
Copying ==
    /\ jobGen <= gen
    /\ AllBefore(fswRx, last, jobGen, gen, count)
    /\ jobGen = gen => tmp = Leading(count, lane - 1)

Copied ==
    /\ jobGen <= jobUntil /\ jobUntil <= gen
    /\ AllBefore(fswRx, last, jobGen, jobUntil, tmp)
    /\ jobGen < gen \/ tmp <= count

Advance ==
    /\ Advancing(fswRx, last)
    /\ AllBefore(fswRx, last, gen, gen, count + 1)
    /\ dev \in {"recv", "load", "store"} => lane = 1
    /\ dev = "store" => AllBefore(fswRx, last, gen, gen, tmp + 1)
    /\ dev = "snapcount" /\ lane = 1 =>
          tmp = 0 /\ AllBefore(fswRx, last, gen, gen, count)
    /\ dev = "snapcount" /\ lane > 1 => Copying
    /\ dev \in {"snapconfig", "reply"} => lane \in 1..W /\ Copied
    /\ dev = "reply" => lane = 1

\* The commands in buffer q.
CommandsAt(q) == {i \in 1..Len(q) : q[i].kind \in {"hk", "config"}}
Commands(q) == Cardinality(CommandsAt(q))

\* What the device may still count: the count does not wrap before the commands end.
Uncounted ==
    Len(cmdPipe) + Commands(radioRx) + (IF dev \in {"load", "store"} THEN 1 ELSE 0)

Budget ==
    /\ accepted <= MaxCommands
    /\ count + Uncounted <= accepted
    /\ dev = "store" => tmp + Uncounted <= accepted

\* The quotient is the only number that leaves a remainder below M.
LEMMA Quotient ==
    ASSUME NEW M \in Nat \ {0}, NEW n \in Nat, NEW q \in Int, NEW r \in 0..M - 1,
           n = (M * q) + r
    PROVE  n \div M = q
<1> DEFINE p == n \div M
           s == n % M
<1>1. n = (M * p) + s /\ p \in Nat /\ s \in 0..M - 1
  BY DivMod
<1>2. M * (q - p) = (M * q) - (M * p)
  BY <1>1, SMT
<1>3. M * (q - p) = s - r
  BY <1>1, <1>2
<1>4. q - p \in Int /\ s - r < M /\ s - r > -M
  BY <1>1
<1>5. q - p = 0
  BY <1>3, <1>4, SmallMultiple
<1> QED
  BY <1>1, <1>5

\* Dividing twice is dividing by the product.
LEMMA Nested ==
    ASSUME NEW P \in Nat \ {0}, NEW B \in Nat \ {0}, NEW c \in Nat
    PROVE  /\ (c \div P) \div B \in Nat /\ (c \div P) % B \in 0..B - 1
           /\ B * P \in Nat \ {0}
           /\ c \div (B * P) = (c \div P) \div B
           /\ (c \div P) * P = ((c \div P) \div B) * (B * P) + ((c \div P) % B) * P
<1> DEFINE q == c \div P
           r == c % P
           s == q \div B
           t == q % B
<1>1. q \in Nat /\ r \in 0..P - 1 /\ c = (P * q) + r
  BY DivMod
<1>2. s \in Nat /\ t \in 0..B - 1 /\ q = (B * s) + t
  BY <1>1, DivMod
<1> HIDE DEF q, r, s, t
<1>3. B * P \in Nat \ {0}
  BY SMT
<1>4. q * P = s * (B * P) + t * P
  BY <1>2, SMT
<1>5. c = ((B * P) * s) + ((t * P) + r)
  BY <1>1, <1>2, <1>4, SMT
<1>6. (t * P) + r \in 0..(B * P) - 1
  <2>1. t * P <= (B - 1) * P /\ t * P \in Nat
    BY <1>2, SMT
  <2>2. (B - 1) * P = (B * P) - P
    BY SMT
  <2> QED
    BY <1>1, <1>3, <2>1, <2>2
<1>7. c \div (B * P) = s
  BY <1>2, <1>3, <1>5, <1>6, Quotient
<1> QED
  BY <1>2, <1>3, <1>4, <1>7 DEF q, s, t

\* What is below B times P holds P less than B times.
LEMMA FirstDigit ==
    ASSUME NEW P \in Nat \ {0}, NEW B \in Nat \ {0}, NEW c \in Nat, c < B * P
    PROVE  (c \div P) % B = c \div P
<1>1. ASSUME NEW q \in Nat, NEW r \in Nat, c = (P * q) + r
      PROVE  q < B
  <2>1. ASSUME q >= B PROVE P * q >= B * P
    BY <2>1, SMT
  <2>2. P * q \in Nat /\ B * P \in Nat
    BY SMT
  <2> QED
    BY <1>1, <2>1, <2>2
<1>2. c \div P \in Nat /\ c % P \in Nat /\ c = (P * (c \div P)) + (c % P)
  BY DivMod
<1>3. c \div P < B
  BY <1>1, <1>2
<1>4. ASSUME NEW q \in Nat, q < B
      PROVE  q % B = q
  <2>1. q = (B * 0) + q /\ q \in 0..B - 1 /\ 0 \in Int
    BY <1>4
  <2> QED
    BY <2>1, Remainder
<1> QED
  BY <1>2, <1>3, <1>4

\* Each byte read completes a longer prefix of the count, the last byte all of it.
LEMMA ByteAdds ==
    ASSUME NEW c \in 0..CountMod - 1, NEW i \in 1..W
    PROVE  /\ i = 1 => CountByte(c, i) = Leading(c, i)
           /\ i > 1 => Leading(c, i - 1) + CountByte(c, i) = Leading(c, i)
           /\ i = W => Leading(c, i) = c
<1>0. /\ ByteBase \in Nat \ {0} /\ \A k \in 1..W : Place[k] \in Nat \ {0}
      /\ c \in Nat /\ Place[W] = 1 /\ CountMod = ByteBase * Place[1]
      /\ \A k \in 1..W - 1 : Place[k] = ByteBase * Place[k + 1]
  BY DEF PositionalCount
<1>1. ASSUME i = 1
      PROVE  CountByte(c, i) = Leading(c, i)
  <2>1. Place[1] \in Nat \ {0} /\ c < ByteBase * Place[1]
    BY <1>0
  <2>2. (c \div Place[1]) % ByteBase = c \div Place[1]
    BY <1>0, <2>1, FirstDigit
  <2> QED
    BY <1>1, <2>2 DEF CountByte, Leading
<1>2. ASSUME i > 1
      PROVE  Leading(c, i - 1) + CountByte(c, i) = Leading(c, i)
  <2>1. i - 1 \in 1..W - 1 /\ (i - 1) + 1 = i
    BY <1>2
  <2>2. Place[i - 1] = ByteBase * Place[i]
    BY <1>0, <2>1
  <2>3. Place[i] \in Nat \ {0}
    BY <1>0
  <2> DEFINE P == Place[i]
             s == (c \div P) \div ByteBase
             t == (c \div P) % ByteBase
  <2>4. /\ s \in Nat /\ t \in Nat /\ P \in Nat
        /\ c \div (ByteBase * P) = s
        /\ (c \div P) * P = (s * (ByteBase * P)) + (t * P)
    <3>1. ByteBase \in Nat \ {0} /\ c \in Nat /\ P \in Nat \ {0}
      BY <1>0, <2>3
    <3>2. /\ s \in Nat /\ t \in 0..ByteBase - 1 /\ c \div (ByteBase * P) = s
          /\ (c \div P) * P = (s * (ByteBase * P)) + (t * P)
      BY <3>1, Nested
    <3> QED
      BY <3>1, <3>2
  <2>5. /\ Leading(c, i) = (c \div P) * P /\ CountByte(c, i) = t * P
        /\ Leading(c, i - 1) = s * (ByteBase * P)
    BY <2>2, <2>4 DEF Leading, CountByte
  <2> QED
    BY <2>4, <2>5
<1>3. ASSUME i = W
      PROVE  Leading(c, i) = c
  <2>1. c \div 1 = c
    BY <1>0, SMT
  <2> QED
    BY <1>0, <1>3, <2>1 DEF Leading
<1> QED
  BY <1>1, <1>2, <1>3

\* What is before a count stays before one read later, with a larger value or
\* after another clear.
LEMMA BeforeLater ==
    ASSUME NEW a \in Datagram, NEW g \in Nat, NEW u \in Nat, NEW c \in Nat,
           NEW h \in Nat, NEW v \in Nat, NEW d \in Nat,
           Before(a, g, u, c), g <= h, g < v \/ (u <= v /\ c <= d)
    PROVE  Before(a, h, v, d)
BY DEF Before, Datagram

\* The same of all answers.
LEMMA AllLater ==
    ASSUME NEW q \in Seq(Datagram), NEW a \in Datagram,
           NEW g \in Nat, NEW u \in Nat, NEW c \in Nat,
           NEW h \in Nat, NEW v \in Nat, NEW d \in Nat,
           AllBefore(q, a, g, u, c), g <= h, g < v \/ (u <= v /\ c <= d)
    PROVE  AllBefore(q, a, h, v, d)
<1>1. \A i \in 1..Len(q) : q[i] \in Datagram
  OBVIOUS
<1> QED
  BY <1>1, BeforeLater DEF AllBefore

\* A new answer, newer than all others, joins the buffer at its end or is lost.
LEMMA AnswerSent ==
    ASSUME NEW q \in Seq(Datagram), NEW a \in Datagram, NEW m \in Datagram,
           NEW r \in Arrivals(q, m), Advancing(q, a), AllBefore(q, a, m.gen, m.until, m.count)
    PROVE  Advancing(r, a)
<1>1. CASE r = q
  BY <1>1
<1>2. CASE r = Append(q, m)
  <2>1. /\ Len(r) = Len(q) + 1 /\ r[Len(q) + 1] = m /\ Len(q) \in Nat
        /\ \A i \in 1..Len(q) : r[i] = q[i]
    BY <1>2
  <2>2. \A i \in 1..Len(r) : i \in 1..Len(q) \/ i = Len(q) + 1
    BY <2>1
  <2>3. ASSUME NEW i \in 1..Len(r), r[i].kind = "reply"
        PROVE  Newer(r[i], a)
    BY <2>1, <2>2, <2>3 DEF Advancing, AllBefore, Newer
  <2>4. ASSUME NEW i \in 1..Len(r), NEW j \in 1..Len(r), i < j,
               r[i].kind = "reply", r[j].kind = "reply"
        PROVE  Newer(r[j], r[i])
    <3>1. i \in 1..Len(q) /\ r[i] = q[i]
      BY <2>1, <2>4
    <3>2. CASE j \in 1..Len(q)
      BY <2>1, <2>4, <3>1, <3>2 DEF Advancing
    <3>3. CASE j = Len(q) + 1
      BY <2>1, <2>4, <3>1, <3>3 DEF AllBefore, Newer
    <3> QED
      BY <2>2, <3>2, <3>3
  <2> QED
    BY <2>3, <2>4 DEF Advancing
<1> QED
  BY <1>1, <1>2 DEF Arrivals

\* What is before a count stays so when an answer before it, or none, is sent.
LEMMA SentBefore ==
    ASSUME NEW q \in Seq(Datagram), NEW a \in Datagram, NEW m \in Datagram,
           NEW r \in Arrivals(q, m), NEW g, NEW u, NEW c,
           AllBefore(q, a, g, u, c), m.kind = "reply" => Before(m, g, u, c)
    PROVE  AllBefore(r, a, g, u, c)
<1>1. \A i \in 1..Len(r) : r[i] = m \/ \E j \in 1..Len(q) : r[i] = q[j]
  BY SendElements
<1> QED
  BY <1>1 DEF AllBefore

\* Something else in the buffer changes nothing.
LEMMA NoiseSent ==
    ASSUME NEW q \in Seq(Datagram), NEW a, NEW m \in Datagram, m.kind # "reply",
           NEW r \in Arrivals(q, m), Advancing(q, a)
    PROVE  Advancing(r, a)
<1>1. CASE r = q
  BY <1>1
<1>2. CASE r = Append(q, m)
  <2>1. /\ Len(r) = Len(q) + 1 /\ r[Len(q) + 1] = m /\ Len(q) \in Nat
        /\ \A i \in 1..Len(q) : r[i] = q[i]
    BY <1>2
  <2>2. \A i \in 1..Len(r) : r[i].kind = "reply" => i \in 1..Len(q) /\ r[i] = q[i]
    BY <2>1
  <2> QED
    BY <2>2 DEF Advancing
<1> QED
  BY <1>1, <1>2 DEF Arrivals

\* The oldest answer is newer than the last one, and older than the rest.
LEMMA AnswerRead ==
    ASSUME NEW q \in Seq(Datagram), q # <<>>, NEW a, Advancing(q, a)
    PROVE  /\ Head(q).kind = "reply" => /\ Newer(Head(q), a)
                                       /\ Advancing(Tail(q), Head(q))
                                       /\ \A g, u, c : AllBefore(q, a, g, u, c) =>
                                             AllBefore(Tail(q), Head(q), g, u, c)
           /\ Advancing(Tail(q), a)
           /\ \A g, u, c : AllBefore(q, a, g, u, c) => AllBefore(Tail(q), a, g, u, c)
<1>1. /\ 1 \in 1..Len(q) /\ Head(q) = q[1]
      /\ \A i \in 1..Len(Tail(q)) : /\ i + 1 \in 1..Len(q) /\ Tail(q)[i] = q[i + 1]
                                    /\ i \in Nat /\ 1 < i + 1
  OBVIOUS
<1>2. Advancing(Tail(q), a)
  <2>1. ASSUME NEW i \in 1..Len(Tail(q)), NEW j \in 1..Len(Tail(q)), i < j
        PROVE  i + 1 < j + 1
    BY <2>1
  <2> QED
    BY <1>1, <2>1 DEF Advancing
<1>3. \A g, u, c : AllBefore(q, a, g, u, c) => AllBefore(Tail(q), a, g, u, c)
  BY <1>1 DEF AllBefore
<1>4. ASSUME Head(q).kind = "reply"
      PROVE  /\ Newer(Head(q), a) /\ Advancing(Tail(q), Head(q))
             /\ \A g, u, c : AllBefore(q, a, g, u, c) => AllBefore(Tail(q), Head(q), g, u, c)
  <2>1. Newer(Head(q), a)
    BY <1>1, <1>4 DEF Advancing
  <2>2. Advancing(Tail(q), Head(q))
    BY <1>1, <1>2, <1>4 DEF Advancing
  <2>3. \A g, u, c : AllBefore(q, a, g, u, c) => AllBefore(Tail(q), Head(q), g, u, c)
    BY <1>1, <1>3, <1>4 DEF AllBefore
  <2> QED
    BY <2>1, <2>2, <2>3
<1> QED
  BY <1>2, <1>3, <1>4

\* The commands in a buffer can be counted.
LEMMA CommandsType ==
    ASSUME NEW q \in Seq(Datagram)
    PROVE  IsFiniteSet(CommandsAt(q)) /\ Commands(q) \in Nat
<1>1. IsFiniteSet(1..Len(q)) /\ CommandsAt(q) \in SUBSET (1..Len(q))
  BY FS_Interval DEF CommandsAt
<1>2. IsFiniteSet(CommandsAt(q))
  BY <1>1, FS_Subset
<1> QED
  BY <1>2, FS_CardinalityType DEF Commands

\* A datagram sent is one command more, if it is a command and arrives.
LEMMA CommandsSent ==
    ASSUME NEW q \in Seq(Datagram), NEW m, NEW r \in Arrivals(q, m)
    PROVE  /\ Commands(r) <= Commands(q) + 1
           /\ m.kind \notin {"hk", "config"} => Commands(r) <= Commands(q)
<1>1. IsFiniteSet(CommandsAt(q)) /\ Commands(q) \in Nat
  BY CommandsType
<1>2. CASE r = q
  BY <1>1, <1>2
<1>3. CASE r = Append(q, m)
  <2>1. /\ Len(q) \in Nat /\ Len(r) = Len(q) + 1 /\ r[Len(q) + 1] = m
        /\ \A i \in 1..Len(q) : r[i] = q[i]
    BY <1>3
  <2>2. \A i : i \in 1..Len(r) <=> i \in 1..Len(q) \/ i = Len(q) + 1
    BY <2>1
  <2>3. CASE m.kind \in {"hk", "config"}
    <3>1. CommandsAt(r) = CommandsAt(q) \cup {Len(q) + 1}
      BY <2>1, <2>2, <2>3 DEF CommandsAt
    <3>2. \/ Cardinality(CommandsAt(r)) = Cardinality(CommandsAt(q))
          \/ Cardinality(CommandsAt(r)) = Cardinality(CommandsAt(q)) + 1
      BY <1>1, <3>1, FS_AddElement
    <3> QED
      BY <1>1, <2>3, <3>2 DEF Commands
  <2>4. CASE m.kind \notin {"hk", "config"}
    <3>1. CommandsAt(r) = CommandsAt(q)
      BY <2>1, <2>2, <2>4 DEF CommandsAt
    <3> QED
      BY <1>1, <3>1 DEF Commands
  <2> QED
    BY <2>3, <2>4
<1> QED
  BY <1>2, <1>3 DEF Arrivals

\* A command read is one command less.
LEMMA CommandsRead ==
    ASSUME NEW q \in Seq(Datagram), q # <<>>
    PROVE  /\ Commands(Tail(q)) <= Commands(q)
           /\ Head(q).kind \in {"hk", "config"} => Commands(Tail(q)) + 1 <= Commands(q)
<1> DEFINE S == CommandsAt(Tail(q))
           T == CommandsAt(q) \ {1}
           f == [i \in S |-> i + 1]
<1>1. /\ 1 \in 1..Len(q) /\ Head(q) = q[1] /\ Tail(q) \in Seq(Datagram)
      /\ \A i \in 1..Len(Tail(q)) : /\ i + 1 \in 1..Len(q) /\ Tail(q)[i] = q[i + 1]
                                    /\ i \in Nat /\ i + 1 # 1
  OBVIOUS
<1>2. /\ IsFiniteSet(CommandsAt(q)) /\ Commands(q) \in Nat
      /\ IsFiniteSet(S) /\ Commands(Tail(q)) \in Nat
  BY <1>1, CommandsType
<1>3. /\ IsFiniteSet(T)
      /\ Cardinality(T) = IF 1 \in CommandsAt(q) THEN Commands(q) - 1 ELSE Commands(q)
  BY <1>2, FS_RemoveElement DEF Commands
<1>4. f \in Injection(S, T)
  <2>1. \A i \in S : i \in Nat /\ i + 1 \in T
    BY <1>1 DEF CommandsAt
  <2>2. f \in [S -> T] /\ \A i, j \in S : f[i] = f[j] => i = j
    BY <2>1
  <2> QED
    BY <2>2 DEF Injection, IsInjective
<1>5. Commands(Tail(q)) <= Cardinality(T)
  BY <1>3, <1>4, FS_Injection DEF Commands
<1>6. Head(q).kind \in {"hk", "config"} => 1 \in CommandsAt(q)
  BY <1>1 DEF CommandsAt
<1> QED
  BY <1>2, <1>3, <1>5, <1>6

\* The commands under way leave room for one more count.
LEMMA NoWrap ==
    ASSUME TypeOK, Budget, dev = "store", CountMod > MaxCommands
    PROVE  (tmp + 1) % CountMod = tmp + 1
<1>1. /\ tmp \in Nat /\ accepted \in Nat /\ radioRx \in Seq(Datagram)
      /\ Len(cmdPipe) \in Nat /\ Commands(radioRx) \in Nat
  BY CommandsType DEF TypeOK, PortsTypeOK, DeviceTypeOK, AppTypeOK
<1>2. tmp + 1 <= MaxCommands
  BY <1>1 DEF Budget, Uncounted
<1>3. tmp + 1 \in 0..CountMod - 1 /\ CountMod \in Nat \ {0} /\ tmp + 1 = (CountMod * 0) + (tmp + 1)
  BY <1>1, <1>2
<1> QED
  BY <1>3, Remainder

\* The types the steps below rely on.
LEMMA AdvanceTypes ==
    ASSUME TypeOK
    PROVE  /\ fswRx \in Seq(Datagram) /\ last \in Datagram
           /\ count \in 0..CountMod - 1 /\ tmp \in Nat /\ gen \in Nat
           /\ jobGen \in Nat /\ jobUntil \in Nat /\ lane \in 1..W
BY DEF TypeOK, PortsTypeOK, DeviceTypeOK, AppTypeOK

\* run() copies one more byte of the count.
LEMMA AdvanceCopy ==
    ASSUME TypeOK, Advance, DevReadCount, UNCHANGED last
    PROVE  Advance'
<1>0. /\ fswRx \in Seq(Datagram) /\ last \in Datagram
      /\ count \in 0..CountMod - 1 /\ count \in Nat /\ tmp \in Nat /\ gen \in Nat
      /\ jobGen \in Nat /\ lane \in 1..W
  BY AdvanceTypes
<1>1. /\ dev = "snapcount" /\ tmp' = tmp + CountByte(count, lane)
      /\ jobGen' = (IF lane = 1 THEN gen ELSE jobGen) /\ jobUntil' = gen
      /\ lane' = (IF lane = W THEN 1 ELSE lane + 1)
      /\ dev' = (IF lane = W THEN "snapconfig" ELSE "snapcount")
      /\ UNCHANGED <<fswRx, count, gen, last>>
  BY DEF DevReadCount, portVars
<1>2. CountByte(count, lane) \in Nat
  BY <1>0, ByteType
<1>3. Advancing(fswRx, last) /\ AllBefore(fswRx, last, gen, gen, count + 1)
  BY DEF Advance
<1>4. /\ jobGen' \in Nat /\ jobGen' <= gen
      /\ AllBefore(fswRx, last, jobGen', gen, count)
      /\ jobGen' = gen => tmp' = Leading(count, lane)
  <2>1. CASE lane = 1
    BY <1>0, <1>1, <1>2, <2>1, ByteAdds DEF Advance
  <2>2. CASE lane > 1
    <3>1. Copying
      BY <1>1, <2>2 DEF Advance
    <3>2. Leading(count, lane - 1) + CountByte(count, lane) = Leading(count, lane)
      BY <1>0, <2>2, ByteAdds
    <3> QED
      BY <1>0, <1>1, <2>2, <3>1, <3>2 DEF Copying
  <2> QED
    BY <1>0, <2>1, <2>2
<1>5. CASE lane < W
  <2>1. lane' = lane + 1 /\ lane' > 1 /\ dev' = "snapcount" /\ lane' - 1 = lane
    BY <1>0, <1>1, <1>5
  <2>2. Copying'
    <3>1. jobGen' <= gen' /\ AllBefore(fswRx', last', jobGen', gen', count')
      BY <1>1, <1>4
    <3>2. jobGen' = gen' => tmp' = Leading(count', lane' - 1)
      BY <1>1, <1>4, <2>1
    <3> QED
      BY <3>1, <3>2 DEF Copying
  <2> QED
    BY <1>1, <1>3, <2>1, <2>2 DEF Advance
<1>6. CASE lane = W
  <2>1. lane' = 1 /\ dev' = "snapconfig" /\ lane' \in 1..W
    BY <1>0, <1>1, <1>6
  <2>2. jobGen' = gen => tmp' = count
    BY <1>0, <1>4, <1>6, ByteAdds
  <2>3. tmp' \in Nat
    BY <1>0, <1>1, <1>2
  <2>4. AllBefore(fswRx, last, jobGen', gen, tmp')
    <3>1. CASE jobGen' = gen
      BY <1>4, <2>2, <3>1
    <3>2. CASE jobGen' < gen
      BY <1>0, <1>4, <2>3, <3>2, AllLater
    <3> QED
      BY <1>0, <1>4, <3>1, <3>2
  <2>5. Copied'
    <3>1. jobGen' <= jobUntil' /\ jobUntil' <= gen' /\ (jobGen' < gen' \/ tmp' <= count')
      BY <1>0, <1>1, <1>4, <2>2
    <3>2. AllBefore(fswRx', last', jobGen', jobUntil', tmp')
      BY <1>1, <2>4
    <3> QED
      BY <3>1, <3>2 DEF Copied
  <2> QED
    BY <1>1, <1>3, <2>1, <2>5 DEF Advance
<1> QED
  BY <1>0, <1>5, <1>6

\* run() counts before it answers.
LEMMA AdvanceRun ==
    ASSUME TypeOK, Advance, Budget, CountMod > MaxCommands, RunThread,
           UNCHANGED last
    PROVE  Advance'
<1>0. /\ fswRx \in Seq(Datagram) /\ last \in Datagram
      /\ count \in Nat /\ tmp \in Nat /\ gen \in Nat
      /\ jobGen \in Nat /\ jobUntil \in Nat /\ lane \in 1..W
  BY AdvanceTypes
<1>1. CASE DevStoreConfig \/ DevLoadConfig \/ DevOrConfig
  <2>1. /\ UNCHANGED <<fswRx, count, gen>>
        /\ dev' \in {"recv", "orload", "orstore"}
        /\ dev' = "recv" => lane' = 1
    BY <1>1 DEF DevStoreConfig, DevLoadConfig, DevOrConfig, HandlerEnds, portVars
  <2> QED
    BY <2>1 DEF Advance
<1>2. CASE DevReceive \/ DevLoadCount
  <2>1. /\ UNCHANGED <<fswRx, count, gen, lane>> /\ dev \in {"recv", "load"}
        /\ dev' \in {"recv", "load", "store"} /\ (dev' = "store" => tmp' = count)
    BY <1>2 DEF DevReceive, DevLoadCount, portVars
  <2> QED
    BY <2>1 DEF Advance
<1>3. CASE DevStoreCount
  <2>1. /\ dev = "store" /\ dev' \in {"snapcount", "config"} /\ UNCHANGED <<fswRx, gen, lane>>
        /\ count' = (tmp + 1) % CountMod /\ tmp' = 0
    BY <1>3 DEF DevStoreCount, portVars
  <2>2. count' = tmp + 1
    BY <2>1, NoWrap
  <2>3. AllBefore(fswRx, last, gen, gen, tmp + 1) /\ Advancing(fswRx, last) /\ lane = 1
    BY <2>1 DEF Advance
  <2>4. AllBefore(fswRx, last, gen, gen, (tmp + 1) + 1)
    BY <1>0, <2>3, AllLater
  <2> QED
    BY <2>1, <2>2, <2>3, <2>4 DEF Advance
<1>4. CASE DevReadCount
  BY <1>4, AdvanceCopy
<1>5. CASE DevReadConfig
  <2>1. /\ dev = "snapconfig" /\ dev' = (IF lane = W THEN "reply" ELSE "snapconfig")
        /\ lane' = (IF lane = W THEN 1 ELSE lane + 1)
        /\ UNCHANGED <<fswRx, gen, count, tmp, jobGen, jobUntil>>
    BY <1>5 DEF DevReadConfig, portVars
  <2>2. lane' \in 1..W /\ (dev' = "reply" => lane' = 1) /\ dev' \in {"snapconfig", "reply"}
    BY <1>0, <2>1
  <2>3. Copied'
    BY <2>1 DEF Advance, Copied
  <2> QED
    BY <2>1, <2>2, <2>3 DEF Advance
<1>6. CASE DevReply
  <2>1. /\ dev = "reply" /\ dev' = "recv" /\ fswRx' \in Arrivals(fswRx, Answer) /\ lane' = 1
        /\ UNCHANGED <<gen, count>>
    BY <1>6 DEF DevReply, HandlerEnds
  <2>2. /\ Answer \in Datagram /\ Answer.gen = jobGen /\ Answer.until = jobUntil
        /\ Answer.count = tmp
    BY DEF Answer, Datagram, TypeOK, DeviceTypeOK
  <2>3. /\ AllBefore(fswRx, last, Answer.gen, Answer.until, Answer.count)
        /\ Advancing(fswRx, last)
        /\ AllBefore(fswRx, last, gen, gen, count + 1)
    BY <2>1, <2>2 DEF Advance, Copied
  <2>4. Before(Answer, gen, gen, count + 1)
    BY <1>0, <2>1, <2>2 DEF Advance, Copied, Before
  <2>5. Advancing(fswRx', last)
    BY <1>0, <2>1, <2>2, <2>3, AnswerSent
  <2>6. AllBefore(fswRx', last, gen, gen, count + 1)
    BY <1>0, <2>1, <2>2, <2>3, <2>4, SentBefore
  <2> QED
    BY <2>1, <2>5, <2>6 DEF Advance
<1> QED
  BY <1>1, <1>2, <1>3, <1>4, <1>5, <1>6 DEF RunThread

\* A cleared count starts a generation of its own.
LEMMA AdvanceCallback ==
    ASSUME TypeOK, Advance, CallbackThread, UNCHANGED last
    PROVE  Advance'
<1>0. /\ fswRx \in Seq(Datagram) /\ last \in Datagram
      /\ count \in Nat /\ tmp \in Nat /\ gen \in Nat /\ jobGen \in Nat /\ jobUntil \in Nat
  BY AdvanceTypes
<1>1. CASE CbClearCount
  <2>1. /\ count' = 0 /\ gen' = gen + 1
        /\ UNCHANGED <<fswRx, last, dev, tmp, lane, jobGen, jobUntil>>
    BY <1>1 DEF CbClearCount, portVars
  <2>2. Advancing(fswRx, last) /\ AllBefore(fswRx, last, gen, gen, count + 1)
    BY DEF Advance
  <2>3. \A d \in Nat : AllBefore(fswRx, last, gen + 1, gen + 1, d)
    BY <1>0, <2>2, AllLater
  <2>4. ASSUME Copying PROVE Copying'
    <3>1. jobGen <= gen /\ AllBefore(fswRx, last, jobGen, gen, count)
      BY <2>4 DEF Copying
    <3>2. AllBefore(fswRx, last, jobGen, gen + 1, 0)
      BY <1>0, <3>1, AllLater
    <3>3. jobGen' <= gen' /\ jobGen' # gen'
      BY <1>0, <2>1, <3>1
    <3> QED
      BY <2>1, <3>2, <3>3 DEF Copying
  <2>5. ASSUME Copied PROVE Copied'
    BY <1>0, <2>1, <2>5 DEF Copied
  <2> QED
    BY <1>0, <2>1, <2>2, <2>3, <2>4, <2>5 DEF Advance
<1>2. CASE ~CbClearCount
  <2>1. UNCHANGED <<fswRx, last, count, gen, dev, tmp, lane, jobGen, jobUntil>>
    BY <1>2 DEF CallbackThread, CbEnable, CbKeepRunning, CbDisable, CbClearConfig, CbStop,
       CbOther, CbReply, portVars
  <2> QED
    BY <2>1 DEF Advance, Copying, Copied
<1> QED
  BY <1>1, <1>2

\* The app reads the oldest answer, or something else.
LEMMA AdvanceMain ==
    ASSUME TypeOK, Advance, MainTask, UNCHANGED devVars
    PROVE  Advance' /\ (last' # last => Newer(last', last))
<1>0. fswRx \in Seq(Datagram) /\ UNCHANGED <<count, gen, dev, tmp, lane, jobGen, jobUntil>>
  BY DEF TypeOK, PortsTypeOK, devVars
<1>1. CASE HkHit
  <2>1. fswRx # <<>> /\ Head(fswRx).kind = "reply" /\ last' = Head(fswRx) /\ fswRx' = Tail(fswRx)
    BY <1>1 DEF HkHit
  <2>2. Advancing(fswRx, last)
    BY DEF Advance, Copying, Copied
  <2>3. /\ Newer(last', last) /\ Advancing(fswRx', last')
        /\ \A g, u, c : AllBefore(fswRx, last, g, u, c) => AllBefore(fswRx', last', g, u, c)
    BY <1>0, <2>1, <2>2, AnswerRead
  <2> QED
    BY <1>0, <2>3 DEF Advance, Copying, Copied
<1>2. CASE HkMiss
  <2>1. fswRx' = fswRx \/ (fswRx # <<>> /\ fswRx' = Tail(fswRx))
    BY <1>2 DEF HkMiss
  <2>2. last' = last /\ Advancing(fswRx, last)
    BY <1>2 DEF HkMiss, Advance
  <2>3. /\ Advancing(fswRx', last)
        /\ \A g, u, c : AllBefore(fswRx, last, g, u, c) => AllBefore(fswRx', last, g, u, c)
    BY <1>0, <2>1, <2>2, AnswerRead
  <2> QED
    BY <1>0, <2>2, <2>3 DEF Advance, Copying, Copied
<1>3. CASE ~HkHit /\ ~HkMiss
  <2>1. UNCHANGED <<fswRx, last>>
    BY <1>3, Zenon DEF MainTask, Noop, Reset, Invalid, ConfigSent, ConfigNotSent, Proximity,
       Served, HkSend
  <2> QED
    BY <1>0, <2>1 DEF Advance, Copying, Copied
<1> QED
  BY <1>1, <1>2, <1>3

\* A third party's datagram is no answer.
LEMMA AdvanceNetwork ==
    ASSUME TypeOK, Advance, NetworkStep
    PROVE  Advance'
<1>0. /\ fswRx \in Seq(Datagram) /\ last \in Datagram
      /\ UNCHANGED <<count, gen, dev, tmp, lane, jobGen, jobUntil, last>>
  BY DEF TypeOK, PortsTypeOK, AppTypeOK, NetworkStep, devVars, appVars
<1>1. CASE StrayToRadio
  BY <1>0, <1>1 DEF StrayToRadio, Advance, Copying, Copied
<1>2. CASE StrayToFsw
  <2>1. PICK m \in Datagram : fswRx' \in Arrivals(fswRx, m) /\ m.kind # "reply"
    BY <1>2, StrayType DEF StrayToFsw, Stray
  <2>2. Advancing(fswRx', last)
    BY <1>0, <2>1, NoiseSent DEF Advance, Copying, Copied
  <2>3. \A g, u, c : AllBefore(fswRx, last, g, u, c) => AllBefore(fswRx', last, g, u, c)
    BY <1>0, <2>1, SentBefore
  <2> QED
    BY <1>0, <2>2, <2>3 DEF Advance, Copying, Copied
<1> QED
  BY <1>1, <1>2 DEF NetworkStep

\* Every command is on its way, being counted, counted or gone.
LEMMA BudgetKept ==
    ASSUME TypeOK, TypeOK', Budget, [Next]_vars
    PROVE  Budget'
<1>0. /\ count \in Nat /\ tmp \in Nat /\ accepted \in Nat
      /\ cmdPipe \in Seq(Command) /\ radioRx \in Seq(Datagram)
      /\ Len(cmdPipe) \in Nat /\ Commands(radioRx) \in Nat /\ MaxCommands \in Nat
      /\ Len(cmdPipe') \in Nat /\ Commands(radioRx') \in Nat
  <2>1. count \in Nat /\ tmp \in Nat
    BY DEF TypeOK, DeviceTypeOK
  <2>2. accepted \in Nat /\ cmdPipe \in Seq(Command) /\ cmdPipe' \in Seq(Command)
    BY DEF TypeOK, AppTypeOK
  <2>3. radioRx \in Seq(Datagram) /\ radioRx' \in Seq(Datagram)
    BY DEF TypeOK, PortsTypeOK
  <2> QED
    BY <2>1, <2>2, <2>3, CommandsType
<1>1. CASE RunStep
  <2>1. UNCHANGED <<cmdPipe, accepted>>
    BY <1>1 DEF RunStep, DeviceFrame, appVars
  <2>2. CASE DevReceive
    <3>1. /\ radioRx # <<>> /\ radioRx' = Tail(radioRx) /\ dev = "recv" /\ count' = count
          /\ \/ dev' = "recv"
             \/ dev' = "load" /\ Head(radioRx).kind \in {"hk", "config"}
      BY <2>2 DEF DevReceive, Accepted
    <3>2. /\ Commands(radioRx') <= Commands(radioRx)
          /\ dev' = "load" => Commands(radioRx') + 1 <= Commands(radioRx)
      BY <1>0, <3>1, CommandsRead
    <3> QED
      BY <1>0, <2>1, <3>1, <3>2 DEF Budget, Uncounted
  <2>3. CASE DevStoreCount
    <3>1. /\ dev = "store" /\ dev' \in {"snapcount", "config"} /\ UNCHANGED radioRx
          /\ count' = (tmp + 1) % CountMod
      BY <2>3 DEF DevStoreCount, portVars
    <3>2. count' \in Nat /\ count' <= tmp + 1
      <4>1. CountMod \in Nat \ {0} /\ tmp + 1 \in Nat
        BY <1>0
      <4>2. /\ (tmp + 1) \div CountMod \in Nat /\ (tmp + 1) % CountMod \in 0..CountMod - 1
            /\ tmp + 1 = (CountMod * ((tmp + 1) \div CountMod)) + ((tmp + 1) % CountMod)
        BY <4>1, DivMod
      <4>3. CountMod * ((tmp + 1) \div CountMod) >= 0
        BY <4>1, <4>2, SMT
      <4> QED
        BY <3>1, <4>1, <4>2, <4>3
    <3> QED
      BY <1>0, <2>1, <3>1, <3>2 DEF Budget, Uncounted
  <2>4. CASE DevLoadCount
    <3>1. dev = "load" /\ dev' = "store" /\ tmp' = count /\ UNCHANGED <<radioRx, count>>
      BY <2>4 DEF DevLoadCount, portVars
    <3> QED
      BY <1>0, <2>1, <3>1 DEF Budget, Uncounted
  <2>5. CASE ~DevReceive /\ ~DevStoreCount /\ ~DevLoadCount
    <3>1. /\ dev \notin {"load", "store"} /\ dev' \notin {"load", "store"}
          /\ UNCHANGED <<radioRx, count>>
      BY <1>1, <2>5 DEF RunStep, RunThread, DevStoreConfig, DevLoadConfig, DevOrConfig,
         DevReadCount, DevReadConfig, DevReply, HandlerEnds, portVars
    <3> QED
      BY <1>0, <2>1, <3>1 DEF Budget, Uncounted
  <2> QED
    BY <2>2, <2>3, <2>4, <2>5
<1>2. CASE CallbackStep
  <2>1. UNCHANGED <<cmdPipe, accepted, radioRx, dev, tmp>> /\ (count' = count \/ count' = 0)
    BY <1>2 DEF CallbackStep, CallbackThread, CbEnable, CbKeepRunning, CbDisable, CbClearCount,
       CbClearConfig, CbStop, CbOther, CbReply, portVars, DeviceFrame, appVars
  <2> QED
    BY <1>0, <2>1 DEF Budget, Uncounted
<1>3. CASE MainStep
  <2>1. UNCHANGED <<accepted, dev, tmp, count>>
    BY <1>3, Zenon DEF MainStep, AppFrame, devVars, MainTask, Noop, Reset, Invalid, ConfigSent,
       ConfigNotSent, Proximity, Served, HkSend, HkHit, HkMiss
  <2>2. Len(cmdPipe') + Commands(radioRx') <= Len(cmdPipe) + Commands(radioRx)
    <3>1. \A c : Take(c) => Len(cmdPipe') = Len(cmdPipe) - 1
      BY <1>0 DEF Take
    <3>2. \A m : radioRx' \in Arrivals(radioRx, m) => Commands(radioRx') <= Commands(radioRx) + 1
      BY <1>0, CommandsSent
    <3>3. CASE ConfigSent \/ HkSend
      <4>1. /\ \E c : Take(c)
            /\ \E m : radioRx' \in Arrivals(radioRx, m)
        BY <3>3, Zenon DEF ConfigSent, HkSend
      <4> QED
        BY <1>0, <3>1, <3>2, <4>1
    <3>4. CASE Noop \/ Reset \/ Invalid \/ ConfigNotSent \/ Proximity
      <4>1. (\E c : Take(c)) /\ radioRx' = radioRx
        BY <3>4, Zenon DEF Noop, Reset, Invalid, ConfigNotSent, Proximity
      <4> QED
        BY <1>0, <3>1, <4>1
    <3>5. CASE HkHit \/ HkMiss
      BY <1>0, <3>5 DEF HkHit, HkMiss
    <3> QED
      BY <1>3, <3>3, <3>4, <3>5 DEF MainStep, MainTask
  <2> QED
    BY <1>0, <2>1, <2>2 DEF Budget, Uncounted
<1>4. CASE GroundStep
  <2>1. /\ UNCHANGED <<radioRx, dev, tmp, count>>
        /\ accepted < MaxCommands /\ accepted' = accepted + 1
        /\ \E c : cmdPipe' = Append(cmdPipe, c)
    BY <1>4 DEF GroundStep, SendCommand, portVars, AppFrame, devVars
  <2>2. Len(cmdPipe') = Len(cmdPipe) + 1
    BY <1>0, <2>1
  <2> QED
    BY <1>0, <2>1, <2>2 DEF Budget, Uncounted
<1>5. CASE NetworkStep
  <2>1. UNCHANGED <<cmdPipe, accepted, dev, tmp, count>>
    BY <1>5 DEF NetworkStep, devVars, appVars
  <2>2. CASE StrayToFsw
    <3>1. radioRx' = radioRx
      BY <2>2 DEF StrayToFsw
    <3> QED
      BY <1>0, <2>1, <3>1 DEF Budget, Uncounted
  <2>3. CASE StrayToRadio
    <3>1. PICK k \in {"unknown", "malformed"} : radioRx' \in Arrivals(radioRx, Stray(k))
      BY <2>3 DEF StrayToRadio
    <3>2. Commands(radioRx') <= Commands(radioRx)
      BY <1>0, <3>1, CommandsSent DEF Stray
    <3> QED
      BY <1>0, <2>1, <3>2 DEF Budget, Uncounted
  <2> QED
    BY <1>5, <2>2, <2>3 DEF NetworkStep
<1>6. CASE UNCHANGED vars
  BY <1>6 DEF vars, portVars, devVars, appVars, Budget, Uncounted
<1> QED
  BY <1>1, <1>2, <1>3, <1>4, <1>5, <1>6 DEF Next

\* Every step.
LEMMA AdvanceNext ==
    ASSUME CountMod > MaxCommands, TypeOK, Advance, Budget, [Next]_vars
    PROVE  Advance' /\ (last' # last => Newer(last', last))
<1>1. CASE RunStep
  BY <1>1, AdvanceRun DEF RunStep, DeviceFrame, appVars
<1>2. CASE CallbackStep
  BY <1>2, AdvanceCallback DEF CallbackStep, DeviceFrame, appVars
<1>3. CASE MainStep
  BY <1>3, AdvanceMain DEF MainStep, AppFrame
<1>4. CASE GroundStep
  BY <1>4 DEF GroundStep, SendCommand, AppFrame, devVars, portVars, Advance,
     Copying, Copied
<1>5. CASE NetworkStep
  BY <1>5, AdvanceNetwork DEF NetworkStep, appVars
<1>6. CASE UNCHANGED vars
  BY <1>6 DEF vars, portVars, devVars, appVars, Advance,
     Copying, Copied
<1> QED
  BY <1>1, <1>2, <1>3, <1>4, <1>5, <1>6 DEF Next

(***************************************************************************)
(* As long as the device's counter does not wrap, two answers decoded one  *)
(* after the other show it increase, whatever was lost or came late, unless*)
(* a DISABLE cleared it in between.                                        *)
(***************************************************************************)
THEOREM CountAdvances ==
    ASSUME CountMod > MaxCommands
    PROVE  Spec => ReportsAdvance
<1>1. Init => Advance /\ Budget
  <2> SUFFICES ASSUME Init PROVE Advance /\ Budget
    OBVIOUS
  <2>1. /\ fswRx = <<>> /\ radioRx = <<>> /\ cmdPipe = <<>> /\ accepted = 0
        /\ dev = "recv" /\ count = 0 /\ gen = 0 /\ lane = 1 /\ last = NoAnswer
    BY DEF Init, PortsInit, DeviceInit, AppInit
  <2>2. Advance
    BY <2>1 DEF NoAnswer, Advance, Advancing, AllBefore, Before
  <2>3. Commands(radioRx) = 0
    <3>1. CommandsAt(radioRx) = {}
      BY <2>1 DEF CommandsAt
    <3> QED
      BY <3>1, FS_EmptySet DEF Commands
  <2> QED
    BY <2>1, <2>2, <2>3 DEF Budget, Uncounted
<1>2. TypeOK /\ TypeOK' /\ Advance /\ Budget /\ [Next]_vars => (Advance /\ Budget)'
  BY AdvanceNext, BudgetKept
<1>3. TypeOK /\ Advance /\ Budget /\ [Next]_vars =>
        [last' # last => /\ last.until <= last'.gen
                         /\ last.gen < last'.until \/ last.count < last'.count]_vars
  <2> SUFFICES ASSUME TypeOK, TypeOK', Advance, Budget, [Next]_vars, last' # last
               PROVE  /\ last.until <= last'.gen
                      /\ last.gen < last'.until \/ last.count < last'.count
    BY NextTypeOK
  <2>1. Newer(last', last)
    BY AdvanceNext
  <2> QED
    BY <2>1 DEF Newer, Before
<1> QED
  BY <1>1, <1>2, <1>3, TypeCorrect, PTL DEF Spec, ReportsAdvance
=============================================================================

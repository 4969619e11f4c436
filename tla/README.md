# Generic Radio: TLA+ models, checks and proofs

These modules model the NOS3 Generic Radio component: the flight software that
commands the radio, the simulated radio, and the relay between the spacecraft
and the ground that lives in the same simulator. Paths below are relative to
the repository; `tla/` is this directory. `PROJECT.json` is the index: the
runs, the mutants that show each property can fail, the lines each definition
translates, the findings, the hazards and the theorems.

## 1. The system

| Component | State | Operations | Talks to |
|---|---|---|---|
| cFS main task (`fsw/cfs/src/generic_radio_app.c`) | `CmdPipe`, `HkTelemetryPkt` (five 8-bit counters and the last decoded device packet), `RadioSocket`, `ProxySocket` | NOOP, RESET_COUNTERS, CONFIG, PROXIMITY, REQ_HK; invalid codes and lengths | Software Bus; the device through the protocol library |
| Protocol library (`fsw/shared/generic_radio_device.c`) | none | `SetConfiguration`, `ProximityForward`, `RequestHK` | UDP 5014 (device), 5015 (answers), 7011 (proximity) |
| Simulated device (`run`, `process_radio_command`, `command_callback` in `sim/src/generic_radio_hardware_model.cpp`) | `_enabled`, `_count`, `_config`, `_prox_signal`, `_keep_running` | Get Housekeeping, Set Configuration; ENABLE, DISABLE, STOP, HELP | UDP 5014; the NOS Engine command bus |
| UDP relay (`forward_loop`, `forward_loop_multi`, their tick callbacks) | three queues, two mutexes, the `_rcv_sock_...` and `_fwd_addr_...` members | receive, filter by link state, stamp, queue; drain on a time tick | UDP 5010, 5011, 6010, 6011, 7010 to 7013; the NOS Engine time bus; the data point |
| TCP relay (`tcp_forward_loop` and its tick callback) | two queues, two mutexes, connections | resolve, connect, accept, receive, drain | CryptoLib over TCP; flight software over UDP |
| 42 data provider and data point (`sim/src/generic_radio_42_data_provider.cpp`, `generic_radio_data_point.cpp`) | six values: per direction occultation, light-time delay, carrier-to-noise ratio | parse on first use, stop at the first value that cannot be parsed | the 42 simulator; read by every relay thread |
| cFS start-up, exit and `ProxyTask` (`generic_radio_app.c`) | `RunStatus`, both sockets, `read_data` | the eight calls of `AppInit`, the loops and closes of two tasks | Executive Services (start, stop, delete, restart); Software Bus; the ports |
| F Prime component (`fsw/fprime/radio_src/Generic_radio.cpp`) | `HkTelemetryPkt`, `RadioHK`, the telemetry channels | NOOP, CONFIG, RESET_COUNTERS, REQUEST_HOUSEKEEPING | the same library, the same device |
| Standalone checkout (`fsw/standalone/generic_radio_checkout.c`) | the line read, two sockets, `RadioHK` | create, prompt and command, close | the same library, the same device; standard input |
| Ground test script (`gsw/GENERIC_RADIO/lib`, `procedures/tests`) | expected counter values, the packet shown last | command, read back, compare, repeat | the application, through up- and downlink |
| Ground databases, configuration, build files, older UART checkout | none that runs | | |

What makes it hard:

* The app waits a fixed 10 ms for an answer and then reads its socket without
  blocking. The answer may come in time, late, or never, and nothing in it says
  which request it answers.
* `run()` and `command_callback()` share `_enabled`, `_count` and `_config` with
  no lock. `_config` is built from four byte-wise read-modify-writes, and both
  `_config` and `_count` are read byte by byte for an answer.
* Relay threads write the members of a lane in two steps and without a lock;
  the tick thread reads them whenever a message is queued. Three of the threads
  share the same lane.
* Times are stamped outside the mutex, delays vary from datagram to datagram,
  and the queues are drained head first.
* Sends fail, datagrams are lost, and other programs can send to the same ports.
* The main task and `ProxyTask` share `RunStatus` and `ProxySocket` with no lock.
  The main task waits for a message for ever, so it sees a request to stop only
  after the next one; cFE may delete either task wherever it stands, and a port
  that a deleted task left bound keeps the next instance from starting.
* A parse of the 42 data that fails leaves a data point with some values stored
  and the others at their initial values, one of which says "not occulted".
* The script on the ground repeats a command when the counter in a packet is not
  the one it expects; packets carry no number, counters wrap, and others on board
  may ask for packets too.
* The checkout program ignores the end of its input, and the F Prime component
  publishes a structure it may never have filled in.

What makes the components correct: every command is served once and counted
once; an answer is decoded at most once and never after a newer one; what is
reported is what the device holds, up to a bounded lag; a cleared device stays
cleared; the relay forwards in order, at most once, to the right destination,
not early, not later than the queue makes it and not over a link known to be
closed; an application that meets an error ends, and what it leaves bound can be
explained; a test that passes has executed what it commanded, once.

## 2. Modules

```
RadioPorts                 the two UDP ports (external)
  +- RadioDevice           run() and command_callback()
  +- DeviceLib             the stateless part of the protocol library
       +- RadioApp         the cFS main task
       |      RadioAppProofs
       |    RadioLink      RadioDevice + RadioApp joined by the ports
       |      RadioLinkMC, RadioLinkProofs, RadioDataProofs
       |    GroundScript   the ground's test script + RadioApp + the links
       |      GroundScriptMC, GroundScriptProofs
       +- HkCall           RequestHK as the two other programs call it
            FprimeRadio    the F Prime component
            Checkout       the standalone checkout program
              RadioHosts   RadioLink + FprimeRadio + Checkout
                RadioHostsMC, RadioHostsProofs
HkService                  what RadioLink and RadioHosts implement (abstract)
RadioLifecycle             start-up, two tasks and exit of the cFS application
  RadioLifecycleProofs
LinkState                  the 42 data, the data point, the close criteria
  ForwardLoop              the UDP relay
    ForwardLoopMC, ForwardLoopProofs
TcpBridge                  the TCP relay
  TcpBridgeMC, TcpBridgeProofs
LossyPipe                  what each direction of TcpBridge, and each thread of
                           ForwardLoop towards each destination, implement (abstract)
```
A module ending in `MC` gives values for TLC, one ending in `Proofs` holds the
theorems. Definitions with the comment "Mutant of X" are the faults that show
that a property can fail; nothing uses them otherwise.

### RadioPorts
`radioRx` and `fswRx` are the receive buffers of the device's command socket
and of the app's `RadioSocket`. A send appends, or is lost when the buffer is
full or, with `Faulty`, at any time. One hop between two sockets on a host
neither duplicates nor reorders. A datagram keeps its kind, the number of the
request it belongs to (history only: the wire format has no such field), the
configuration word, the counter, and how often the counter had been cleared when
the first and when the last byte of it were read (`gen` and `until`, history).
One bit stands for each byte of a word, since the
code only shifts, ORs and copies bytes. The model's words have `W` bytes.

### RadioDevice
Each read and write of a shared member is a step of its own. `dev` is the place
of `run()` in the handler: `DevReceive` takes a datagram and checks `_enabled`,
size, header, trailer and command; `DevLoadCount` and `DevStoreCount` are
`_count++`; `DevStoreConfig`, then `DevLoadConfig` and `DevOrConfig` for each
further byte, are the assignment of `_config`; `DevReadCount` and
`DevReadConfig`, once for each byte, are `create_generic_radio_hk`; `DevReply` is
`sendto`. A byte of the count is what shift and mask leave of it (`CountByte`), so
a DISABLE between two reads makes a count the radio never had: 0x102 becomes
0x100. `ByteBase` is the 256 of the code and `Place[i]` the weight of byte `i`; a
count has `W` bytes, as a configuration word has (`PositionalCount`). `cb` is
the place of `command_callback()`: `CbDisable`, `CbClearCount`, `CbClearConfig`
are its three assignments in their order. `gen`, `jobGen`, `jobUntil` and
`raced` are history. `_prox_signal` is always zero and is left out.

### DeviceLib
The datagrams of `GENERIC_RADIO_SetConfiguration` and `GENERIC_RADIO_RequestHK`,
and the constants the three flight programs share. `Wire` is the byte order of a
configuration word: `CFE_MAKE_BIG32` swaps its bytes on a little-endian
processor, and the shifts that follow put the most significant byte first on any
processor, so on a little-endian one the word arrives reversed.

### RadioApp
A ground command is one step: the main task is the only one that touches
`HkTelemetryPkt`, and what a command sends is one datagram. A housekeeping
request is two steps, since the device runs while the task sleeps: `HkSend`
is `RequestHK` up to `OS_TaskDelay`, then `HkHit` or `HkMiss` is the
non-blocking read and `ReportHousekeeping`, publication included. `HkHit` adds
one to the decoded counter, as the code does. `CmdPipe` drops nothing the app
has to know of: a full pipe refuses the command. `Proximity` sends to another
port, so only its effect on the counters shows here; it may fail even on a
faultless network, because its size is read from the payload. `accepted`,
`handled`, `taken`, `issued`, `done`, `misses` and `last` are history.

### RadioLink
Joins the two: `RunStep`, `CallbackStep`, `MainStep`, `GroundStep` (the Software
Bus) and `NetworkStep` (third parties). `dark` is history: DISABLE was
confirmed before the request being served was sent, and no ENABLE has come since.

### HkService
The abstract housekeeping service: requests are issued one at a time, and each
is served once, by an answer newer than the last one decoded (`Hit`) or as a
failure (`Miss`). It deliberately does not promise that the answer is the one to
the request being served: the code does not keep that promise (`LagIsPermanent`, `dark_request`).
`RadioLink` implements it under `served <- done, missed <- misses,
newest <- last.id` (`ServiceSpec`), and the two other programs in `RadioHosts`
under the names of `HkCall` (`HostServiceSpec`).

### HkCall, FprimeRadio, Checkout
`HkCall` is `GENERIC_RADIO_RequestHK` seen from a caller with a structure of its
own, `radioHK`: `RequestSend` up to the delay, then `RequestHit` or
`RequestMiss`. `FprimeRadio` has one action per command handler (`FpNoop`,
`FpConfig`, `FpReset`, `FpRequest`) and `FpReport` for the end of a request:
every command is answered with OK, a failed request is counted nowhere, and the
channels are written from `RadioHK` whatever the status was, so the component
publishes a structure nobody initialised until its first success. `Checkout`
creates both sockets with one status variable (`CkCreate`), reads a line
(`CkLine`; `Settle` is everything but the call of `RequestHK`), ends its input
(`CkEnd`), and closes what has a descriptor (`CkClose`). At the end of the input
`fgets` leaves `input_buf` as `strtok` cut it, so the program repeats the first
word of its last line for ever, without the arguments (`Rest`).

### RadioHosts
The device and one of the three programs, chosen in the initial state: `DeviceSide`
is `RadioLink` without the application, `CfsRuns` and `CfsCommanded` are the
application, the other actions those of the other two programs. `RadioHK` is
zeroed when it is a global of the checkout program and uninitialised when it is
a member of the F Prime component.

### RadioLifecycle
`InitStep` is one call of `AppInit` (`Steps` names the eight in order) and
`InitFails` its failure, after which nothing is undone. `MainLoop` and
`ChildLoop` are `CFE_ES_RunLoop`, which leaves its reason in `RunStatus`, for the
other task to see. `Receive`, `PipeError`, `Forward` and `Close` are the rest of
the main task, `ChildRead`, `ChildIdle`, `ChildReadFails` and `ChildClose` that
of `ProxyTask`: success, `SOCKET_TRY_AGAIN`, any other status, and the close.
The buffer is two halves, since a datagram may fill only part of it. ES is
external: `EsRequest`, `EsCleanup` (both tasks end; what is open stays bound) and
`EsStart`. `held`, the ports left bound, is state of the kernel; `late` and
`cause` are history.

### GroundScript
`Suite` is `generic_radio_app_test.rb`, with `safe_GENERIC_RADIO` before it. A
step is `SendStep` (the command, and what is expected of the counters, worked
out from the packet shown last), `AskHk` (the request, and the start of the
wait), then `Expires` (no packet in time: the script fails), `Retry` (a NOOP
whose counter is not as expected, twice at most) or `Judge` (the check). The
application is `RadioApp` itself, with no device, so every request yields a
packet. Up- and downlink are first-in first-out and lose up to `MaxLosses`
messages; `OtherRequest` is anybody else asking for housekeeping. `executed`,
`base` and `disturbed` are history.

### LinkState
`Link` is what 42 says of a direction, `Stored` how many of a direction's three
values were stored when parsing stopped after n of six, `View` the data point
that results. `Capable` is `communication_capable`, `LightTime` the delay, which
is arbitrary when the default provider leaves `delay-on` unset. `Verdict` is
history: whether a datagram let through found the link open, closed but unknown
to the data point, or known to be closed.

### ForwardLoop
`Loops` is the set of threads the constructor starts in the chosen `Mode`. A
thread writes `rcvSock` (`SetRcvSock`) and `fwdAddr` (`SetFwdAddr`) of its
`Lane`, then repeats `Receive` (with the link state and delay `LinkState` gives
at that moment, dropping the datagram when the link is not capable), `Stamp` (the due time, mutex not
held) and `Push` (mutex free). The tick thread goes through the UDP callback
(`up`, then `down`, under one mutex) and the multi callback (`multi`, its own
mutex); `Forward` pops a due head and sends it to the address it finds at that
moment, `EndDrain` is the `break` or the empty queue. A host name that does not
resolve leaves `sin_addr` uninitialised (zero in the multi lane): the address is
`"garbage"`. Threads
never end because nothing clears `_keep_running`. The steps of
`forward_loop_multi` are those of `forward_loop` on other members, and so are
those of its callback. A `recvfrom` that fails is no step. The TCP callback runs
between the other two and shares no data with them; what it shares is their
thread, see `TcpBridge`.

### TcpBridge
The two threads of `tcp_forward_loop`, `process_tcp_forward_loop_message_queue`,
`tcp_init`, and the ends of both connections that CryptoLib holds. `DownStart`,
`Resolve` and `Connect` are the start of the downlink thread, which gives up for
good (`"gone"`) after `MaxRetries` retries of either loop; `UpStart`, `Listen`,
`Accept` and `TcpInitFails` that of the uplink thread, which goes on when
`tcp_init` failed. `Receive` is what the two loops have in common; `DownReceive`
takes one datagram, `UpReceive` any number of the bytes that wait in the stream.
`Stamp` and `Push` are as in `ForwardLoop`. `SendDown` blocks while the
connection holds `SndCap` unread messages, succeeds once more after the ground
closed, and then raises SIGPIPE, which kills the simulator unless the framework
ignores it (`SigpipeIgnored`). Telemetry datagrams and uplink bytes are numbered
in the order in which they are sent. At the end of the stream `recv` returns 0
for ever and nothing is accepted again, so a second connection of the ground has
no effect and is left out. So are a partial `send`, taken for a failed one, and
a `clientfd` that was never set and happens to be another descriptor.

### LossyPipe
The abstract direction of a relay: numbered items are offered, deliveries are of
later and later ones. `TcpBridge` implements it twice, with
`newest <- last[d].to, deliveries <- last[d].count` (`TelemetryPipe`,
`CommandPipe`). Of a piece of the command stream it sees the last byte only:
that pieces do not overlap is `FlowOrdered`, and that none is left out `NoGaps`.
In `ForwardLoopProofs`, each thread of `ForwardLoop` towards each
destination does, with what was received and what was sent there.

## 3. What the runs check

| Run | Checks | Shows |
|---|---|---|
| `link_faults` | `TypeOK`, `AnswersInOrder`, `SkewBounded`, `NoMixedConfig`, `DisableClears`, `ReportsAdvance`, `ServiceSpec` | With losses, a stray datagram, a DISABLE at any point, two configuration words and every interleaving, answers keep their order, none is decoded twice, the count reported increases unless a DISABLE cleared it meanwhile, no configuration mixes two commands, and the exchange implements `HkService` |
| `link_lossless` | `LagIsPermanent`, `RequestsAnswered` | With nothing lost, every request is answered in the end, and the lag of the app equals its failures for ever |
| `hosts` | `HostsTypeOK`, `CommandsAccounted`, `FprimeAccounted`, `ReportIsAnswer`, `NoConfigReplay`, `HostSkewBounded`, `HostServiceSpec`, `CommandsServed` | Every sequence of three commands to each of the three programs, with losses, failing sends and a stray datagram: one count per command, wrap included; what is taken for a report is an answer of the device; nothing is configured that was not typed; no answer is decoded twice; no program is ever stuck; the F Prime component and the checkout program implement `HkService` too |
| `lifecycle` | `TypeOK`, `LateForwardOnce`, `LeaksExplained`, `PublishedIntact`, `ErrorEnds`, `DatagramPublished` | Two instances that fail, are stopped or deleted at any step: the main task uses a closed `ProxySocket` for one message at most, what is left bound has one of three causes, packets mix no two datagrams, an error ends the application, and a running one publishes what arrives |
| `ground` | `TypeOK`, `CalmPasses`, `ExecutedOnce`, `ScriptEnds` | From any counters, with losses, early time-outs and a request of others: no false alarm on a calm link, a passing NOOP step has executed its NOOP once, and there is always a verdict. `ExecutedOnce` names two exceptions: with an expected counter of 0 the check `CMD_COUNT >= 0` passes though nothing was executed, and a packet someone else asked for ends the wait too early |
| `fwd_multi` | `TypeOK`, `SlotsReady`, `ReleaseWindow`, `OwnLaneRouted`, `InOrder`, `LinkRespected` | All threads of MULTI_GDS mode, failing sends and parses: no unset member is used; a message leaves when it and all queued ahead of it are due, at the latest one tick after the last of them was queued; uplink and multi downlink reach only their own addresses, in order, at most once; no datagram passes a link known to be closed |
| `fwd_live` | `OpenLinkDelivers` | In MULTI_GDS mode a datagram accepted while the link was open is sent in the end, to both ground systems |
| `tcp_bridge` | `TypeOK`, `FlowOrdered`, `TelemetryPipe`, `CommandPipe` | With failures in both directions, closing links and connections that end at any time, each direction of the TCP relay is in order and delivers nothing twice |
| `tcp_live` | `NoGaps`, `Arrives` | Without failures and with an open link, nothing is left out in the middle, and what was received is delivered in the end unless the ground closed, the name did not resolve or SIGPIPE killed the simulator |

Three runs end in a counterexample. Each shows the code against a statement of
the repository, quoted in `PROJECT.json` under `findings`:

| Run | Statement | What the code does |
|---|---|---|
| `reports_counter` | "Reported Device Command Counter" | publishes the device's counter plus one |
| `dark_request` | "Disable sim and confirm device error counts increase" | a request sent after DISABLE was confirmed may succeed, while the radio stays disabled, with the late answer to an earlier request |
| `crosslink` | direction 0 goes to cryptolib, -1 is crosslink | one address for all of them, that of the last thread to start |

`dark_request` and `reports_counter` are checked under
`FairSpec`, so the counterexample does not come from a program that just stops.

### Bounds
* `MaxCommands` (2 to 3 commands), `MaxStray` (one third-party datagram),
  `MaxDisables` (one DISABLE). Three requests are what a late answer, its
  decoding for the wrong request and one more need; a request, a configuration
  and a DISABLE between any two steps of either need three commands and one
  DISABLE. What depends on no such bound is proved (section 4).
* `RxCap = 2` fills the buffers in `link_faults`; `link_lossless` uses a buffer
  larger than all that is ever sent, which is what "lossless" takes.
* `W = 2` bytes is enough for a word half written and for a count half read. In
  `link_faults` a byte of the count has two values (`ByteBase = 2`, `CountMod = 4`),
  so that a count of 3 is torn to 2 and one of 1 to 0, and the three commands still
  do not wrap it: `ReportsAdvance` speaks of a counter that does not wrap. Without
  the exemption of a DISABLE that comes while an answer is read, TLC refutes it. The
  other runs have no such property and `CountMod = 16`. `CounterMod` is 2 to 4, so app counters wrap.
* `hosts` has `RxCap = 1`, so that a stray datagram and an answer compete for the
  place, no DISABLE (`link_faults` has it), `CounterMod = 2`, so that three
  commands wrap every counter, and a big-endian processor.
* `lifecycle`: two instances, so that the second starts on what the first left;
  two messages, two datagrams and one failing read, so that a failing read comes
  before, between or after two datagrams of which one is short.
* `ground`: `CounterMod = 4` from any initial value, so that the wrap comes at every
  step of the suite; three losses, one for each attempt of a NOOP step; one
  request of others; two places in the pipe. The suite itself is complete.
* `fwd_multi` has two datagrams (`MaxReceived`) and two ticks (`MaxTime`; later
  times are taken for `MaxTime`): a due message stuck behind one that is not, and
  a message stamped earlier but queued later. What does not depend on the bounds
  is proved. `fwd_live` has one datagram: what it adds to `ReleaseWindow` is that
  each lane is drained at all. Delays are 0 and 2: with a delay of 1 a message is
  always due at the next tick and never blocks one behind it.
* `TcpBridge`: two items in each direction, `MaxTime = 2`, delays 0 and 2, for
  the same reasons. `MaxRetries` is 1 in `tcp_bridge`, where the code has 30, and
  0 in `tcp_live`. `UdpCap = 1` in `tcp_bridge` makes the telemetry port overflow;
  2 in `tcp_live` is what "nothing is lost" takes. `SndCap = 1` makes `send` block
  on the second message.

The systems may stop when their bounds are used up, or when a program, a script
or an application has ended, so the runs of `RadioLink`, `RadioHosts`,
`RadioLifecycle` and `GroundScript` do not check for deadlock. Nor do those of `TcpBridge`, where the simulator may be
killed or wait for a ground that does not read. The UDP relay ticks for ever, and
its runs check for it.

### Fairness
`RadioLink!FairSpec` is weakly fair to the main task (it wakes when its delay is
over or the pipe has a message: `CFE_SB_PEND_FOREVER`, `OS_TaskDelay`) and to
`run()` (it wakes when its socket has a datagram). Nothing is assumed of the
callback, the ground, or the network.
`HostsSpec` is weakly fair to the program that runs, its reads included, but to no
ground command and no typed line.
`RadioLifecycle!FairSpec` is weakly fair to both tasks and to the clean-up of ES,
but not to the arrival of a message: a main task that waits may wait for ever,
and `ErrorEnds` holds all the same.
`GroundScript!FairSpec` is weakly fair to the script, both links and the
application; a message the links did not lose arrives in the end.
`ForwardLoop!FairSpec` is weakly fair to the time driver and the tick thread,
and to each relay thread once it has a datagram. `Push` is strongly fair: the
mutex is taken for a finite drain and free until the next tick, infinitely
often, and a thread waiting for a `std::mutex` that keeps being released gets it
on the systems this runs on. Arrivals are not fair.
`TcpBridge!FairSpec` assumes the same of its ticks, stamps and pushes, and
`GroundReads`: CryptoLib reads the telemetry it is sent. Without it `Arrives`
fails in both directions, and the UDP relay, whose callbacks share the thread
that is blocked in `send`, stops as well. The tick fairness of `ForwardLoop` is
for the modes without TCP threads, in which that callback finds empty queues.
Start-up is not fair: it may retry and give up.

## 4. What is proved

With TLAPS, for every value of the constants that satisfies the named
assumptions. `PortsAssumption`, `DeviceAssumption`, `LibAssumption` and
`AppAssumption` only say that capacities and moduli are positive, bounds natural
and words words; `GroundAssumption` adds that a counter has more than two values,
since the script adds 1 twice to the error counter (the code's has 256); `LinkAssumption`, `ForwardAssumption`, `LifecycleAssumption` and
`BridgeAssumption` give constants their types, and say that a delay of 0 is
possible.

`RadioAppProofs` has no theorem of a specification, only what the modules below
share: the types of datagrams and packets, what each action of the application
and the ports does to them (`MainTypes`, `SendTypes`, `NetworkTypes`), and
arithmetic. The proof system knows nothing of `%`, so `DivMod`, `SmallMultiple`,
`Remainder`, `LessM`, `OneMore` and `BumpValue` derive from its definition what
happens to a remainder when one is added.

`RadioLinkProofs`:

* `TypeCorrect`: `TypeOK` holds always, from the lemmas of `RadioAppProofs` and
  one per thread of the device.
* `OrderKept` and `SkewStaysBounded`: `AnswersInOrder` and `SkewBounded` hold
  always. `SkewBounded`, `done <= last.id + misses`, is not inductive: that a
  decoded answer is newer than the last one has to come from the order of the
  buffers, and that order from the request the device is working on and from
  the requests it has not read. `AnswersInOrder` states the whole chain: last
  answer, answers in `fswRx`, the device's job, requests in `radioRx`, newest
  request. `Chain` states it as an operator of the two ends, the buffers and the
  job, and `ChainSend`, `ChainRequest`, `ChainRead`, `ChainNoise`, `ChainRun`,
  `ChainCallback` and `ChainNetwork` say once what each kind of step does to it,
  for the application here and for the other two programs in
  `RadioHostsProofs`. `LinkInv` is the conjunction with the types, and is
  inductive.
* `ImplementsService`: every step of `RadioLink` is a step of `HkService` or
  leaves its variables alone, given `LinkInv`.

`RadioDataProofs`:

* `DisabledIsClear`: `DisableClears`. `ClearInv` adds where the callback stands
  between its assignments, and that `run()` then waits in `recvfrom`, since a
  disabled radio takes no command from its socket.
* `ConfigNeverMixed`: `NoMixedConfig`. The bytes of one command must be followed
  through the pipe of the application and the packet it publishes (`Commanded`),
  through the datagrams on their way (`Carried`), and through `_config` and the
  copies `run()` holds of it (`Held`).
* `CountAdvances`: `ReportsAdvance`, an action property. The answers in the buffer
  must advance one after the other from the last one decoded, and all of them be
  older than what `run()` may report next (`Advance`): between the increment of
  `_count` and the answer no other answer may show the new value. While the count is
  copied (`Copying`), the copy is a prefix of the count unless a DISABLE has come since
  the first byte, and then the answer belongs to more than one generation, which is
  all that the property needs of it. `Before` compares an answer with a count read
  from one generation to another. `ByteAdds` is the arithmetic: each byte read makes
  the prefix one byte longer, and the last one makes it the count (`Quotient`,
  `Nested`, `FirstDigit`). The theorem assumes `CountMod > MaxCommands`: then the
  counter cannot wrap, since what was counted, what is being counted and the commands
  in the pipe and in the device's buffer are together no more than the commands
  accepted (`Budget`; datagrams of third parties are not counted, which takes
  counting the commands of a buffer, `CommandsSent` and `CommandsRead`). The property
  is false of a counter that wraps. The code's has 32 bits, so the hypothesis is a
  session of fewer commands than that; the run satisfies it (4 > 3). `Advance` and
  `Budget` were model-checked before they were proved.
* `LagNeverHeals`: `LagIsPermanent`. Each datagram comes from a command of the
  ground or from a third party, both of which are bounded, so large buffers never
  fill (`Room`); a radio that is never disabled reads every request (`Attentive`);
  so every request between the last answer decoded and the last one issued is in
  a buffer or in the device's hands (`NoneLost`), and by `AnswersInOrder` the
  next answer is that of the request after `last.id`. `LagInv` is the conjunction.

`RadioHostsProofs` (its invariants speak of all three programs):

* `HostsTypes`: `HostsTypeOK`, one lemma per program.
* `CommandsCounted`, `FprimeCounted`: sums of counters modulo `CounterMod` agree
  with the history, by `Tally` and the arithmetic of `RadioAppProofs`.
* `NeverReplayed`: `NoConfigReplay` needs that a line of `cfg` with an argument
  cannot come out of `Rest`.
* `HostsImplementService`: `HostServiceSpec`. `CallInv` is the chain of
  `RadioLinkProofs` between the last structure a call decoded and the request of
  the call; each program has one lemma that says its step is a half of a call or
  leaves the exchange alone.
* `ReportsAreAnswers`: `ReportIsAnswer`, from what the structure of the caller
  holds after a success (`Decoded`) and the channels that show it (`Shown`).
* `HostsLagBounded`: `HostSkewBounded`, for the two other programs what
  `SkewBounded` says of the application. It is proved from `HkService` alone, through
  `HostsImplementService`.

`GroundScriptProofs`:

* `ScriptTypes`: `TypeOK`, together with the depth of the command pipe.
* `PassedMeansExecuted`: `ExecutedOnce`, an action property. While nobody else asks
  for housekeeping there is one request at a time (`Alone`): `Line`, what is on its
  way from the ground to the main task through the link and the command pipe, is
  empty, the command, the request, or one behind the other; a packet is due only
  when the request has arrived; and a packet that has come shows the counters as
  they are. So when a NOOP is repeated the one before it is either executed, and
  the counter is the expected one, or lost, and is not (`Repeating`).
* `NoFalseAlarm`: `CalmPasses`. Undisturbed, the request of a step is on its way as
  long as no packet has come (`OnTime`), and once the command has been executed the
  counters are the expected ones (`Foreseen`); RESET makes the error counter 0
  before the two steps that add to it, which is where `CounterMod > 2` is used.
  `ScriptInv` is the conjunction with the types, is inductive, and was model-checked
  on the bounds of `ground` before it was proved.

`RadioLifecycleProofs`:

* `LifecycleTypes`: `TypeOK`.
* `LateAtMostOnce`: `LateForwardOnce` is strengthened by where the main task may
  stand once it has used the closed socket (`LateInv`).
* `LeaksAlwaysExplained`: `LeaksExplained`, from what each place of the two tasks
  says of the sockets that are open (`LeakInv`).
* `PublishedStaysIntact`: `PublishedIntact`, from the order of the datagrams in
  the buffer and what has been published (`PublishInv`).

`ForwardLoopProofs`:

* `SlotsAlwaysReady`: in every mode, a lane with a queued message has its
  members set. The invariant adds that a thread past its start-up has set them,
  that nothing unsets them.
* `RelayTypeCorrect`: `TypeOK`, light-time delays of failing parses included.
* `RelayInOrder`, `OwnLanesRouted`, `LinksRespected`: `InOrder`, `OwnLaneRouted` and
  `LinkRespected`, from one invariant (`RelayInv`): each queue is increasing in the
  numbers of each thread, what is queued is newer than what was released and not
  newer than what is in hand, the lanes of the uplink and of the multi downlink
  hold only their own thread's messages and addresses, and every verdict in a
  buffer, a queue or the history is tolerated.
* `ReleasedInWindow`: `ReleaseWindow`. `WindowInv` says why a head is still in its
  queue: between a tick and the end of a lane's drain, the head or a message
  released before it explains it (`Pending`); when the drain is over, the head is
  not due or was queued after it (`InTime`, `Fresh`).
* `RelaysArePipes`: a refinement. For each thread `l` and destination `d`, `Spec`
  implements `LossyPipe` with the datagrams `l` received as the items and the
  messages of `l` that reached `d` as the deliveries. `RelayInv` orders the
  deliveries; `NumberedInv` adds that numbers start at 1, and `Latest` that what was
  delivered has a newest. It is stated of every destination, the ones another
  thread's address leads to included. No run checks it: evaluating the sets of
  deliveries on every step of `fwd_multi` takes TLC too long. `InOrder` is the part
  of it that run checks.
* `NothingDuplicated` follows from it: no destination has had more datagrams of a
  thread than the thread received.

`TcpBridgeProofs`:

* `FlowStaysOrdered`: `FlowOrdered` of the TCP relay holds always; with the types
  of the variables it speaks of it is inductive (`FlowInv`), since it already
  states the whole chain from the last delivery through the queue, the message
  in hand and the last item read to the socket. One lemma per action that moves
  an item; `FlowFrame` covers the others.
* `TelemetryIsPipe` and `CommandsArePipe`: each step of `TcpBridge` is a step of
  `LossyPipe` in either direction or leaves it alone (`StepIsPipeStep`), since the
  head of a queue is newer than the last delivery by `FlowInv`.
* `BridgeTypes`: `TypeOK`, the bound on `tries` included: the counter passes
  `MAX_RETRIES` only with the attempt after which the thread gives up (`Retrying`).
* `DeliveriesHaveNoGaps`: `NoGaps`. Queue entries follow each other item by item
  (`Linked`) from the last delivery to the message in hand, which ends with the
  last item read (`Whole`), and the port goes on from there (`PortGapless`), until
  a closed connection or an unresolved name loses all that follows (`Broken`);
  neither is ever repaired, since each is set once (`SetOnce`). `GapInv` is the
  conjunction.

Only model-checked: the liveness properties (`CommandsServed`, `RequestsAnswered`,
`OpenLinkDelivers`, `Arrives`, `ErrorEnds`, `DatagramPublished`, `ScriptEnds`),
which the proof system does not reach: there is no proof of liveness under
fairness. Every invariant, every action property and every refinement of a run
that passes is proved.

## 5. Plan

The components of section 1 that have behaviour are modelled. What would add
most next, in this order:

1. `GroundScript` with `RadioLink` in place of `RadioApp`, for the device test: the
   device's answers, late or missing, would then feed the script's counters.

## 6. Not modelled

The older checkout program in `support/` drives a UART device: it calls
`GENERIC_RADIO_CommandDevice` and `GENERIC_RADIO_RequestData`, which the protocol
library no longer has, and its `CMakeLists.txt` names a library source that is
not there. Of the device test of the ground (`generic_radio_ast_test.rb`) only
what it asks of a disabled radio is checked (`DarkRequestFails`). The databases
are data. A `bind` of a UDP port that fails in the simulator, and the connection
to 42, which belongs to a base class of another repository, are left out.

Build files, port numbers, logging, time stamps, events and the layout of
packets. The kernel, the Software Bus, NOS Engine and 42 are external and
modelled by what the code relies on. `_keep_running` is never cleared by this
component (STOP only answers "Stopping"), so the ends of the loops are dead code. The default branch on the
message identifier in `ProcessCommandPacket` cannot be reached: the pipe is
subscribed to two identifiers, and both have a case.

# Universal Wellpad Controller: specifications

TLA+ specifications of the programs of this repository, the TLC runs that check
them on small instances, and theorems about them checked by TLAPS.

Paths below are relative to `src/`; `PeriodicRead.cpp` is
`modbus-master/Modbus-App/src/PeriodicRead.cpp`.

## 1. The system

The Universal Wellpad Controller is a set of containers that poll Modbus
devices and exchange values and commands with applications on the same machine
and with a SCADA master.

    Modbus devices <-> modbus-master (RTU and TCP) <-> message bus (ZeroMQ)
                                                            |
         kpi-tactic <--------------------------------> mqtt-bridge
              \                                             |
               \-------------> internal MQTT broker <-------/
                                        |
                                 sparkplug-bridge <-> SCADA MQTT broker

### Components, their state, and what makes them correct

| Component | State | Operations | Hard behaviour | Correct when |
|---|---|---|---|---|
| modbus-master: polling engine (`PeriodicRead.cpp`) | per point: await flag, posted flag, TxID, retries left, last good value; the TxID map; three queues with counting semaphores; all of it twice (real-time and other points) | timer event, request, cutoff, response, retry | four threads share the objects of the points without a common lock; answers that come after the cutoff or after the next poll | every poll is reported, at most one request of a point is in flight, no point waits for ever, every answer is published under its own poll time |
| modbus-master: polling timer (`PeriodicTimer`, `CTimeMapper`) | a counter, its wrap, the polls and cutoffs due at each counter value | one tick | intervals of different lengths on one wrapping counter; 32-bit nanoseconds | each interval polled on its period, each poll followed by its cutoff |
| modbus-master: on-demand read and write (`ModbusOnDemandHandler.cpp`, `Common.cpp`) | request map `g_mapRequest`, 16-bit TxID counter, response queues | command received, request sent, answer, retry, error response | TxIDs wrap and are reused; error paths leave entries behind; the operations share counter and map | one response per command, built from the data of that command |
| modbus-master: values of points | none | swap, hex conversion, scaling | 8 byte values, saturation, not-a-number | the value published is the value read |
| modbus-master: stack interface (`ModbusStackInterface.cpp`) | callbacks of the (external) Modbus stack | API call, callback | errors with and without an answer | an accepted request is answered once |
| modbus-master: configuration and start-up (`Main.cpp`, `PublishJson.cpp`) | static maps of sites, devices, points | load | none while running | - |
| uwc_common: message queue (`QueueHandler.cpp`) | a queue, a mutex, a semaphore | push, pop, wait, clear | clear does not take back the posts (nothing calls it) | a woken consumer finds a message or leaves |
| uwc_common: MQTT client (`MQTTPubSubClient.cpp`) | connection status | connect, publish, callbacks | callbacks on a library thread; a failed publication reports success | - |
| uwc_common: ZeroMQ contexts (`ZmqHandler.cpp`) | maps of message-bus contexts and per-topic contexts | prepare, get, remove | test and insertion are separate; the error path destroys what all topics share | one publisher per topic, no use after removal |
| uwc_common: network information (`NetworkInfo.cpp`) | unique points, 16-bit roll numbers | parse | roll numbers wrap | ids are unique |
| uwc_common: configuration, environment, logging | read once | read | none | - |
| mqtt-bridge | a queue per operation and class, a publisher per topic, a listener per reply topic | MQTT message in, bus message out, and back | lost connections, failing publishers, real-time and other operations | each command goes once, in order, to the topic of its point, operation and class |
| sparkplug-bridge: SCADA node (`SCADAHandler.cpp`) | `bdSeq`, message sequence, "initialised" flag, semaphores of three threads | connect, disconnect, birth, death, command, rebirth | callbacks against threads: a connection lost between subscription and birth | NBIRTH first, then the DBIRTHs, sequence numbers gap-free |
| sparkplug-bridge: devices and metrics (`SparkPlugDevMgr.cpp`, `SparkPlugDevices.cpp`) | per device: known status, last published status, metrics with changed flags | birth, death, data, update | what is published against what is known | data only between a birth and a death |
| sparkplug-bridge: internal MQTT monitor (`InternalMQTTSubscriber.cpp`) | last status, time-out state, three semaphores | connected, disconnected, time-out | a reconnection racing the time-out | a loss that outlives the time-out is signalled, and so is its end |
| sparkplug-bridge: queues and start-up | queues, threads | pop and dispatch | order across queues | - |
| kpi-tactic (`ControlLoopHandler.cpp`) | per control loop: a queue of polls, the poll at hand, the last one written for; a map of the polls that await a response | poll message, write request, write response, analysis, end of the run | three threads may report one poll: who gives up on the response, who gets it, who could not publish the write | each poll analysed once, with the response of its own write |
| vendor applications, MQTT broker, deployment | - | - | samples and configuration | - |

`PROJECT.json` lists the components with their files and, under `hazards`, the
places of the code that are hard to test, with the properties that watch them.

### Interactions

* modbus-master's timer thread calls `pushPollFreqToQueue` of the request and of
  the cutoff thread; these and the response thread act on the points and on the
  Modbus stack, which calls back on threads of its own. Responses go out
  through ZeroMQ publishers.
* mqtt-bridge takes messages of the internal broker to the message bus (commands
  for modbus-master) and back (values, responses), through `QueueHandler` queues.
* kpi-tactic consumes polled values and issues writes, over MQTT or directly over
  the message bus, for each control loop.
* sparkplug-bridge consumes the values of the internal broker and publishes
  births, deaths and data of a Sparkplug edge node to the SCADA broker;
  commands come back the other way.

## 2. Modules

### `PollEngine`: the polling engine

One action per access to a shared object; a thread is a program counter and its
local variables. The real-time and the other threads are two copies of the same
code over disjoint points, queues and maps, so the module has one class.

| Variables | Code |
|---|---|
| `polls`, `cutoffDue` | the events `CTimeMapper::checkTimer` raises for an interval: poll, cutoff, poll, ... (that they alternate is `CutoffOnTime`, a part of `WheelOnTime` of `PollTimer`) |
| `reqQ`/`reqSem`, `cutQ`/`cutSem`, `respQ`/`respSem` | the queues and semaphores of the request, cutoff and response threads |
| `txMap` | the keys of `m_mapTxIDReqData` (the TxID of a point is fixed and never 0) |
| `await`, `posted`, `reqTx`, `pollOf`, `retries`, `lastGood` | `m_bIsAwaitResp`, `m_bIsRespPosted`, `m_uReqTxID`, `m_stPollTsForReq`, `m_stMBusReq.m_nRetry`, the last good response of `CRefDataForPolling` |
| `reqPc`.., `cutPc`.., `respPc`.. | `threadReqInit`, `threadCheckCutoffRespInit`, `respProcessThreads` |
| `stack` | requests the Modbus stack has accepted and not answered (external) |
| `reported` | history: what became of the current poll's message: none yet, `"failed"` (the bus did not take it, which is only logged) or `"sent"` |
| `resent`, `lost`, `overlap` | history; no history variable is read by a guard |

| Actions | Code |
|---|---|
| `TimerPoll`, `TimerCutoff` | `pushPollFreqToQueue` |
| `ReqWait`, `ReqPop`, `ReqListDone` | `threadReqInit`, `getFreqRefForPollCycle` |
| `ReqAwaited`, `ReqDummy*` | the branch of `initiateRequest` for a point that still awaits a response |
| `ReqBegin`, `ReqClearPosted`, `ReqSetAwait`, `ReqInsert` | `setDataForNewReq`, `insertTxIDReqData` |
| `ReqSent`, `ReqRefused`, `ReqFail*` | `sendRequest`, and the error branch of `initiateRequest` |
| `Cut*` | `threadCheckCutoffRespInit` |
| `StackAnswer` | the stack calls `readPeriodicCallBack`: `handleResponse`, `pushToQueue` |
| `RespWait`, `RespPop`, `RespDrop`, `RespKnown`, `RespRetry*`, `RespRes*` | `respProcessThreads`, `getDataToProcess`, `checkForRetry` |
| `RespRemove`, `RespClear*`, `RespPublish`, `RespUnprepared`, `RespMark` | `postResponseJSON`: with a response that the bus takes, that it does not take, and that cannot be prepared |
| `Rest` | the bounded model has served all its polls: a stutter that makes its end not a deadlock |

A publication may fail or throw: `postResponseJSON` logs that, returns TRUE, and the
posted flag is set as if the message had got out (`Post`). Only a response that
cannot be prepared returns FALSE; `RespUnprepared` leaves the flag alone, while
`postDummyBADResponse` ignores the result and sets it (`PostDummy`).

`m_nRetry` is a plain `int` written by two threads; its test, its read and its
store are separate steps.

`overlap` names the points whose request began while the response thread was
between the removal of the old entry and its last store (`HalfAnswered`). What
the code guarantees is guaranteed only without such an overlap; section 5 says
what happens with it.

### `PollTimer`: the polling timer

`intervals`, `percent` are the configuration; `tick`, `maxCounter`, `counter` are
`uiMsecInterval`, `uiMaxCounter`, `uiCurCounter`; `tracker` is `m_mapPollingTracker`
flattened into entries; `Tick` is one round of `timerThread` (advance, call
`checkTimer`, wrap). `MinTimerFrequency`, `CutoffOf`, `NextPolling`,
`NextCutoff` translate the arithmetic of `getMinTimerFrequency`, `CTimeRecord`
and `checkTimer`, `TickSleep` the 32-bit conversion of the tick to nanoseconds
(counted in units of 64 ns, the largest power of two that divides a
millisecond, so that TLC's 32-bit integers hold the numbers).
`since` and `polled` are history.

### `IntLink` and `IntMqttMonitor`: the connection to the internal broker

`IntLink` is an abstract specification: what the SCADA side of the
sparkplug-bridge is told about the connection to the internal broker. Every
connection is signalled once (`SignalEstablished`); every loss, and a first
attempt that fails, at most once (`SignalLost`), or not at all if the connection
came back in time (`KeepQuiet`). Signals may be late.

`IntMqttMonitor` is `CIntMqttHandler`: the callbacks of the MQTT library
(`Connected`, `Disconnected`; `callbacks` holds those to come), the thread
`handleConnMonitoringThread` (`Mon*`: wait for a loss, arm the time-out state, wait
for a wake-up or the time-out, disarm, test, signal) and
`handleConnSuccessThread` (`Suc*`: wait for a connection, test, wake the monitor,
signal). `LinkSpec` states that it implements `IntLink` under the refinement
mapping `Link`: what is still owed is counted in the callbacks to come, the
semaphores and the threads' positions. `reported` and `overdue` are history.

### `SparkplugNode`: the Sparkplug node

The threads of the sparkplug-bridge that publish to the SCADA broker, over
`IntLink` (not over `IntMqttMonitor`: the implementation just shown lets the larger
module use the smaller specification).

| Variables | Code |
|---|---|
| `up`, `callbacks` | the connection to the SCADA broker and the callbacks of the library to come (external; it reconnects by itself, after its callbacks are done) |
| `bdSeq`, `init`, `semBirth` | `m_uiBDSeq`, `m_bIsInitDone`, `m_semSCADAConnSuccess` |
| `intUp`, .., `semLost`, `semEst` | the variables of `IntLink` |
| `devs`, `known`, `pub`, `val`, `udts` | the devices in the map (a thread takes them one by one from its copy, in an order that the model leaves open), and for each device the status last known and last published and its value; the UDT definitions |
| `seq` | `payload_sequence` of `publishSparkplugMsg` |
| `birth`, `lost`, `est` | `handleSCADAConnectionSuccessThread`, `handleIntMQTTConnLostThread`, `handleIntMQTTConnEstablishThread` |
| `msg`, `ext` | `processInternalMqttMsgs`, `processExternalMqttMsgs` |
| `host` | what a Sparkplug host has been told: the NBIRTH it has, the number it expects, the devices alive with their values (external) |
| `crossed` | history, read by no guard |

A publication is three steps in the code and in the model: compose
(`BirthPrep`, `EstPrep`, `MsgAct`; under the mutex of the metrics), publish
(`*Send`; under the mutex of `publishSparkplugMsg`) and note the new status
(`*Mark`). Nothing holds them together, so two threads may interleave in all
ways. A message of the internal broker is taken (`RealUpdate`, `VendorBirth`,
`VendorData`, `VendorDeath`, `TemplateDef`), for vendor devices decided in a step of
its own (`VendorDecide`), tested against the flag (`MsgCheck`) and then acted on.
The metrics of a device are one value, 0 or 1.

`crossed` names the devices (and `"udt"`) that two threads dealt with at the same
time, or for which an action was dropped as the node was not initialised, until
the birth process next composes their DBIRTH. What the host is told of such
devices may be wrong, in ways listed in section 5; the properties say that of
all others it is right.

Faulty variants of some actions stand before them in all modules, each with a
comment that begins with "Fault:"; no specification uses them. They are the
mutations that each property is shown to detect.

### `OnDemand`: on-demand reads and writes

One listener thread and one response thread per operation; a step is one operation
on what the operations share.

| Variables | Code |
|---|---|
| `content` | the commands taken from the bus, with what the parser tells apart of each |
| `txId`, `reqMap` | `PublishJsonHandler::m_u16TxId`, `g_mapRequest` with the retries left of each entry |
| `lisPc`, `cur` | `subscribeDeviceListener` and the `onDemandInfoHandler` it calls: the command at hand and its TxID |
| `respQ`/`respSem`, `respPc`, `resp`, `copy` | the response queues of `CPeriodicReponseProcessor`, and `respProcessThreads` with what it has read from the map |
| `stack` | submissions accepted and not answered (external) |
| `alive` | FALSE after the exception of `mapMqttToEMBRespTopic`, which nothing catches |
| `wrapped`, `reused`, `leaked`, `answers`, `sent` | history, read by no guard; `answers` has each response with whether the bus took it (`out`) |

| Actions | Code |
|---|---|
| `Recv`, `Number` | `processMsg`, `getTxId` (an atomic 16-bit counter) |
| `Insert`, `Call`, `ErrorResponse` | `insertReqData`, `Modbus_Stack_API_Call` and the error branches of `onDemandInfoHandler`, `createErrorResponse`; which of them a command comes to is `ParseResult` (`jsonParserForOnDemandRequest`) |
| `StackAnswer` | `OnDemandRead_AppCallback` and its siblings |
| `RespWait`, `RespPop` | `respProcessThreads`, `getDataToProcess` |
| `RetryGet`, `RetryUpdate`, `Resend` | `checkForRetry`: a copy of the entry is read, counted down, stored, and sent once more |
| `Lookup`, `Remove` | `mapMqttToEMBRespTopic`, `postResponseJSON`: a response that cannot be prepared leaves its entry behind (`leaked`); otherwise the entry is removed before `publishJson`, whose failure is only logged (`Publish`) |

`reused` names the commands whose TxID was given to another command while one of the
two was still in use. As in the other modules, the guarantee is conditional on it,
and the map, its readers and the counter decide when it is used.

### `PointValue`: the values of points

`swapConversion`, `setScaledValue`, `reverseScaledValueToHex` and the part of
`jsonParserForOnDemandRequest` that makes data of a value, as operators, with a
small machine around them: a point, its registers in a device, write
commands (`Write`), changes in the device (`DeviceSets`) and polls (`Poll`).
`InDevice` is the reference definition: the number in the registers as the
documentation of the two swap flags says. An integer is published in the `int64_t` of a
message-bus envelope, so that an unsigned number of eight bytes in the upper half of its
range comes out negative (`Envelope`; the type of what is published is `PublishedType`). A byte has `2 * Half` values and reals are
exact fractions, so that TLC can hold the widest types; a conversion of a
real number to an integer type that cannot hold it is undefined in C++, and a choice
over what the builds do (`Cast`). `PointConfig` and `ValuesAssumption` say which points there are:
`CDataPoint::build` refuses a width of zero and a coil that is not of width 1, and puts the default
for a scale factor of zero.

### `ControlLoop`: the control loops of kpi-tactic

| Variables | Code |
|---|---|
| `polls` | poll messages delivered (external); the broker may deliver one twice |
| `pollQ`/`pollSem`, `respQ`/`respSem` | `PollMsgQ`, `WriteRespMsgQ` |
| `loopQ`/`loopSem`, `pc`, `cur`, `last` | the queue of a loop, `threadPollMonitoring`, `sLastWrSeqVal` |
| `tracked` | `CMapOfReqMapper`: the polls that await the response to their write |
| `wrQ`, `wrHand`, `written` | `m_qWrOpData`, `threadWriteReq` and what it has published |
| `anaQ`, `logged` | `m_qAnalysisMsg`, `threadAnalysisMsg` |
| `mainPc` | `main`, from the end of the time to run to the exit |

| Actions | Code |
|---|---|
| `PollArrives`, `ResponseArrives` | the MQTT or bus callbacks; responses are for a write of the loop, repeated, or of another application |
| `Trigger` | `postMsgsToWriteOnMQTT` |
| `LoopReceive`, `LoopTake`, `LoopDecide`, `LoopTrack`, `LoopPush` | `threadPollMonitoring`: give up on the previous write, track the poll, ask for its write |
| `PublishWrite`, `WriteFailed` | `threadWriteReq` |
| `RespReceive`, `LogAnalysis` | `analyzeControlLoopData`, `threadAnalysisMsg` |
| `SetStop`, `BreakLoops`, `BreakPoll`, `BreakResp`, `Join` | the end of `main` and `stopControlLoopOps` |

### `Bridge`: mqtt-bridge, over the queues, bus contexts and MQTT client of uwc_common

| Variables | Code |
|---|---|
| `up`, `subs`, `connSem`, `subPc` | the connection to the internal broker (external), its subscriptions, `m_semConnSuccess`, `handleConnSuccessThread` |
| `commands`, `queue`/`sem` | the commands received, `CQueueHandler` |
| `pc`, `hand`, `new` | `postMsgsToEII`, one thread per queue |
| `ctxMap`, `pubMap`, `pubBus`, `made` | `g_mapContextMap`, `g_mapPubContextMap`, the context that all publishers share, the publishers created |
| `published`, `failed` | what reached the bus, per topic, and what was logged as failed |
| `mainPc`, `subMap`, `subBus`, `replies` | `main`'s loop over the reply topics, `g_mapSubContextMap`, the replies on the bus |

| Actions | Code |
|---|---|
| `Connect`, `Lose`, `SubWait`, `Subscribe` | the client's callbacks and `handleConnSuccessThread`; sessions are clean, so a new one has no subscriptions |
| `Receive` | `msgRcvd`: the queue is chosen by operation and class (`QueueOf`) |
| `Take`, `Prepare`, `Create`, `InsertCtx`, `InsertPub`, `Remove`, `Destroy`, `Publish` | `postMsgsToEII`, `prepareContext` and its error path, `processMsgToSendOnEII` |
| `SubscribeBus`, `Listen`, `Reply`, `Forward` | `main`, `listenOnEII` |

Four queues in the code are four in the model. A topic carries the operation and the
class of its queue, so no two threads ever share a topic: this, and no lock, is
why `prepareContext`'s separate test and insertion are harmless here
(`OnePublisher`). The argument is the bridge's alone: modbus-master calls the
same `prepareContext` from several threads for one topic (section 6).

### `MC...`

Instances for TLC, one for each module that has data to choose. Points and
intervals are model values. The symmetry of two points is not used: their order in a
list is part of the model.

### `..._proofs`

The theorems (section 4), one module for each component with theorems.

## 3. Runs

| Run | Instance | Question |
|---|---|---|
| `poll_async` | 1 point, 3 polls, 1 retry, threads arbitrarily late, resubmission may be refused | Are queues, TxID map, await flag, retries and published data consistent with each other? |
| `poll_on_time` | 1 point, 4 polls, 1 retry, timer events served in time, fair | Is a poll passed over at its cutoff only if its message was published or given to a bus that failed? Is there ever a second request in flight? Is a message made for every request? |
| `timer_wheel` | 5 sets of intervals, 5 cutoff percentages | Is each interval polled and cut off on its period, for ever? |
| `monitor_link` | 3 losses, 2 failed attempts, fair | Does the monitor implement `IntLink`; are all connections and lasting losses signalled? |
| `node` | a Modbus and a vendor device, 12 scenarios | Does the host end with what the node knows, in unbroken numbers? |
| `on_demand` | a read and a write operation, 3 commands of 3 kinds, 2 TxIDs, 1 retry, preparations and publications may fail, fair (618,840 states) | Is every command answered, once and with its own data? Who removes its entry? |
| `values` | 166 points of every type, width, byte order and 4 scale factors; 2-bit bytes (23,856 states) | Is the number published the number in the device, and is what was commanded read back? |
| `control_loop` | 2 loops on 2 points, 2 polls, 1 response waiting, fair (584,909 states) | Is every poll analysed, once, and with the response of its own write? Does the program stop? |
| `bridge` | 1 point, 5 kinds of commands, 2 commands, 1 reply, 1 loss, 1 failure, 2 reply topics, fair (140,071 states) | One publisher per topic, commands in order and none lost, subscriptions renewed? |
| `poll_second_request`, `timer_long_tick`, `values_coil` | - | violations, see section 5 |

The properties:

* `TypeOK` - one type invariant per module. It includes what a wait on a semaphore
  relies on: `TypeOK` of `OnDemand`, `Bridge` and `ControlLoop` relate each semaphore to
  its queue.
* `SemaphoreCountsQueue` - `getFreqRefForPollCycle` reads `front()` with no test for
  an empty queue; this holds it up.
* `AwaitBacked`, `TxIdBacked` - a flag without an entry, or an entry without an
  answer to come, would silence a point for ever. A resubmission the
  stack refuses is the one way into that state (`lost`).
* `LateAnswers` - `NoResponseDropped`, the cutoff and the dummy response of a later poll
  never cost a late answer its entry; `OwnPollTime`, it carries the time of its own
  poll; `RetriesBounded`, and it costs no retry too many.
* `LastGoodAdvances` - the last good value is never older than before.
* `SilentOnlyIfOverlap`, `NoSecondRequest` - the promise of the cutoff and of the
  await flag. The cutoff's is: what it passes over had a message of its own, though the
  bus may not have taken it. That it was published is not so (`CutoffReportsPoll`, section 5).
* `PollReported`, `AwaitEnds` - liveness: the bus is given a message for every request, even if
  its answer is lost or cannot be prepared; a failed publication is not repeated.
* `WheelOnTime` - `PollOnPeriod` and `CutoffOnTime`: the counter wheel against real time.
* `LinkSpec` - the refinement of `IntLink`: a failed attempt to reconnect is not
  taken for another loss, no loss or connection is signalled twice.
* `ConnectionsSignalled`, `LastingLossReported` - liveness of the monitor. The latter
  leaves out losses that begin while the wake-up of an earlier connection is
  overdue (section 5).
* `HostCanFollow` - `InSequence`, five threads number their messages without a gap;
  `DataAfterBirth`, no DDATA of a device that the host does not know.
* `OnlineBorn` - when all is dealt with, a connected node is initialised and the
  host has the NBIRTH of this connection: no birth process is lost, whatever
  connections, losses and rebirth commands overlap.
* `HostAgrees` - `PublishedIsTold` and `HostMatchesDevices`: when all is dealt with, the
  status that steers later publications is the host's, the host's values are the
  last ones, and a device not known to be down is alive if the internal broker is
  there.
* `OwnData` - a command is submitted and answered with its own data, once and no more
  often than its retries allow, while other operations use the same counter and map.
* `EntryBacked` - an entry of the request map has work that will remove it, and the
  response of a command finds its entry; error paths that leave an entry behind are
  named (`leaked`), and no others do.
* `CrashNeedsReuse` - the exception that ends the process on a topic that is no path
  cannot be reached but by a reused TxID: the parser rejects such a topic.
* `EveryCommandAnswered` - liveness: a command that the parser took or rejected, and
  the stack did not refuse, has its answer published. A response that cannot be prepared
  (`leaked`) or that the bus does not take (`out`) is exempt, as nothing follows its log entry.
* `PublishedIsRight`, `ReadsBack` - against `InDevice`, and reading against writing, within
  the ranges in which the code does not cut off. A number published is that of the device, clamped to the
  point's type and then taken for a signed one of eight bytes.
* `ReportsAreRight` - `AnalysedOnce` and `OwnResponse`: no poll is reported twice and each with
  its own response, though three threads compete for its entry and the broker may
  deliver a poll or a response twice.
* `OneTracked` - the map of tracked polls does not grow: a loop has one entry at most.
* `WritesInOrder` - the writes of a loop are published in the order of its polls.
* `EveryPollAnalysed`, `StopEnds` - liveness: a poll that another one follows is analysed;
  the end of the run is not held up by a thread in `sem_wait`.
* `OnePublisher`, `InOrder` - see section 2; commands keep their order per topic, whatever is
  dropped between them.
* `Delivered`, `SubscribedAgain`, `EveryReplyTaken` - liveness of the bridge.

### Bounds

* `MaxPolls` of `PollEngine` bounds the polls the timer issues. Two polls are needed for a late
  answer to meet the next request, three for that request's flag to be lost and
  a further one to be sent, four in the run on second requests.
* `MaxRetry` 1 has a retried and an exhausted time-out; 0 has only exhausted ones.
* `OnTime` TRUE keeps the timer from running ahead of the threads it wakes. It is
  an assumption on the load (the request loop of one interval is done before
  the cutoff comes); the properties that need it are checked in
  runs that say so, the others without it.
* `ResendRefused` lets the stack refuse a resubmission; every polling run
  allows it.
* One point: the threads hold one point at a time, and no step touches two points. The
  theorems hold for any number.
* `timer_wheel` has sets of one interval, of intervals that divide each other,
  that share only a factor, that are coprime, and the deployed 1 s and 5 s. Its
  state space is finite without a bound: the wheel is periodic.
* `MaxLosses`, `MaxFails`, `MaxIntLosses`, `MaxMsgs`, `MaxRebirths` bound the disturbances of
  the two connections, the messages and the commands. Three losses let the
  monitor meet a wake-up left by the first one in the wait for the second, and
  recover in the third. `node` would be too large with all bounds at once, so each of its
  scenarios (`Scenarios` of `MCSparkplugNode`) allows its share of them, from the
  start of the program or from a node in service, a state that the start-up
  leads to: any two kinds of disturbance meet in one of them, together with a
  message where the messages are not the point themselves.
* `Numbers` 2 wraps at every other message; a number that is not reset or skipped
  is seen within a scenario.
* One value of two, and one vendor device: a device's status does not depend on
  another's. Two devices are there for the loops of the threads.
* `NTx` 2 with three commands: the counter wraps and meets a TxID in use, by an entry,
  by a submission, or by a response in a queue. Two operations are two
  listeners and two response threads on the shared map; two more would be copies.
* `Messages` has one message for each way through the parser; the
  write without a value and the unknown topic share one, as a read needs no value.
* `Half` 2, bytes of two bits, has carries between bytes, signs and all byte orders of one to four
  registers; `Hundred` 2 has both sides of a rounding. The device data are the ends of
  the ranges and values whose bytes all differ.
* `MaxPolls` 2 of `ControlLoop`: a poll that arrives while the previous write is awaited;
  with both polls the same one delivered twice as a case. `MaxResp` bounds only the
  responses that wait at one time: late, repeated and foreign ones arrive one after
  the other.
* `MaxCommands` 2 lets two commands of one topic or of two queues meet, the first of
  them at any step of `postMsgsToEII`; `MaxFailures` 1 fails one publisher or publication.

### Fairness

`FairSpec` of `PollEngine` has weak fairness of each of the three threads, of the timer, and of
the stack's answers. The threads block on nothing but their semaphores
(mutexes are held for a few statements and never nested), the stack answers
every accepted request, at the latest with a time-out error. `OnDemand` is fair
in the same way to its listeners, response threads and the stack, as long as the
process is alive. `FairSpec` of `IntMqttMonitor` has weak fairness of the
library's callbacks and of the two threads, whose waits are on semaphores and
one of them timed; none of the connection, which may stay down. `ControlLoop` and
`Bridge` are fair to their threads, each of which waits for nothing but its
semaphore or, in `Bridge`, its socket; not to messages, connections or failures. No
strong fairness is assumed anywhere.

`SparkplugNode` and `PointValue` state only safety. The runs `node`, `on_demand`, `control_loop`
and `bridge` do not check for deadlock, as a behaviour ends when its bounds are used up
or the program has stopped.

## 4. Theorems

Assumptions are those of the constants, named in each module (`PointsOfAssumption`,
`OnDemandAssumption`, `ValuesAssumption`, ...); the bounds are any natural numbers and the sets of points, commands,
loops and operations any sets, finite or not. In all proofs a step lemma has a case
for each action; lemmas with names in `Same` or `Frame` say what a group of actions leaves alone.

`PollEngine_proofs`:

| Theorem | Property | Argument |
|---|---|---|
| `TypeCorrect` | `TypeOK` | alone it is not inductive: popping needs a queue that is not empty |
| `SemaphoresCorrect` | `SemaphoreCountsQueue` | with `TypeOK` it is inductive (`IInv`): each push posts, each pop follows a wait |
| `AwaitCorrect` | `AwaitBacked` | strengthened by `RefusedNotAwaited`: when the error branch of `initiateRequest` removes the entry, it has reset the flag before |
| `TxIdCorrect` | `TxIdBacked` | an entry is created together with a submission or its error branch (`Sending`), and then moves from the stack to the queue to the response thread, which removes it, sends it back or loses it |
| `FlightCorrect` | | for a point not in `overlap`: one response under way at most, with the stack, queued once or in hand (`Once`), of the poll that the request data stand for (`OwnPoll`), awaited and with an entry (`Awaited`), and none while the request thread makes a request (`Alone`). That a request begins only without one is what the code gets from the await flag, and `Seen` is its memory between the test and the request: a step that breaks it puts the point in `overlap` |
| `SecondRequestCorrect` | `NoSecondRequest` | `Alone` |
| `LateAnswersCorrect` | `LateAnswers` | `Awaited` and `OwnPoll` for the entry and the polling time; for the retries, `resent` and what is left in the request data add up to `MaxRetry` while a response is under way (`Budget`) |
| `OrderCorrect` | | the events of an interval wait in the order of its polls, all later than what its points stand for (`QueueOrder`, `PollOrder`), and the last good value is of no later poll (`LastGoodInv`) |
| `LastGoodCorrect` | `LastGoodAdvances` | the value stored is that of `pollOf` (`FlightInv`), which only grows (`OrderInv`) |
| `SilentCorrect` | `SilentOnlyIfOverlap` | `posted` is set only when a message for the poll was given to the bus, taken or not, and reset with `reported` when a request begins, unless a response is in hand (`Reported`); the request and the cutoff thread are never both at work (`InTurn`). It assumes `OnTime`: otherwise the cutoff of one poll may meet the request of the next |

`PollTimer_proofs`:

| Theorem | Property | Argument |
|---|---|---|
| `TypeCorrect` | `TypeOK` | the tick divides every interval and cutoff (`TickDivides`), and so the counter hits the longest interval; entries are put within the wheel (`NextPlaces`) |
| `WheelCorrect` | `WheelOnTime` | an interval has one poll on the wheel, as far ahead of the counter as is left of the interval (`PollWaits`), and one cutoff as long as one is due (`CutoffWaits`). Places are multiples of the tick, so that the counter never steps over one (`MultiplesGap`, `WheelTurns`). It assumes `NoOverflow`: no tick exceeds what 32 bits of nanoseconds hold, which is so when some interval is at most 4294 ms (`NoOverflowIfShort`); `timer_long_tick` shows what happens otherwise |

`TickDivides` is about computed data, by induction: on the first argument of `gcd` and on the
number of intervals folded. The induction theorems of the library take an operator
as a parameter, which the provers cannot instantiate; `Induction` states the same of a set, and
follows from the library's theorems on well-founded relations. That the recursive functions
exist at all (`GcdEquation`, `RoundsExist`) is part of the proof. `gcd` is written with one argument
at a time because the provers have no functions of two arguments.

`IntMqttMonitor_proofs`:

| Theorem | Property | Argument |
|---|---|---|
| `LinkCorrect` | `LinkSpec` | each step is a step of `IntLink` or a stutter (`LinkStep`). It needs `Order`: the callbacks to come tell a possible history of the connection, losses follow connections and failed attempts do not, and they continue the last status; otherwise a failed attempt could count as a loss |
| `TypeCorrect` | `TypeOK` | the bounds of the semaphores are what `IntLink` counts: connections and losses signalled, or still to be (`Counted`); for the wake-up of the monitor a count of its own (`Woken`) |

`OnDemand_proofs`:

| Theorem | Property | Argument |
|---|---|---|
| `TypeCorrect` | `TypeOK` | with typed queues it is inductive (`TInv`) |
| `OwnDataCorrect` | `OwnData` | a command that holds a number is at one place at a time: listener, stack, queue or response thread (`UInv`); two commands with one number, or an entry that another command finds, are both in `reused` (`NInv`); entries are kept until the answer (`KInv`), so that it finds its own |
| `EntryBackedCorrect` | `EntryBacked` | each step that takes work from a number either passes it on, removes the entry or adds to `leaked` |
| `CrashNeedsReuseCorrect` | `CrashNeedsReuse` | a submitted command has a topic that is a path, and the response looks up its own entry unless reused |

`ControlLoop_proofs`:

| Theorem | Property | Argument |
|---|---|---|
| `TypeCorrect` | `TypeOK` | semaphores and queues (`TInv`) |
| `OneTrackedCorrect` | `OneTracked` | with the position of the loop's thread it is inductive (`OInv`) |
| `AnalysedOnceCorrect`, `OwnResponseCorrect`, `ReportsCorrect` | `ReportsAreRight` | the polls of a loop are in order through its queue, its thread and what is past (`QInv`); a poll that is tracked has no report yet, and a thread reports what it takes out (`RInv`); the key of an entry is the number of its poll (`MInv`) |
| `WritesInOrderCorrect` | `WritesInOrder` | what is written, waits to be written or is about to be, is in the order of the polls (`WInv`) |

`Bridge_proofs`:

| Theorem | Property | Argument |
|---|---|---|
| `TypeCorrect` | `TypeOK` | each semaphore counts its queue; the replies of a topic are no more than all that arrived |
| `OnePublisherCorrect` | `OnePublisher` | a publisher that is being made has a topic of the thread's own queue (`PInv`) |
| `InOrderCorrect` | `InOrder` | published, at hand, queued: rising in each queue (`OInv`) |

`SparkplugNode_proofs`:

| Theorem | Property | Argument |
|---|---|---|
| `InSequenceCorrect` | `InSequence`, in `HostCanFollow` | each publication counts once, with a connection on both sides; a host with an NBIRTH has a connection (`Numbered`) |
| `OnlineBornCorrect` | `OnlineBorn` | a birth process that is owed has a connection still to be reported, a post, or a thread about to post (`Owed`); the NBIRTH composed or heard has the present `bdSeq` unless such a birth process follows (`Born`, `Current`), for which the reports to come must be those of a connection in order (`Links`); a UDT that the host lacks is in a message, crossed, or before a birth process (`Told`) |
| `TypeCorrect` | `TypeOK` | `TInv`: the four forms a message takes on its way (`Message`), what a busy thread holds (`Busy`), and counters that add up: `bdSeq` and the "disconnected" callbacks still to come against losses and failures, posts and signals still owed against losses of the internal broker (`Counted`) |
| `HostCanFollowCorrect` | `HostCanFollow` | `InSequence`, and `HInv` for DDATA |
| `HostAgreesCorrect` | `HostAgrees` | `HInv`, when nothing is owed any more |

`HInv` says that a device two threads deal with is in `crossed`, and of every other device what is
true of it in the middle of things (`DevInv`): the published status is what the host was told unless
a thread has sent and not yet noted it (`StatusTold`); the host has the value unless a message about the device
is at work (`ValueTold`); a device known to be down is published as such or has its DDEATH to come
(`DeathTold`); one not known to be down is published, or a birth process, the est thread or a message
still owes its DBIRTH (`BirthTold`, `VendorTold`); and each of the four threads that may be at the device holds what
it is about to send (`BirthRight`, `EstRight`, `LostRight`, `MsgRight`). None of these is inductive
without the others: what one thread owes is what another relies on.

`PointValue_proofs`:

| Theorem | Property | Argument |
|---|---|---|
| `TypeCorrect` | `TypeOK` | `IInv`: registers are bytes and as many as the point has, what is published is a scaled form of what they hold (`PublishedInv`), and they hold what the last executed command was made into (`DoneInv`). Whatever `Cast` chooses, `InRange` comes after it, and `Envelope` takes the range of an unsigned point of eight bytes to that of a signed one (`PublishedType`) |
| `PublishedCorrect` | `PublishedIsRight` | the bytes of the swapped registers, as one number, are the sum of the registers by their significance (`DeviceNumber`, for one, two and four registers: no other width has a number), in each of the four orders (`SourceOfPair`); then truncation, rounding and clamping of fractions (`TruncIs`, `RoundIs`), and the envelope (`EnvelopeIs`) |
| `ReadsBackCorrect` | `ReadsBack` | where a byte goes in a command is the inverse of where it comes from in a response, for any even number of bytes (`OrdersInverse`, `SwapBack`); a coil is accepted only in the order that the device wants (`CoilBack`); the digits of a number give the number again (`HexReadsBack`, `IntegerBack`); dividing by a scale factor and multiplying with it loses less than one step of each (`ThereAndBack`) |

They hold for every width of a byte: powers of `Base` are never computed, only compared. Powers (`Pow`) and
numbers of bytes (`Unsigned`) are recursive functions; their lemmas are by `Induction`, as in `PollTimer_proofs`.

Only model-checked: liveness (the runs' temporal properties), which these provers have no rules for. Every safety property
and every action property of a passing run is a theorem.

## 5. Where code and comments part

Runs that end in a violation:

* `poll_second_request`: `postResponseJSON` resets the await flag, then publishes, then
  sets the posted flag. If the next poll begins in between, the reset
  hits the new request; a later poll then sends a second request while one is with the
  stack (`PeriodicRead.cpp` 586-590, 1641).
* `timer_long_tick`: `interval*1000*1000` in `uint32_t` wraps for ticks beyond 4294 ms,
  which a single interval of 50 s with the deployed cutoff of 90% already
  gives; the timer then runs fast (2571-2591).
* `values_coil`: a coil is to be written as 0xFF00, but a point configured to swap its
  bytes swaps those as well, to 0x00FF (`ModbusOnDemandHandler.cpp` 832-874).

More of them are stated in the modules, without a run of their own; any of these, as the
only property of the module's configuration, is violated:

* `CutoffReportsPoll` (`PollEngine`, `PollOnTime.cfg`): the publication of a response, or of a dummy one, fails,
  which is only logged, and the request is marked as posted all the same (`PeriodicRead.cpp`
  484-487, 557-561, 592-596). Its cutoff passes over the poll as "Response posted. No action in cutoff"
  (1834), although nothing was published for it. With no failure at all, the crossing of
  `poll_second_request` does the same: the new poll gets its posted flag from the old response (588-595).
* `UnsignedIsUnsigned` (`PointValue`, `Values.cfg`): `setScaledValue` computes an `unsigned long long` for an
  unsigned point of eight bytes ("It represents uint64_t") and puts it into an envelope that holds an
  `int64_t` (1305-1330): 2^63 and above are published as negative numbers.
* `LossReported` (`IntMqttMonitor`, `MonitorLink.cfg`): the success thread tests the connection and the time-out state and
  then posts the monitor's wake-up. If the connection is lost, or the time-out
  ends, in between, the post ends the wait of a later loss at once, and that loss
  is never signalled: the devices stay alive for the SCADA host
  (`InternalMQTTSubscriber.cpp` 248-276, 322-334).
* `InitMeansBorn` (`SparkplugNode`, `Node.cfg`): the birth thread marks the node as initialised even if the
  connection was lost meanwhile. On the next connection messages of devices pass
  the test for it before the NBIRTH (`SCADAHandler.cpp` 138, 598, 758).
* `EntryIsOwn` (`OnDemand`, `OnDemand.cfg`): `insert()` keeps the entry of an older command with the same
  TxID, so that a response is built, and a retry sent, from the data of the older command
  (`Common.cpp` 168).
* `CommonContextStays` (`Bridge`, `Bridge.cfg`): the error path of `prepareContext` destroys the context that all
  publishers share, while `g_pubCtxCfg` keeps its address (`ZmqHandler.cpp` 226).

What else the models show, none of which a document of the repository rules out:

* the death of a device is dropped as the node is not initialised; its published
  status stays up, so its next value goes out as DDATA of a device that the
  host does not know; a value dropped after the DBIRTH of its device was composed
  leaves the host with the old one; a DBIRTH composed by one thread is published after a
  newer one of another; a UDT definition is dropped during the birth process, and ignored
  as present when it is sent again (`SparkplugNode` without `crossed`);
* a command that names an unknown point, or that the stack refuses, leaves its entry in the map and is
  not answered; a write without a value is dropped without a log entry; a response that cannot be prepared
  leaves its entry too (`leaked`), and one that the bus does not take is logged and gone;
* a scaled number outside the range of the type it is converted to is undefined behaviour in
  `setScaledValue`; a product within the wider type is cut off at the ends of the point's type;
* a response that comes after its poll was reported as `WrRespNotRcvd` is dropped, and a write
  may still be published after its poll was reported so;
* a command with a nested value passes the test of `msgRcvd`, costs its topic a
  publisher, and is then dropped; an MQTT publication without a connection is lost without an error;
* a reply topic whose subscriber cannot be made ends the program at `getCTX().at`.

## 6. Not modelled

Of the polling engine: `g_stopThread` and the end of the process, failed memory
allocation (but for that of a response's JSON, which is a response that cannot be prepared), the contexts of the
message bus, the contents of a response's JSON, more than 65535 points (roll
numbers wrap), the order of the entries of one counter value, cutoffs of 100% or
more and intervals of 1 ms, which have no cutoff before the next poll.

The request, the cutoff and the response threads of modbus-master all publish by `postResponseJSON`, which
calls `prepareContext` for the topic at hand (`PeriodicRead.cpp` 459). Two of them may come to one
topic at a time, and the test of `prepareContext` (`ZmqHandler.cpp` 163) and its insertion are
separate, with `isTopicUnique` between them, which says yes to every topic (594-616): two publishers of
one topic may be made there. `OnePublisher` is
proved of the bridge only, whose threads have disjoint topics; here the effect is in the model
only as a publication that fails.

Of on-demand commands: the contents of JSON and topics beyond what the parser tells apart, the
priorities of threads, the end of the process. Of values: rounding errors, infinities and
NaN of `double`, and locale.

Of kpi-tactic: the direct access to the message bus with `UWC_HIGH_PERFORMANCE_PROCESSOR`, in which
several writer threads could create one publisher twice; a response whose number names an unknown loop, for
which `operator[]` adds to the map of maps without its lock (`ControlLoopHandler.hpp` 288-345);
the contents of the log.

Of the bridge: topics and JSON character by character, the library under the message bus, `g_shouldStop`
(nothing sets it), reading the publisher map without its lock while another thread inserts
(a data race of the standard library's map).

Of the sparkplug-bridge: commands for devices (DCMD), the will message, several
metrics of a device, their types and properties (`Metric.cpp`), the names of topics, `START_BIRTH_PROCESS`,
the queues before its threads (the same `CQueueHandler` as in `Bridge`), exceptions.

Network information (`NetworkInfo.cpp`), configuration, environment and logging run once at the
start and keep no state that changes; the vendor applications are samples. They
are listed with status `not_modelled`.

## 7. Plan

Done: `PollEngine`, `PollTimer`, `IntLink`, `IntMqttMonitor`, `SparkplugNode`, `OnDemand`, `PointValue`,
`ControlLoop`, `Bridge`, with the theorems of section 4.

What is left, in this order:

1. DCMD: commands of the SCADA host to devices, and metrics of a device one by one.
2. `PollPromise`, the abstract promise of the engine (each poll of a point is
   answered by at least one message, at most one request outstanding), and
   `PollEngine` shown to implement it where no overlap happens.
3. Roll numbers and their uniqueness (`NetworkInfo`).
4. The message-bus variant of kpi-tactic.
5. Liveness of `SparkplugNode`: a connection that lasts leads to an NBIRTH.

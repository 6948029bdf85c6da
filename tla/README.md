# Raven runtime: specifications and proofs

TLA+ models of the ESP32 runtime in `src/`, the TLC runs that check them on
small instances, and TLAPS proofs of what matters most for every instance.

## 1. The system

Raven is a set of FreeRTOS tasks that talk through bounded queues, one event
loop and a little shared state.

| component | state it keeps | operations | talks to |
| --- | --- | --- | --- |
| `BaseTask` | queue handle, task handle, tick interval, time of the last tick | `start`, `post_message`, `set_tick_interval`, run loop | its posters, through the queue; the heap, for payload copies |
| `NavigationActivity` | `state_`: Idle, Working, Manual | START, HALT, MOVE_FORWARD, MOVE_DONE handlers, `on_tick`, callback `on_nav_event` | posts to `NavigationService`; subscribed to the event bus |
| `NavigationService` | none of its own; writes `NavigationState::x` | MOVE_FORWARD handler | posts the completion event |
| `EventBus` | the ESP-IDF default event loop: queue, handlers | `init`, `post`, `subscribe`, `unsubscribe` | runs callbacks on its own task, Wi-Fi's included |
| `PilotInputService` | none; writes the joystick snapshot | JOYSTICK_INPUT handler | fed by the gateway |
| `NavigationState` | position (atomics), joystick snapshot (mutex) | `set_joystick`, `get_joystick`, loads and stores | services write, activities read |
| `NetworkGateway` | routes, decoders, task handle, stop flag; the session and the frame in hand inside `run()` | `start`, `stop`, registration, accept/read/decode/post loop | TCP clients; posts to tasks |
| `TcpServer`, `TcpSessionLink` | a socket each | start, stop, accept; read, write, close | lwIP |
| `NetworkClientGateway`, encoders, `TcpClientLink` | registry, frame buffer, a socket | message handler with lazy connection | a remote server |
| `SystemMonitorTask` | task handle, stop flag, watched queues | start, stop, watch_queue, loop | logs only |
| `app_main`, Wi-Fi handler | event group, retry counter | boot order, reconnection | everything |

What makes it hard: posts wait without limit by default, so a full queue stops
the poster, and the posters include the system event loop and the gateway;
payloads change owner between tasks; the byte stream of TCP has no frames; modes
and ticks have to follow messages that arrive in any order; `stop()` functions
delete tasks wherever they are.

What each part has to get right:

* `BaseTask`: a message accepted is handled once, in order, with the content it
  had when it was posted; a payload buffer has one owner; a post returns.
* `NavigationActivity` with service and event bus: one move at a time, executed
  once and before it is reported; Manual ends by HALT only; polling exactly in
  Manual; no circle of waiting tasks.
* `NetworkGateway`: each frame is read from its first byte; valid routed frames
  get to the right task, in order, once, unchanged, and a connection that holds loses
  none but for want of memory; the session of a client that has closed ends.
* `NavigationState`: readers see a triple some writer wrote, never a mixture.
* `NetworkClientGateway`: whole frames only; a lost connection loses whole
  messages, and once the network is good no more of them.
* start/stop pairs: no task deleted twice, no socket left open.
* Wi-Fi: within the retry limit the device gets back on line; boot starts tasks
  before anyone posts to them.

## 2. Modules

| module | role |
| --- | --- |
| `Mailbox` | abstract: posters offer contents, a bounded box, one handler |
| `BaseTask` | `post_message` and the run loop, down to buffers and pointers; implements `Mailbox` |
| `MoveCycle` | abstract: the mode and the progress of a move |
| `Navigation` | activity, service, event loop and command sources; implements `MoveCycle` |
| `LatestValue` | abstract: one value that only moves on, and readers that get it whole |
| `PilotInput` | queue, handler, snapshot and readers of joystick input; implements `LatestValue` |
| `FrameFormat` | the cells a frame is made of; streams that are cut in step, and the complete frames in them; used by both gateways |
| `FrameChannel` | abstract: lines of frames, one peer served, bounded inboxes |
| `NetworkGateway` | connections as streams of cells, and `run()`; implements `FrameChannel` |
| `OutboundLine` | abstract: messages in order, each put as one whole frame at most once, or lost |
| `ClientGateway` | encoding, lazy connection, `TcpClientLink`; implements `OutboundLine` |
| `Registry` | the tables of decoders, encoders and routes |
| `Boot` | the Wi-Fi event handler and `app_main()` |
| `TickLoop` | the timing of `BaseTask::run()`: waits and ticks against a counter that wraps around |
| `Console` | composes `PilotInput` with the connection before it and the activity behind it |
| `GatewayLifecycle` | `start`, `stop` and `run` of the gateway and its `TcpServer` |
| `MonitorLifecycle` | `start`, `stop` and `run` of the monitor |
| `Runtime` | composes `Registry`, `GatewayLifecycle` and `MonitorLifecycle` under one coordinating task |
| `FrameLemmas` | what keeps a stream of cells in step, and which frames are complete in it; used by the proofs of both gateways |
| `NavigationProofs`, `BaseTaskProofs` (with `TickLoop`), `PilotInputProofs` (with `Console`), `ClientGatewayProofs`, `NetworkGatewayProofs`, `RuntimeProofs`, `BootProofs` | theorems |
| `MCNetworkGateway`, `MCClientGateway` | frames, tables and messages for TLC; the other modules take their constants from the .cfg alone |

Definitions whose comment begins with "Fault variant" take no part in any
specification: they are plausible bugs, kept to show that the properties notice
them. Put in the place of the definition after them, each makes the property
that PROJECT.json names fail.

### Navigation

A task is a process with a program counter. A handler is one action up to the
point where it may block. `actPc`: `boot` before `on_start`, `wait` in
`xQueueReceive`, `post` in the post to the service inside
`handle_move_forward`, `check` after a message and `due` after a time-out, at
the test for a tick. `svcPc = "publish"` is the service in `EventBus::post`;
`loopPc = "deliver"` is the event loop task in `on_nav_event`. Sources of
commands are tasks that are either idle or in a post (`pending`). Wi-Fi events
share the loop's queue. `OnStart` leaves the subscription to chance because the
code ignores its result. `x` counts unit steps and stops at `XMax`, as a float
does at 2^24: from there on moves are reported done without moving. Whether a
tick is due after a message is left open, since the module has no clock.

### BaseTask

Heap buffers and the posters' own payload objects are addresses of one memory.
A post is a call, the copy (or its failure), and the send (or its time-out). A
poster may change its payload object as soon as it calls again, and freed
buffers are reused, so a shared or stale pointer would show in what the handler
sees. The refinement mapping reads every queued pointer through the memory.

### TickLoop

The same `run()` with a clock and without contents: `posted` is the number of
messages in the queue. `clock` and `last` are values of `TickType_t`, `Elapsed` is their
unsigned difference and `age` is the true one, which no action reads. `wait` is
the argument of `xQueueReceive`, counted down while the task is blocked. Ticks of
the clock that pass at any other place of an iteration - before and after the
clock is read, in `handle_message()`, in `on_tick()`, while the task is ready and
others run - are counted in `busy` and bounded by `MaxBusy`.

### PilotInput

Inputs are numbered in the order of their posts and each field of a snapshot is
the number of the input it comes from. Writer and readers take the mutex, touch
the fields one at a time in any order, and give the mutex back. The value of
`LatestValue` changes at the moment the writer gets the mutex; a read happens at
the moment the reader lets it go.

### Console

What a client does on one connection, from its frames to what the activity does
about them. The gateway is the channel that `NetworkGateway` implements (`line`,
with the frame in hand), a move is the cycle that `Navigation` implements
(`moving`: a MOVE_DONE will come), ticking is the same as Manual mode
(`TickingIffManual`) and comes round under any load (`NeverLate` in `TickLoop`).
`RouteInput` and `RouteCommand` are the two routes of `gateway_bootstrap.cpp`, and
`Access` is the rest of `PilotInput`. `reliable` remembers whether a connection was
lost or memory ran short, the only ways a frame of a console gets lost: none of its
frames is too large for the gateway.

### NetworkGateway

A frame is a cell for the msg_id, a cell for payload_size and one per payload
byte. A client writes frames in pieces, and may break off anywhere (`Break`), losing
any end of what is under way. What the stack knows of it is another matter: `ended`
holds the connections whose FIN or RST has come (`ReportEnd`), and only of these does
`recv` ever return an end; nothing is sent to a client and no keepalive is set, so
one that dropped out in silence keeps `recv` waiting. `recv` returns any number of arrived cells up to what
is asked. `hdr` and `payload` are `header` and `rx_buffer`; ids and sizes are
taken from whatever cells are there, as the code takes them from whatever bytes
are there. `HasDecoder`, `Decodes` and `HasRoute` are decoder lookup, `decode`
and route lookup; `Valid` is all three. The kinds of cells (`"id"`, `"size"`,
`"byte"`) are what the sender meant and no action reads them: `Aligned`
compares them with where the receiver is. `short` is a heap without room for
another copy; it comes and goes, and only while it lasts may a frame be dropped.

`FrameChannel` has the same without bytes: `begun` are the frames of a peer on their
way, `line` those of them that are complete. Each way to lose a frame has its own
action with its own condition: `Break` (the peer's connection was open; the end of its
line goes), `Abandon` (it had broken before the peer was served), `Refuse` (the first
frame is larger than `rx_buffer`; the connection is closed with all behind it) and,
in `Move`, no memory. `Dismiss` ends the session of a broken connection when nothing
is left of its line, so a gateway that gives up a session with a frame still to read,
or one whose connection holds, does not implement it.

### ClientGateway

A connection is named by its socket. `pc` follows one message through
`handle_message()`: `socket`, `resolve` and `connect` inside `open()`, `send`
in `write()`. `far` holds the connections the remote end still has, so
`sock \notin far` is a link that counts as open and is dead. `send()` takes the
frame in pieces, as lwIP does while the window is small; to a dead connection
it goes on taking cells until it notices. A failed write may still have put the
whole frame on its way. Encoding itself is `Cells` of `FrameFormat`; an encoder whose
`encode()` fails is treated like a missing one, as the code does (`NoEncoder`).
`Recovers` is about the time after the last trouble with the network: from some
moment on no message with an encoder is given up (`Loses`), and as long as messages
wait they are taken.

### Registry

One module for three copies of the same code: `register_decoder`/`find`,
`register_encoder`/`find`, `register_route`/`find_route`. `result` is what the
last registration returned. All registration is done by `app_main` before the
gateways start (`StartedBeforeUse` in `Boot` says so for the routes), which is
why the gateway modules take the tables as constants.

### GatewayLifecycle, MonitorLifecycle, Runtime

One task (`ctl`) makes all calls, as `app_main` does, and every access of a call to
what `run()` also touches is a step of its own: the flag, the test of
`listen_sock_`, `close()`, the assignment of -1, `vTaskDelete`. The tasks they
control move in between, through `TcpServer::start()` and its own calls of
`TcpServer::stop()` as well. `port` is what has become of the socket that
`listen_sock_` names, `stray` that a number was closed that had been closed
before, `session` a session socket that is open, `served` that this gateway has
come as far as `accept()`. `vTaskDelete` on a task that has ended is a use of
freed memory: the controlling task is then `lost` and nothing more is said of it.
`SystemMonitorTask::stop()` may read `handle_` once or twice between test and use,
as the build likes: with two reads it can pass null, which deletes the caller
(`deleted`). `mTask` has an entry for each monitor task ever created.

### Boot

The station is off, idle, trying, linked to the access point, or online - or
refused, when `esp_wifi_connect()` returned an error, which the handler ignores: no
event comes of that call. The driver puts its events in the loop's queue and may have moved on by the time
the handler sees them: a station can be online and lost again before GOT_IP is
handled. `s_retry_num` and the event bits are as in the code; `attempts` is a
history variable, the tries since the station was last online. After
`WaitBits`, `StartNext` walks through `BootOrder`.

## 3. Runs

| run | instance | shows |
| --- | --- | --- |
| `navigation` | 2 commanders, queues of 4, 1, 2 | types; `OneMoveInFlight`, `TickingIffManual`, `MoveNeverBlocksActivity`, `ManualEndsByHalt`, `ImplementsMoveCycle`, `MoveCompletes`, `CallbackReturns` |
| `baseTask` | 2 posters, 2 buffers, queue of 2 | types; `OwnedOnce`, `ImplementsMailbox`, `CallReturns` |
| `tickLoop` | 8 values of the counter, intervals 2 and 4, up to 3 busy ticks | types and waits; `NeverEarly`, `NeverLate` |
| `console` | 2 numbered inputs, queues of 1, 2 frames under way | types; `ImplementsLatestValue`, `InputTakesEffect`, `HaltStops`, `HaltKept`, `StickFollowed` |
| `networkGateway` | 2 connections, 4 kinds of frame, memory that comes and goes | types and buffer bound; `InSync`, `ImplementsFrameChannel`, `SessionEnds` |
| `clientGateway` | 2 sockets, 2 addresses, 3 messages, queue of 2 | types; `InSync`, `SocketsAccounted`, `ImplementsOutboundLine`, `Recovers` |
| `boot` | the real retry limit of 10 | types; `GivesUpLate`, `StartedBeforeUse`, `BootEnds` |
| `runtime` | tables of 2 keys and 2 values, any number of gateway starts and stops, 2 monitor tasks | types; `FirstWins`, `GatewayQuiet`, `PortReleased`, `OneMonitor`, `MonitorReports` |
| `Navigation_callback`, `Navigation_unsubscribed`, `NetworkGateway_drop`, `Runtime_shutdown` | | violated: see section 6 |

Bounds, and why they are enough:

* Queues. What matters is empty, full, and two different things in it in some
  order, so 2 is enough; the service's queue is 1 to make the circle of blocking
  posts as tight as it gets, and the activity's is 4 so that
  START, HALT, MOVE_FORWARD and MOVE_DONE can be in it together.
* `XMax = 2` stands for 2^24: below, at, and the step between.
* Frames. The largest permitted payload is 2 cells; one frame is above it, so
  header and payload can both be split and both be mistaken for the other.
  `Window` is what may be under way on a connection, four cells on one and one on the
  other: more than a header but not all of the largest frame, so a stream holds the
  end of one frame and the start of the next, long frames are written and read in
  pieces, and something can wait on the connection not served. In `ClientGateway`
  `WireMax` is the room on each of its connections: five cells, so that one takes a whole
  frame and a part of the next.
* Two connections or sockets: the one in use and the one before or after it; a
  name is used again, so nothing is special about the second.
* `MaxInputs = 2` inputs, a queue of 1 and two frames on the line: an input in
  effect or being written, one waiting, and a command that waits behind one that
  finds no room. One reader, since one task calls `get_joystick()`. The proofs
  are for any numbers. `MaxAddrs = 2`: a failure before the last address and at it.
* `Modulus = 8`: the longest interval and the longest delay still fit into one
  turn of the counter, as the assumption of `TickLoop` asks of 2^32; with
  intervals of 2 and 4 and queues of 2 the counter wraps at every place of the loop.
* `MaxTasks = 2`: a monitor, and the one after it. The gateway needs no bound.
* Two buffers for two posters and the handler: a post can find the heap empty.

The system may stop in two runs: in `boot`, after app_main has returned and the
station has given up, and in `runtime` (and `Runtime_shutdown`), after a call
that deleted its caller or a task that had ended.

## 4. Fairness

Weak fairness on a task means that the scheduler runs it while it can go on:
FreeRTOS is preemptive and no task here spins. It is strong where a task waits
for something others keep taking away:

* `Publish`, `Deliver` (`Navigation`) and `Send` (`BaseTask`) wait for room in a
  queue that others fill too; a receive wakes the waiter of highest priority,
  the longest waiting first, so room again and again is enough.
* `Lock` (`PilotInput`): readers come ten times a second and hold the mutex for
  three copies.
* `RouteInput` and `RouteCommand`, `MoveDone`, `Take` (`Console`): the gateway and
  the event loop wait for room in queues others fill too; the activity comes back to
  its queue after every tick, and waits for the mutex of the snapshot no longer
  than `Lock` allows. `ManualTick` is weakly fair because of `NeverLate`.
* `SendFails` on a dead connection (`ClientGateway`): TCP retransmission gives up
  in the end, and a write to a connection the peer has reset fails.

A monitor task runs when it is ready, and `vTaskDelay` comes to an end
(`MonitorLifecycle`); nobody has to call `start()` or `stop()`, and nothing is
assumed of the gateway's tasks. `TickLoop` needs no fairness: its bounds are on
time, and what it assumes is `MaxBusy`.

Nothing is asked of commanders, network clients, readers, the access point, its
DHCP server, the network or the heap: they may stop at any point, for ever. What
properties say of such cases they say openly:

* `SessionEnds` is about connections whose end the stack has reported. Nothing makes
  `ReportEnd` happen, so a client lost in silence may keep the gateway for ever.
* `BootEnds` excepts the two states in which app_main waits and no event will come:
  associated without an address, and `esp_wifi_connect()` refused. The driver does
  report on each attempt that it makes (`Associate` or `Lose`).
* `GivesUpLate` speaks of a station at rest, not of a refused call.
* `Recovers` alone assumes, inside the property, that the network is good from some
  time on (`FairWeather`).

## 5. Proofs

The theorems hold for every value of the constants that satisfies the named
assumption of the module (`NavigationAssumption`, `BaseTaskAssumption` and so
on): queue lengths at least 1, special values outside the sets they are added
to. Every argument is an inductive invariant `IInv`, `Init => IInv`,
`IInv /\ [Next]_vars => IInv'`, then what follows from it.

* **Navigation** (`TypeCorrect`, `SingleMove`, `TickDiscipline`,
  `MovePostHasRoom`, `ManualExit`, `MoveCycleSimulation`). An accepted move is in
  one of six places: the activity's post, the service's queue, the service
  after the move, the event queue, the callback, the activity's queue. `IInv`
  says that at most one place is taken, once, only while the state is Working,
  and that one is taken while it is Working if the subscription succeeded. From
  it follows that the service's queue is empty whenever the activity posts, so
  that this post never waits, and that MOVE_DONE never meets Manual mode, which
  `handle_move_done()` does not test for.
* **BaseTask** (`TypeCorrect`, `Ownership`, `MailboxSimulation`). Every buffer is
  free, with one poster, in one place of the queue, or with the handler (`Dead`,
  `NoDangling`, `NoSharing`, `NoLeak`), and holds what was posted with it
  (`Faithful`). `OwnedOnce` is not inductive without `NoDangling`: a freed
  buffer still in the queue would be allocated a second time.
* **PilotInput and Console** (`TypeCorrect`, `LatestValueImplemented`, `HaltNeverLost`). `Exclusion`:
  who is in the section has the mutex. `Written` and `Copied`: fields already
  accessed are of the newest input. `Ordered`: inputs in the queue are newer than
  the one taken, in order. The refinement is proved in full, since `LatestValue`
  has no fairness. `ConsoleImplementsPilotInput` carries both to the composition.
  `HaltKept` is the safety half of `HaltStops`: on a connection that holds a HALT is
  on the line or in the activity's queue until Manual mode is over. It follows from
  the types alone, with what a message behind a HALT and a message taken before it
  leave of it (`HaltBehind`, `HaltBefore`); that the HALT arrives in the end is
  `HaltStops`, which stays with TLC.
* **TickLoop**, in `BaseTaskProofs` (`TickTypeCorrect`, `InTimeAlways`,
  `NotBeforeTime`). The counter is
  always the true time modulo its width, as long as that is less than one turn
  from `last_tick_time_`; the invariant says for each place of the loop how much
  of the interval is left at most, which gives `age <= interval + MaxBusy`, which
  keeps it below one turn.
* **Streams** (`FrameLemmas`). Two groups of facts, about any streams of cells and
  any frames. What keeps a stream in step: a prefix of one that is (`AlignedPrefix`: a
  connection breaks), what is left after its first frame (`AlignedDrop`: the receiver
  goes on), a whole frame where a header can follow (`AlignedExtend`). And what
  becomes of the complete frames `FramesIn`: the first leaves with the cells that are
  read (`FramesTaken`), a break leaves frames at the front (`FramesCut`,
  `FramesOfFront`), and the pieces of a frame add nothing before the last one, which
  adds this frame (`MidwayOn`). `Midway(s, u, f)` says that stream `s` ends in
  the cells of frame `f` already written and that `u` are the others. `FramesUpTo` is a
  recursive function on the number of cells; that it is one, its type and how it
  changes are shown with sets of numbers (`SetInduction`, from the library's `WFMin`),
  since the library's induction theorems take operators as parameters.
* **ClientGateway** (`TypeCorrect`, `EverySocketAccounted`, `FramesInSync`,
  `LineImplemented`). `Link` ties the socket and the addresses left to the place in
  the handler; without it not even the types are inductive, as a `connect()` without
  a socket would connect nothing. `Writing` adds that until there is a connection the
  frame in hand is whole, and that a name used again carries nothing. For the
  refinement `Carrying` adds that what a connection carries ends with the part of the
  frame in hand that `send()` has taken: without it a last piece could complete some
  other frame. `OutboundLine` has no fairness, so it is proved in full.
* **NetworkGateway** (`TypeCorrect`, `FramesInSync`, `ChannelSimulation`). `Place` says
  whose connection is read and what `hdr` and `payload` hold at each place of `run()`.
  The bound of the payload, `MaxPayload`, is inductive only with it: the size is
  tested once, in the header, and relied upon until the message is posted. `InSync` is
  not inductive by itself, since nothing in it says which frame a client is writing;
  `Flowing` does: the stream of every open connection ends where a header can
  follow, or `Midway` in a frame the client has the rest of. When `run()` goes on to
  the next header, the cells read are the first frame of the stream and
  `Message` is that frame (`FirstFrame`). So the first cells of a frame are `Begin`,
  the last ones `Finish` and those between a stutter (`WriteIsChannel`); a break cuts
  the end of the line (`BreakIsChannel`); `Ignore`, `CopyFails` and `Post` are the
  three ways `FrameChannel` moves on. A session is closed in two places. With a size
  above `MaxPayload` in the header the frame it belongs to has begun and is too
  large, so that is `Refuse` (`RefuseIsChannel`), unless a break has cut it off. When
  `recv` reports the end, the connection is not open, nothing is on the wire and the
  cells in hand are no whole frame: `begun` is empty and that is `Dismiss`
  (`ReadFailsIsChannel`). `SimulatesFrameChannel` is `ImplementsFrameChannel` without
  the fairness.
* **Runtime** (`TypeCorrect`, `FirstRegistrationWins`, `GatewayStopsForGood`,
  `PortGivenBack`, `OneMonitorAtMost`). Tables: keys are unique, so the search from
  the front finds the one entry whatever is appended. Gateway: before the first
  `stop()` the port follows the place of `run()` (`BeforeStop`); afterwards no task
  reaches `accept()` any more, so what `stop()` has done to the port of a gateway
  that had served stays done (`AfterServing`). Monitor: the handle `stop()` has
  tested is that of the task, or the task has left the loop (`MonitorInv`).
* **Boot** (`TypeCorrect`, `NoEarlySurrender`, `BootInOrder`): `Pending` lists the five contents
  the event queue can have with the state of the station for each; `Counted`
  relates attempts to the retry counter; `UsedUp` is the moment of giving up. Every part
  uses the event loop or parts before it in `BootOrder` (`UsesEarlier`).

Checked by TLC only: all liveness (`MoveCompletes`, `CallbackReturns`,
`CallReturns`, `InputTakesEffect`, `HaltStops`, `StickFollowed`,
`SessionEnds`, `Recovers`, `BootEnds`, `MonitorReports`) and the fairness part of
`MoveCycle`, `Mailbox` and `FrameChannel`, for which ENABLED would be needed: of these
three refinements the simulation of every step is proved. Every invariant and every
action property a passing run checks is stated by a theorem.

## 6. Where code and words disagree

* `Navigation_callback`: docs/architecture.md:107 wants callbacks to "forward to
  the owner task's queue and return immediately". `on_nav_event` posts with the
  default `portMAX_DELAY` and waits, on the system event loop task, while the
  activity's queue is full. `CallbackReturns` shows that it does return.
* `Navigation_unsubscribed`: `on_start` ignores the result of
  `EventBus::subscribe`. If it failed, the first move leaves the activity in
  Working for good, although project_map.json:165 describes the flow back to
  Idle without a condition.
* `Runtime_shutdown`: docs/architecture.md:84 asks for "a graceful shutdown path".
  `NetworkGateway::stop()` deletes the task wherever it is, in `recv()` as a rule;
  the `unique_ptr<ILink>` of `run()` is never destroyed, the session's socket stays
  open for good and the client is never told.
* `NetworkGateway_drop`: the comment at network_gateway.cpp:193 speaks of a full
  queue and dropping the message; the post has no time-out, so a full queue
  stops the gateway instead, for all targets. Only lack of memory drops.

Two more, which no run refutes:

* base_task.hpp:63 has `on_tick()` called "when the queue is idle". The code calls it
  after a message too, and has to: with the queue as a condition (`DueWhenIdle`)
  a stream of messages holds ticks back for ever, and `NeverLate` fails.
* navigation_service.cpp:27 says the position is moved "by one unit"; a float stops
  at 2^24 and moves are still reported done. `Navigation` models it.

## 7. Not modelled

* `~BaseTask`: all tasks are static objects and never destroyed. `~NetworkGateway`
  and `~SystemMonitorTask` are calls of `stop()`.
* Tasks other than one controlling the gateway and the monitor: no two tasks of
  the program call `start()` or `stop()`.
* A listening socket left behind by a `stop()` in the middle of
  `TcpServer::start()`: the steps are in `GatewayLifecycle`, but no property
  promises anything of them (`PortReleased` begins at the first `accept()`).
* `SystemMonitorTask::watch_queue`: called by nothing, so that the vector the
  reports go through is empty.
* `EventBus::unsubscribe`, `TcpClientLink::read`, `TcpSessionLink::write`: called
  by nothing.
* Wording of logs, the heap statistics of the monitor, NVS, netif and Wi-Fi
  driver configuration, a failed `ESP_ERROR_CHECK` (the chip restarts).
* The values of joystick fields: nothing computes with them; `on_tick` reads a
  snapshot and logs it.

## 8. Plan

1. Proofs: the safety halves of the liveness properties that have one, as `HaltKept`
   is that of `HaltStops`: what an accepted input, a move or a call on its way cannot
   become while it waits.
2. `ClientGateway` feeding `NetworkGateway`: two devices end to end, with
   `OutboundLine` and `FrameChannel` as the two halves of one channel.
3. If the program comes to stop and restart gateways: `GatewayLifecycle` with a
   `stop_requested_` that is reset and a task that is waited for.

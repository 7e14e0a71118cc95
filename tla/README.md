# Hibiki-DSP: specifications, model checking and proofs

Hibiki-DSP is a local audio engine for Windows: a hub that mixes sources into output groups, a
control plane through which a desktop client drives it, and several boundaries to other processes
and to the operating system (an ASIO driver inside a DAW, WASAPI endpoints, the system volume, VST3
workers, a browser extension, a virtual audio driver). This directory holds TLA+ specifications of
its stateful parts, the TLC configurations that check them on small instances, and TLAPS proofs.

Paths below are relative to the root of the repository; `hub` stands for `src/hub/src`.

- [1 Inventory](#1-inventory)
- [2 What makes it correct](#2-what-makes-it-correct)
- [3 Modules](#3-modules)
- [4 Runs, bounds and fairness](#4-runs-bounds-and-fairness)
- [5 Where code and documents differ](#5-where-code-and-documents-differ)
- [6 Proofs](#6-proofs)
- [7 What is not modelled](#7-what-is-not-modelled)
- [8 Plan](#8-plan)
- [9 How to run](#9-how-to-run)

## 1 Inventory

### Threads and processes

| Actor | Where | What it runs |
| --- | --- | --- |
| Host loop | `apps/engine-preview/engine_preview.cpp` | one thread: rebinds and polls the volume, drains the control queue into `EngineControlWorkerV1`, polls and drains the sessions, rebuilds the delivery graph every 100 ms, renders blocks, runs the worker lane, the tab bridge and the driver loopback, writes the volume back, publishes the status |
| Pipe worker | `hub/ipc_pipe.cpp` | accepts one client, decodes a frame, queues its command, answers |
| Client | `apps/control-model` (C#) | numbers its commands, keeps an offline queue, shows the state |
| WASAPI workers | `hub/windows_wasapi_output.cpp` | one thread per output: bind, play the queue, recover |
| Audio service | Windows | volume and session callbacks on threads of its own |
| ASIO host | `asio/src/native_asio_driver.cpp` | `bufferSwitch` of the DAW pushes blocks into a shared mapping |
| VST3 worker | `vst-host/src` | a supervised process per plug-in lane |
| Browser | `extensions/` | a page that captures a tab and pushes its audio over a local socket |
| Tab receiver | `extensions/native_bridge` | one thread that serves one connection at a time |
| Kernel | `driver/` | PortCls calls, a timer DPC, property handlers |

### Components

| Component | State | Operations | Talks to | Hard part |
| --- | --- | --- | --- | --- |
| Scene transaction (`hub/engine_control.cpp`, `hub/audio_engine.cpp`, `hub/scene_catalog.cpp`, `hub/scene_presets.cpp`) | active Scene; graph, IR, loudness PEQ, program-aware, calibration, each active and pending; crossfade; catalog; bank of groups | apply a Scene, edit the catalog, attach an IR or a calibration, roll back, notify a volume, rebuild for sessions, render | control queue, volume bank, sessions | four-part transaction with a failure at every step; attachments that outlive the graph they were prepared for |
| ASIO ring (`sdk/src/asio_transport_v1.c`, `hub/asio_transport_consumer.cpp`, `asio/src/native_asio_driver.cpp`) | two sequence numbers that wrap, slots with their own | create, format, open, push, pop, close | two processes through a mapping | interleaving of loads and stores, death of either side, wrap-around |
| Volume link (`hub/windows_volume_broker.cpp`, `hub/windows_volume_link.cpp`, `hub/volume_state.cpp`) | seqlock cell, generations, last state, retry time | OnNotify, poll, read, write, rebind, apply | Windows, client, engine | torn snapshots, feedback loops, three counters compared as one, two-call writes that fail half way |
| WASAPI output and handoff (`hub/windows_wasapi_output.cpp`, `hub/windows_wasapi_handoff.cpp`) | two workers with flags and queues, a fade, a handoff state | start, begin, prepare, process, commit, roll back, stop; bind, play, recover, end | devices, control thread, audio thread | joins while the joined thread recovers; a candidate that dies during a fade |
| Fan-out (`hub/output_fanout.cpp`, `hub/output_sink.cpp`, `hub/windows_wasapi_fanout.cpp`) | a resampler and a drift estimate per sink; clock registers of three slots | prepare, process, request a clock, read a clock | WASAPI outputs, monitor | a block that only some sinks take; lock-free registers reused while they are read |
| Control plane (`hub/ipc_pipe.cpp`, `hub/control_queue.cpp`, `hub/control_service.cpp`, `hub/control_status.cpp`, `hub/control_payloads.cpp`) | pipe state, bounded queue, snapshot stores | accept, decode, enqueue, answer, drain, publish, stop | client, host loop | acknowledged is not applied; cancelled requests; full queue; stop against a blocked worker; 25 wire formats laid out by hand |
| Client (`apps/control-model`) | connection, pending Scene operations on disk, optimistic state | connect, send, flush, save | pipe | queue changes while a send is awaited; crash between send and save |
| Sessions (`hub/session_catalog.cpp`, `hub/windows_audio_session_watcher.cpp`, `hub/windows_audio_session_route.cpp`, `hub/session_route_rules.cpp`, `hub/session_command_queue.cpp`) | registry, rules, manual routes, catalogs with sequence numbers, retained controls | enumerate, notify, route, rule, set volume, follow the default device | Windows, client, delivery graph | commands built from a catalog that changed since; partial enumeration |
| Process loopback (`hub/windows_process_loopback.cpp`, `hub/process_loopback_plan.cpp`) | capture slots, capture thread, ring | plan, start, capture, fail, stop | Windows, delivery graph | captures that fail while the plan moves |
| Device catalog (`hub/device_catalog.cpp`, `hub/windows_device_catalog.cpp`, `hub/windows_device_watcher.cpp`) | watcher cell, endpoints with flow, format and availability, published snapshot | notify, poll, enumerate, publish | Windows, client | changes during an enumeration, dropped reports |
| Device coordinators (`hub/device_switch.cpp`, `hub/device_recovery.cpp`, `hub/output_handoff.cpp`) | a switch in progress, last event, crossfade | observe, begin, prepare, commit, roll back | nothing that runs | an event between begin and commit |
| VST3 tap and lane (`hub/vst3_lane_bridge.cpp`) | three snapshot slots, publication word, hazard slot; lane ring | publish, read, reset, prepare, push, pop | audio and control threads | reuse of a slot that is being read |
| VST3 sandbox (`vst-host/src/vst3_sandbox.cpp`, `vst3_worker_*.cpp`, `plugin_host.cpp`) | process, pipe, heartbeat, request identities, crash reports | launch, connect, exchange, watch, quarantine, stop | worker process, host loop | a failure in the middle of an exchange; what is recorded of it |
| Plug-in states (`vst-host/src/vst3_plugin_state.cpp`, `vst3_scene_state*.cpp`) | stored states, migration rules, bindings of Scenes | capture, restore, migrate, bind, preflight | Scenes | a preflight that says yes and a restore that says no |
| Driver transports (`sdk/src/driver_*`, `hub/driver_*_bridge.cpp`) | packet ring, packets | push, pop, encode, decode, apply a state | engine, kernel | as the ASIO ring; numbers across driver restarts |
| Virtual driver (`driver/src`, `driver/wdk`) | stream state, position, timer, events; pin ring; endpoint volume | allocate, set state, get position, DPC, free; submit, read; set volume, set mute | PortCls, hub | DPC against stop; a boundary crossed by a reader; wrap-around |
| Tab bridge (`extensions/offscreen.js`, `extensions/native_bridge`) | sockets, retry timer, ring, receiver thread | capture, connect, retry, send, accept, push, pop, stop | browser, host loop | late socket events; stop against a receiver that blocks |
| Scene safety, loudness and calibration policies, DSP kernels | floating-point state of one thread | process a block | engine | numeric |
| User interfaces, installer, tools | presentation, scripts | | client | none that is concurrent |

### Interactions

The client sends a frame, the pipe worker queues its command and acknowledges it, the host loop
drains the queue into `EngineControlWorkerV1::apply`, which prepares and commits on
`AudioEngineModel`; the same loop then calls `process_output_group` for every rendered group.
Volume notifications reach the engine by two ways, from Windows through broker and link, and from
the client through the queue; both end in `apply_windows_notification`. Session routes change the
engine's graph behind the back of Scenes (`rebuild_delivery_graph`) and start the captures that feed
it; commands about sessions name them by handle and catalog sequence. The worker lane copies the
last rendered block from the tap, has the sandboxed worker process it and pushes the answer into the
lane's ring. Rendered blocks go to a WASAPI worker's queue, directly, through a handoff, or to
several sinks. What goes on is told in status, catalogs and curves, which the pipe worker reads from
snapshot stores.

## 2 What makes it correct

- **Scenes.** A command leaves no half-open transaction; a Scene that fails changes nothing that is
  heard; what is attached belongs to the active Scene; a crossfade has both its ends, and goes on
  in a graph that fits it.
- **Rings** (ASIO, tab, driver packets, pin). Blocks arrive whole, in order, once; whatever dies, the
  other side goes on; the numbers may wrap.
- **Volume.** A snapshot is one notification and not a mixture; what came from Windows is never
  written back; each side ends up with the other's last word when only one of them speaks, but for the
  mute of a contended notification. The driver's volume: the newest state it handed over wins, whatever packets
  do, once it has counted past its earlier lives.
- **Handoff and fan-out.** No second device plays outside a handoff; the old one is stopped only after
  the fade; calls return. A block that one sink refuses changes none; no sink drifts by more than
  its clock explains; clocks are exchanged whole.
- **Control plane.** A command is applied once and in order, the client believes an acknowledgement
  only for its own command, stop returns, accepted commands are reached; no payload is misread.
- **Sessions.** A command reaches the session it named; no process is captured twice; manual routes
  survive refreshes; when things are quiet, every running session is listed and every process of the plan captured.
- **VST3.** No slot is written while it is copied; a successful read is the newest block, whole; blocks
  pushed into a lane are the worker's answers to them; crash reports and the shown route are true; a
  Scene that passes the preflight restores.
- **Devices.** Clients end up with the devices Windows has; the stream clock runs exactly while the
  stream does and no DPC touches a freed buffer; no call of PortCls waits for ever.

`PROJECT.json` lists the hazards behind these properties, each at the line where it bites, with the
properties that would fail; where a property does not reach all of it, a note says so.

## 3 Modules

The memory model is sequential consistency throughout: acquire and release accesses are steps in one
order. On x64, which the repository builds for, the relaxed loads inside the volume seqlock are not
reordered by the processor either.

Components that do not interact share a run: `MCEngine` (Scenes, volume, handoff), `MCControl`
(control plane, codecs), `MCVst3` (tap, lane, states), `MCStreams` (ASIO, tab, packet ring, loopback, fan-out)
and `MCDevices` (catalog, stream, pin, driver volume). Each has a variable `part` that is chosen at the
start and says which component a behaviour is about; the others keep their initial states. The
state space is the sum of the parts and not their product, and a property is about the part whose
variables it reads.

### SceneEngine

One variable per member of the worker and of the engine: `scene` is `active_scene_` with
`active_loudness_`, `graph`/`pGraph` are `active_graph_`/`pending_graph_`, and so on for `ir`,
`lou` (loudness PEQ), `aware` (program-aware), `calib`; `prev` and `fade` are
`previous_loudness_peq_` and `loudness_crossfade_`; `bank` the registered groups. An attachment is
the group and geometry it was prepared for, which is what decides whether a block renders.

`apply_scene` is the chain `BeginApply`, `PrepareGraph`, `PrepareIr`, `PrepareLoudness`,
`PrepareAware`, `CommitScene`, ordered by `pc`, with `RejectGraph` and `RejectLoudness` for the
failures the code can meet. The worker runs it in one go, so every other action needs
`pc = "idle"`; the steps exist to state what holds between them. The last two failure branches of
the code need a commit to fail after its prepare succeeded: `CommitsReady` says that it cannot.
`UpsertScene`, `RemoveScene`, `ClearScenes`, `RollbackGraph`, `AttachIr`, `AttachCalibration`,
`VolumeNotification` (whose loudness update commits a new PEQ) and `RebuildDelivery` are the other
commands; `RenderFade` is the part of rendering that changes state.

### AsioTransport and BlockFifo

`AsioTransport` takes push and pop apart into the loads and stores of `asio_transport_v1.c`:
`BeginPush` loads both numbers, `WriteSlot` and `FillSlot` are the start and the end of the copy,
`MarkReady` and `Publish` the two release stores; `BeginPop`, `CheckReady`, `CopySlot`,
`AdvanceConsumer` likewise. `DetachHost` is possible at every step (the DAW crashes), `UnbindEngine`
and the two ways to bind model the consumer; the mapping disappears with its last handle
(`Release`). `BlockFifo` is what the ring promises: a bounded queue that may be emptied when it is
made anew.

### VolumeLink

`windows` (`ep`, `def`, `notes`) is the operating system, modelled from the calls the code makes.
`Deliver`, `Claim`, `StoreMute`, `StoreContext`, `ReleaseCell` and `DropContended` are
`WindowsVolumeCallback::OnNotify` of each caller; `LoadSequence` to `Recheck` are `read`, with its
four attempts; `PollLevel`/`FailLevel` the rest of `poll`. `hpc` is the host loop: rebind, poll,
drain, write. The write keeps the old values (`SaveLevel`, `SaveMute`), sets level and mute as two
calls that may fail, and restores. The client numbers its commands with its own counter (`uiGen`)
and learns the engine's from status (`UiRefresh`). `origin` and `claimed` are history variables.

### WasapiHandoff

`thread[s]` is where the worker's thread is in `run()`: none, bind, up, recover, ending, returned.
`running`, `ready`, `degraded`, `stopping` are its atomic flags; `queue` holds the gain mark of each
block: `Full`, or the step of the fade it was scaled for. An owner's call that stops a worker is cut
at its joins: `Enter` stores `stop_requested`, `Join` waits for the thread, `…Ends` does what the
code does after the last join, so the threads move while the owner waits. `Process`, `FadeBlock`,
`CandidateRejects`, `ActiveRejects` are the branches of `process()`, and `result` its return value.
The calls come from one owner thread, as in the engine adapter and the live probe.

### Vst3Tap and SnapshotRegister

`publication` is the packed word (generation, slot, writing bit), `readerSlot` the hazard, `valid`
the flag. `LoadPublication`, `ChooseSlot`, `Mark`, `FillSamples`, `FillGroup`, `FillScalars`,
`Publish`, `Validate` are `publish()` in its order; `BeginRead`, `LoadToken`, `Announce`, `Recheck`,
`CopyScalars`, `CopyGroup`, `CopySamples`, `PostCheck`, `Release` are `read()`; `ResetPublication` and
`ResetValid` are `reset()`, called by a third party at any moment, as its comment about copies under
way supposes (today only tests call it). A slot's three parts each hold the block they were stored
for, so a mixture shows. The token accesses are sequentially consistent in the code as in the model.
Blocks that are refused for their shape or a sample that is not finite change nothing and have no
step; the room the reader offers always suffices, as in the host. `SnapshotRegister` is the promise:
a register that shows one block or none, is shown, hidden, and read at one moment.

### ClockSlots, OutputSink, OutputFanout

`ClockSlots` is the lock-free register of `output_fanout.cpp` (three slots, a token of generation,
slot and writing bit, one cell in which the reader announces its slot), each load and store a step;
`OutputFanout` has two per sink, for requests and for clocks. `process` is taken apart into the look
at a request, `ObserveClock`, `Processed` and the roll-back of all sinks (`NoRoom`). `OutputSink` keeps of
a sink the positions its resampler works at: places in quarters of a frame, a ratio that moves
towards its target by halves, and whether there is a history. With tokens that do not repeat
(`MaxCalls` is below the wrap) the announced slot is redundant, and the model knows one monitor
thread; a second one calling `snapshot()` clears the cell the first announced (SPEC-0007:143-150).
`OutputSinkModel::reset` leaves the source step where drift had moved it (`output_sink.cpp:338-344`),
as the model does. The filter reads as many as eight samples behind the end of a block as zeros; samples
are not in the model.

### ControlPlane, ControlSnapshots, ControlWire, PeripheralWire, WireCodec

`ControlPlane` has the pipe worker with a step per transfer (`Accept`, `ReadLength`, `IdleTimeout`,
`ReadFails`, `FrameFails`, `HandleFrame`, `PushRelease`, `WriteReply`), the host that starts it, drains the
queue (`PopCopy` and `PopRelease` are the two halves of a pop), refreshes the status and stops it (`RequestStop`
to `FinishStop`), and a client that writes length and frame separately, may be cancelled between them and in
front of the answer, and leaves. `accepted`, `applied`, `acked` are history.

`ControlWire` has an `encode_…` and a `decode_…` for each payload of the control plane, `ControlSnapshots` those of the
snapshots and their stores, `PeripheralWire` those of the driver's packets, the tab's packets, the
WebSocket frames and the worker protocol. A payload is a record: its size, whether reserved bytes
are zero, and the fields with their raw values; text is a count and a short array of bytes, decibels
are half quanta of the fixed-point format so that rounding shows, and NaN is a value of its own. `WireCodec`
sends one value through one format, possibly altered on the way. What the formats are lax about is
part of the definitions and listed at `LaxWriters` and `LaxReaders`: among others, a worker's frame
header is read without looking at its reserved word, a parameter frame shorter than its prefix passes the
header reader and is stopped by the parameter reader, an audio answer takes its sample count from
the header, a removal read from the wire cannot be encoded again (its lane count defaults to 1), and a
scene lane's makeup gain that is not a number is written as -144 dB. A text that goes out is `Copied` (the tail behind its
count is cleared), the entries of a list by `CopiedDevice`, `CopiedRoute`, `WrittenLane`; `ReadLane` is what a
lane is read as and `MeantLane` what a written one means to its reader. `Settled` marks the one place where rounding shows: `valid_volume`
allows the effective volume to be 0.05 dB above the requested one (`control_status.cpp:56-57`) and is asked before the rounding
to 1/65536 dB by the encoder and after it by the decoder, so a status at the edge of the tolerance (0 dB requested, 0.05 dB
effective) is encoded and then refused. The engine computes the effective volume as a minimum and does not come
there. `BeyondWriter` names the headers of the worker's pipe that its reader takes and its writer does not write.
The types of values (`ValueType`) and payloads (`WireType`) are infinite; `CodecAssumption` asks that the values tried and the
alterations made belong to them and that every text is tried unaltered. Bytes 391 to 447 of a scene lane and
bytes 4 to 14 of a rule removal, which the readers ignore, are not in the model.

### SessionRules and SessionRoutes

`SessionRules` has the rule store, matching, the registry and the loopback plan as operators.
`SessionRoutes` composes Windows (sessions that start, stop and expire, the default endpoint, creation
callbacks with a bounded list of retained controls), the watcher with its gate and sequence, the
coordinator (`make_session_catalog_snapshot`, rules, manual routes, degraded), the published catalog, clients
that send commands built from a catalog they read some time ago, the drain with its check of the
sequence (`Current`), and the capture slots that `sync_delivery_sources` fills and `Deliver` drives.
The host loop is `host.phase`; enumeration by Windows is assumed not to lag behind its callbacks.

### DeviceCatalog

`publish` of each Windows thread is the seqlock writer of the watcher, which drops a report that finds the
cell taken. `poll_and_refresh` takes the cell; `Collect`, `default_endpoint_id`, `GetState` and the rest
enumerate one call after the other, any of which may `Fail`; `Commit` and the store publish. Endpoints change
between any two steps. There are two flows, read one after the other (`DeviceAssumption`). `NoChangeIsLost` and
`CatalogIsSound` are the safety of the watcher and of the enumeration: a report that is dropped is dropped for one that
is `Coming`, and no order of changes gives an entry twice or a default that is not active.

### Vst3Sandbox and Vst3Lane

`Vst3Sandbox` is the process of a worker with its pipe and job, the exchange of requests with identities, heartbeat
and watchdog, `quarantine` and `record_crash_entry` with the slot that makes one event leave one entry. The worker
may answer rightly, with any of `Faults`, late, or never, and may die at any step. `Vst3Lane` adds the two users:
the turn of the host loop (launch, connect, Hello, block from the tap, answer into the ring, status),
and a client of the classes that makes their calls in any order, which is where stops, restarts and the watchdog are
exercised (the preview never polls the watchdog and never restarts a lane).

### PluginStates

Stored states by identity and version, migration rules, bindings of Scenes, with the store's limits.
`Restored` and `Preflight` are the two readings of the rules whose agreement is the property.

### TabBridge, DriverRing, PinRing, DriverVolume, WaveRtStream

`TabBridge`: the page with at most `MaxSockets` sockets, its retry timer and attempts; TCP as a queue per
socket; the receiver thread with accept, store of `client_socket_`, read, decode, push at the grain of its stores;
the host's pop and `stop()` with its two exchanges and its join. The popup shows its retry button only when the
attempts are exhausted; the model's `RetryNow` also allows it while a timer runs.

`DriverRing`: push and pop of `driver_stream_ring_v1.c` at the grain of loads and stores, for two
processes, and the loopback of the preview, which does both from one thread while Scenes change the layout.

`PinRing`: `submit` and `read` of a pin under its lock, frames named by the order in which they were accepted.

`DriverVolume`: property handlers, packets that may be lost, doubled and late, the hub that applies them. Nobody in the
repository carries these packets yet. After a restart of the driver its numbers begin again, and the hub refuses them
until they have caught up.

`WaveRtStream`: the calls of PortCls cut at the wait for the DPC, the DPC cut at its lock and its signals, the
interrupt time, rundown protection, and clients that register events and ask for the position. Time and
bytes have one unit. A pause keeps the position of the last update, so what was played since is not
counted.

## 4 Runs, bounds and fairness

| Run | States | Question |
| --- | --- | --- |
| `engine_safety` | 2,443,093 | Scenes, volume link and handoff: attachments, failed switches, echoes, whole snapshots, the spare output, the swap |
| `engine_liveness` | 439,049 | crossfades that fit the graph go on; volumes converge in either direction; calls on the handoff return |
| `control` | 421,164 | commands and answers, progress of both sides; all wire formats and the UTF-8 scanners |
| `vst3` | 290,672 | tap register, worker lane, crash reports, route status, preflight |
| `sessions` | 125,127 | commands against catalogs that changed, captures, manual routes, settling |
| `streams` | 250,219 | three rings and the loopback; the tab bridge with its sockets, retries and stop; whole clocks, refused blocks, pace of the sinks, requests that are heard |
| `devices` | 483,373 | catalog against notifications, stream clock and PortCls, pin ring, driver volume |
| `scene_switch_renders`, `volume_foreign_change`, `control_status_frozen`, `wavert_lost_notification`, `stale_catalog_command` | stop | section 5 |

Their properties, each stated in full where it is defined:

| Run | Property: what it says |
| --- | --- |
| `engine_safety` | `AttachmentsFollowScene`: loudness PEQ and program-aware controller are those of the active Scene. `CrossfadePairs`: a fade and its previous PEQ exist together and for one group. `FailedApplyKeepsConfig`: a Scene that fails changes nothing. `OnlyUiIsWritten`: no volume of Windows is written back. `SnapshotWhole`: a polled notification is one notification. `SpareParked`: the spare worker exists exactly during a handoff. `SwapAfterFade`: the swap comes after the whole fade and the join |
| `engine_liveness` | `CrossfadeAdvances`: a fade that stays at a block for ever is in a graph it does not fit (`FadeFits`: group rendered, not Strict Direct, both PEQs and the IR of its layout and rate). `EngineFollowsWindows`: while the client is silent and the endpoint stays, the engine ends up with its level, and with its mute unless the newest notification met another and was dropped. `WindowsFollowsUi`: while only the client speaks, the endpoint ends up with what it asked for. `CallsReturn` |
| `control` | `CommandsMatchAnswers`: applied once, in order, acknowledged only if queued. `ControlMakesProgress`: stop ends, accepted commands are reached. `FormatsAgree`: what one side writes the other reads, and nothing else is read. `ScannerMatchesStandard`: the scanners of text accept UTF-8 and no more |
| `vst3` | `HazardRespected`: no slot is written while it is copied. `ImplementsRegister`: tap and reader refine `SnapshotRegister`. `ReaderCatchesUp`. `CrashReportsAreTrue`: no event of a sandbox leaves two entries, and a worker that outlived its quarantine is in the reports (with a failing `stop` left out, section 5). `LaneCarriesAnswers`: what enters the lane answers the block that was read. `RouteShowsWorker`: a route shown as ready has a worker, a dead one is shown. `PreflightIsEnough`: what passes can be restored |
| `sessions` | `RouteReachesNamedSession`: a command acts on the session its client picked in the catalog it read. `AssignedLaneSurvives`: a new session moves no lane that is in use. `OneCapturePerLane`: no process is captured twice and no lane fed twice. `RoutingSettles`: once things are quiet the catalog lists every session that runs (perhaps ended ones too, section 5), and every process of the plan is captured, unless routing is unbound again and again |
| `streams` | `ImplementsFifo`: the ASIO ring refines `BlockFifo` (less what is counted as lost). `FullRingDrains`. `PacketRingsAreFifos`: so do the two other rings, and lose nothing. `OneLiveSocket`: no event of a replaced socket disowns its successor. `BridgeMakesProgress`: captures connect, stop returns. `WholeClocks`: a clock that is read is one publication. `RejectedBlockChangesNothing`: a block one sink refuses leaves all as they were. `SinkKeepsPace`: what went in came out, at the ratios in force, but for less than the history of the filter. `ObservationHeard`: the last observation is applied |
| `devices` | `CatalogCatchesUp`: clients end with the devices there are. `StreamClock`: clock, timer and DPC follow the state of the stream. `PortClsReturns`. `PinDeliversInOrder`: a pin gives back the accepted frames in order and whole, then silence. `LatestStateWins`: the newest state handed over is in force, once the driver has counted past its earlier lives |

Bounds and why they suffice:

- **Scenes.** Three groups and a bank of two make a full bank reachable; the five custom Scenes of
  `StereoScenes` are every way a switch can differ (label kept or changed, other group, no lane for
  the own group, Strict Direct, two new groups at once), besides the four built-in presets. Two
  rates tell a delivery rebuild from a Scene. `FadeBlocks` is 1 for safety and 2 where progress is
  the question. `FadingScenes`, for progress, are stereo and 5.1 under one label, Strict Direct, and a Scene without
  a lane for its group, at two rates: all ways in which a fade can come to stand are reached. `MixedScenes`, for
  `scene_switch_renders`, has stereo and 5.1 Scenes with and without loudness. No property relates more than two Scenes and their failure.
- **Volume.** `Budgets` bounds how often users, the client, failures and changes of the default
  endpoint occur. `Mixed` has one of each with two failures (a write and its restore, say) and,
  separately, three notifications around a rebind, for two callers at once; `OneSided` uses two
  levels of which one lies above the ceiling, and two callers as well, so that notifications are dropped between them. `Attempts` is 2 instead of 4: the retry is taken and
  exhausted. Endpoints and callers are interchangeable, hence the symmetry of the safety run.
- **Handoff.** Two layouts (a block that does not fit), queues of two blocks (a full queue), one
  attempt to recover (success, failure, and giving up), a fade of two blocks (of one where only the return of calls is asked).
- **Fan-out.** Two sinks, as one that is served before and one after a refusal; source steps below and at
  one frame, so that a block gives more frames than it has and just as many; targets on both sides of the nominal clock,
  half a frame off, which the clamp meets; two calls of the control thread, of which each may find the other's slot.
- **Control.** A queue of two commands, three requests, two starts of the server: an answer of an earlier
  request, a full queue and a stop with a command in hand all occur. Formats: each field at its bounds and one
  beyond, texts of three bytes that are good, empty, unprintable, malformed, with junk behind them or
  with a count beyond the field, and each written payload altered in one place. The scanner sees every
  sequence of up to three bytes from 19 classes, and four-byte sequences at the borders of their classes.
- **VST3.** Tap: three slots as in the code, three blocks, generations 1 and 2, so that they wrap. Lane: two requests, two
  launches, a ring of one and a half blocks, every wrong answer, time for one missed heartbeat; the
  termination inside a quarantine may fail. States: two identities and a broken one, a version to migrate from, two rules and
  two bindings, which is what an ambiguity needs.
- **Sessions.** Three sessions, two of one process image on two endpoints, two lanes and two rules that both match one session,
  one retained control, one failure until a capture is given up, three events of Windows and clients together.
- **Inputs.** ASIO: three slots and numbers modulo 6, so the ring fills, the numbers wrap, and slot index
  and number go out of step as they do with 2^32. Tab: two slots, four packets of which one has a foreign rate, two sockets, one retry.
  Driver packets: two slots, numbers modulo 4, two widths.
- **Devices.** Two render endpoints and one capture endpoint, two changes, one failing enumeration; a buffer of three
  units and a time of four, so that boundaries are passed once and a buffer wraps; eight calls of PortCls, enough for
  allocate, run, pause, run, stop, free and a second buffer; a pin of three frames; two generations of the driver's volume and one restart.

Fairness, only where the code's scheduling gives it:

- Scenes: weak fairness of a running `apply_scene`, which nothing suspends, and strong fairness of
  rendering: the loop renders after it has drained the queue, however many commands come, but a
  single command may put the group out of the graph for a while.
- Volume: the loop runs; the rebind it makes every 250 ms eventually happens in it (strong, because
  that step is skipped by most turns); time reaches the retry time; Windows delivers. Neither the
  user nor the client has to do anything.
- Handoff: threads run, and bind and the 10 ms wait return; an entered call goes on.
- Fan-out: both threads run (their loops are bounded); blocks come, and strongly, because a refused
  block only says that this one found no room.
- Control: the loop drains; the worker runs, since each of its waits has a time-out; the client owes nothing.
- Tap and lane: the control loop goes round and reads again in every turn; calls to the worker have time-outs; sources render (strong).
- ASIO: pop only. Tab: receiver, host loop and stop run, timers fire, events of sockets are delivered.
- Sessions: a phase of the loop goes on; poll, sync and delivery each recur (strong, because the loop turns from one to the other), and Windows delivers creations.
- Devices: a callback runs to its end, the loop polls and enumerates; a DPC runs, and a call of PortCls goes on while it is not blocked.

Deadlock is checked in `engine_safety` and `engine_liveness`. In the other runs the environment is bounded (sockets, packets,
launches, requests, time), so behaviours end and their configurations say so.

Every property of a passing run has a mutant in `PROJECT.json`: a definition of the model changed
as a plausible bug would change the code, for which TLC finds the property violated. Their
operators stand beside the definitions they change, marked "Mutant".

## 5 Where code and documents differ

Each of these is a run with a counterexample of TLC:

- `scene_switch_renders` / `SwitchStillRenders`: SPEC-0002 (lines 253-254) wants rendering to succeed
  after a switch across channel counts; the fade from the previous PEQ is refused in the new layout,
  so the group renders nothing, and the fade never ends. `CrossfadeAdvances` names this case as one in which a fade
  does not fit its graph, and says that there is no other reason to stand still.
- `volume_foreign_change` / `ForeignChangeApplied`: SPEC-0002 (lines 98-99) wants external
  notifications applied; after a few commands of the client their generation looks stale and they
  are consumed without effect. `EngineFollowsWindows` holds because it is about a client that is
  silent.
- `control_status_frozen` / `StatusIsPublished`: a route's detail is clamped to the 120 bytes of its field and refused
  by the encoder beyond 119 (`engine_preview.cpp:1291`, `control_status.cpp:64-75`), so the details of the tab bridge and
  of the driver loopback can keep a whole status from being published; the result of the publication is not looked at.
- `stale_catalog_command` / `RouteReachesNamedSession`: SPEC-0020:48 says that any refresh of devices or sessions makes an older
  sequence or generation invalid. With more than 32 sessions no catalog can be published (its failure is not looked at), so the
  sequence stays, and a rebind starts the generations over: a command built from the old catalog reaches another session. The run has
  a catalog of one entry and more sessions than that; `sessions` and the theorem below have room for all of them.
- `wavert_lost_notification` / `BoundariesAreSignalled`: `GetPosition` takes the position over a boundary and drops the answer
  that one was crossed; `driver/wdk/README.md:60-62` says every boundary is signalled. The property fails for any
  client that asks for the position while the stream runs.

Statements of the documents which the models refute and which stand, with their comments, in the modules; add one
to the configuration named to see its trace:

| Statement | Module, run | Against |
| --- | --- | --- |
| `KeptIrSameGroup` | `SceneEngine`, `engine_safety` | the comment at `hub/engine_control.cpp:164` keeps the IR of a Scene for "the same output group"; the condition below it does not ask for the group |
| `OldSinkCarriesOn` | `WasapiHandoff`, `engine_safety` | SPEC-0007:86 goes back to the old sink when a candidate fails; `process()` then refuses every block, although the old worker plays |
| `NeverPlaysTwice` | `OutputFanout`, `streams` | SPEC-0007:38 and `output_sink.hpp:58-60` speak of a position that carries over; the first block, and blocks at ratio 1, are played without the history of the filter, and the first filtered block after them goes back by that history |
| `RefusedRuleKeepsGraph` | `SessionRoutes`, `sessions` | SPEC-0023:20-21 keeps rules and graph when a rule is refused; the refusal marks the coordinator degraded, and then it hands out no graph |
| `MissingRuleIsHardFailure` | `PluginStates`, `vst3` | `vst3_plugin_state.hpp:113`; the registry takes the only rule to the wanted version, whatever version it starts from |
| `LateReportsStayOut` | `SessionRoutes`, `sessions` | `windows_audio_session_watcher.hpp:85-88`: a late callback "cannot enter after the wait sees zero"; the next bind opens the gate again, and a report that had not reached it enters then, unless Windows waits for it when the registration is taken back |
| `PreparedLoopbackDelivers` | `DriverRing`, `streams` | SPEC-0003:123-127; with a sink of six channels every round is refused, while the status says Ready |

Noted while reading, and not runs:

- Volume: after a rebind whose read fails nothing reads the endpoint until the next notification; a
  restore after a half-failed write may overwrite a change the user made meanwhile.
- Volume: of two notifications at once `OnNotify` drops the later one, as SPEC-0002:75-76 says. `poll` reads the level
  itself, so that is right again; the mute is taken from the notification, so the engine keeps the older one until Windows
  reports again (the exception in `EngineFollowsWindows`).
- Driver volume: after a restart the driver numbers its states from one, and `volume_state.cpp:94` refuses smaller numbers
  only. Until it has counted past its earlier lives an older state stays in force, and a late packet of an earlier
  life with the number of a newer state takes its place (the premise `CaughtUp` of `LatestStateWins`).
- ASIO: two DAWs that load the driver would both push into a ring made for one producer (SPEC-0003 and
  `asio/README.md` ask for one host).
- Control plane: `start` may be followed by `stop` before the worker has looked at the flag, which `start` then has not reset (`ipc_pipe.cpp:223-225`);
  a failing `CreateNamedPipe` ends the worker without a word; the C# client that is cancelled in a round trip keeps the stream,
  so the stale answer fails the next command.
- Sandbox: a launch that follows a stop clears the reports the stop has just added; a termination that fails in `stop` leaves
  the entry slot taken, which neither the end of that `stop` nor the next launch opens (`vst3_sandbox.cpp:148-170`), so no crash of the
  worker started next is recorded (seen with "stop" in `FailingIn`); an audio answer shorter than declared
  is taken with zeros behind it; the watchdog quarantines without detaching the lane; a `receive` of one second ends a lane whose
  source merely pauses; after a refused ring or a wait that ended, the worker is not stopped.
- Preflight: once any Scene is bound, a Scene without bindings is refused, although `vst-host/README.md:69-72` lets it pass
  (the header and the contract tests expect the refusal).
- Sessions: the watcher registers for new sessions only (`windows_audio_session_watcher.cpp:244-251`), so a session that ended, or
  became inactive, stays in the catalog as it was until another cause refreshes it.
- Sessions: `session_route_rules.hpp:44-46` lets matches of equal priority fail closed, but whether they do depends on the
  order of the slots; a rule refresh drops manual routes, as an inactive session does; a failing enumeration
  stops all captures; the 33rd endpoint is dropped without a word (SPEC-0015); the rebuild commits revision 2 every
  100 ms.
- Devices: a refresh that fails consumes the report and is not retried; changes of state are not reported to clients.
- Tab bridge: a `stop()` between `accept` and the store of the socket waits until the peer goes (the premise of `StopReturns`);
  one failing `accept` ends the receiver while the status says listening (SPEC-0009); an idle connection keeps others waiting.
- Handoff: `commit` does not look at the candidate again.

## 6 Proofs

All theorems are of the form `Spec => …` and hold for every value of the constants that satisfies
the named assumptions in the modules: sizes are positive, bounds natural numbers, the tokens for "nothing" differ from
values. A few say more than that, each because the code does:

- custom Scenes carry no program-aware policy (the catalog has no field for it);
- the number of slots divides the modulus of the sequence numbers (4 divides 2^32), for ASIO as for the packet ring;
- a pin has more names for frames than twice its capacity (names are the model's, the code counts bytes);
- the values tried in a format are of its type, and texts are not altered (`CodecAssumption`); the range of decibels lies below the
  model's NaN (`DecibelAssumption`); the largest block of the multi-bus frames fits the payload of the pipe (`BusAssumption`, which is
  what its bound of 512 frames is chosen for, `vst3_worker_protocol.hpp:23`);
- a device has one flow, of the two there are (`DeviceAssumption`);
- a sink has a history of at least two frames (the code keeps 15) and its targets are whole quarters of a frame;
- two requests to a worker in a row have different numbers (the code counts to 2^64), and its wrong answers are of the kinds listed.

Three theorems have a hypothesis of their own, stated where they stand: the ASIO theorems that there is one host, as the documents
ask; `CommandsReachNamedSession` that the published catalog has room for every session (`FewSessions`), without which
it is false, as `stale_catalog_command` shows; `CrashesAreReported`, in its second half, that `stop` ends the worker
it stops (`NoStopFails`), without which it is false as noted above.

| Module | Theorems | Argument |
| --- | --- | --- |
| `Engine_proofs` | `TypeCorrect`, `NoHalfOpen`, `CommitsNeverFail`, `SceneOwnsAttachments`, `IrReferenceKept`, `CrossfadesPaired`, `RenderedRegistered`, `FailureIsInvisible`; `LinkTypeCorrect`, `SnapshotIsWhole`, `PollInOrder`, `NoFeedback`, `GenerationGrows`; `HandoffTypeCorrect`, `FlagsTrue`, `SpareStopped`, `FadeTogether`, `SwapSafe` | Scenes: `IInv` adds to the invariants what each `pc` has prepared (`Phase`, `Prepared`) and that `before` equals what is heard until the commit (`Backup`); without it a step of the chain says nothing about its end. Volume: `CellLocked`: an odd sequence has one writer and the cell agrees with the note being stored as far as it got; `CopySound`: what the reader copied agrees with the note of the sequence it loaded as long as the sequence has not moved; `Followed`: a volume from Windows is the one the loop remembers. Handoff: `InCall` says which workers an owner's call in progress has still to join and what it may assume of the others; `FadePrepared` that a prepared fade starts on an empty candidate queue |
| `Inputs_proofs` | `TypeCorrect`, `NeverTorn`, `AlwaysIntact`, `RegionIsFifo`; `OneBridge`, `TabRingIsFifo`; `DriverRingIsFifo`, `LoopbackRingIsFifo`, `LoopbackEmptiesRing`; `InputsAreFifos`, `InputsHaveOneBridge` | ASIO: `IInv` adds that at most `Slots` numbers are in use, and what a host in the middle of a push (`Writing`) and the engine in the middle of a pop (`Reading`) know: the host's slot is outside the used window, the engine's at its start. Lemmas on remainders give that distinct numbers less than `Slots` apart have distinct slots also across the wrap. `RegionIsFifo` is the refinement of `BlockFifo`: publish sends, advance receives, losing the mapping renews, all else stutters. Tab: `PageInv`: a page that captures nothing has no bridge, and no socket but the bridge's is live; `CarryInv`: what is under way to the receiver and in its hands; `SlotInv`: the slot behind the waiting ones is the producer's while it is filled. Packet ring: `RingIInv` for two processes, `LoopIInv` for the loopback that drives both ends. All three rings refine `BlockFifo`, the two of packets in its form that loses nothing; the last two theorems are about the composition that TLC runs |
| `Vst3_proofs` | `TypeCorrect`, `HazardHolds`, `TapIsRegister`, `NumbersMatch`; `PreflightSuffices`; `CrashesAreReported`, `ReadyIsUsable`, `AnswersInTheirPlace` | Tap: `WriterAlone`: only a reset can have changed the publication since the writer loaded it, so a reader whose second look finds its token knows that the writer has not chosen its slot; `Announced` keeps that while the copy lasts, `StableWhole` and `Copied` give the contents. Neither needs generations to be fresh: the theorems hold across wraps and resets. `TapIsRegister` is the refinement of `SnapshotRegister`. States: what the preflight counts for a Scene is what its restoration stores, so one that passed finds its rule and its room. Lane: `CrashInv`: a worker lives only in a job, and while a sandbox runs its entry slot is free; `ReadyInv`: the host's loop waits for a worker only while the plug-in may run, and that only in a running sandbox; `PipeInv`: no answer left in the pipe bears the number of the next request, and a request whose answer is still to come has no answer of its number there, since a repeated answer met by another request ends the session |
| `ControlPlane_proofs` | `CommandsApplyOnce` | `QueueHolds`: the queue holds exactly the acknowledged and not yet applied commands in their order; `HalfWay`: the slot a push has written is still outside the queue, the one a pop copies is its first; `AnswersTrue`: what the worker is about to answer agrees with what it has done to the queue, so a broken pipe or a stop between the two loses an answer and never a command |
| `OutputFanout_proofs` | `ClocksStayWhole`, `RefusalsAreUndone`, `SinksKeepPace` | `StableWhole`, `WriterAlone`, `CopySound`: while a token is unchanged its slot has no writer, and a claim makes a token that was not there since the last reset; so the two looks of a reader at the token bracket a copy nobody wrote to. `BlockInv`: at every step of a block, what it has saved is what it began with, and what it has not reached is unchanged. `PaceInv`: what is observed of a clock is a number on its way from the control thread to the sink (`NumbersObserved`), and every sink, and every copy of one in a block in work, keeps the pace of its lead (`SinksInPace`); the arithmetic of one block (how many frames a step yields, where the position ends) is in the lemmas before it |
| `Devices_proofs` | `StreamKeepsTime`; `PinIsFifo`; `NewestStateWins`; `CatalogStaysSound`, `ChangesReachTheCatalog` | Stream: `CallInv`, `ClockInv`, `RundownInv` say at each place of a call of PortCls and of the DPC which of pin, clock, timer and rundown agree; `PlayedInv` ties the position to the time played. Pin: `PinIInv` names the frames of the ring by the order in which they came, also where names and places wrap. Volume: `NoneFromLater`, `NumbersUnique`, `InForce`: no packet is ahead of the driver; a number within one life of the driver names one state; what is in force was sent. Packets may be lost, doubled, reordered and outlive a restart; a state whose number is past those of earlier lives is therefore in force when it is the newest handed over, and the theorem says nothing of the time before. Catalog: `WatcherInv`: the number in the cell is odd exactly while one callback holds it, and the poll has seen nothing it has not had; `CandidateInv`: no endpoint still to be read is in the candidate, and the only entry of a flow marked as its default is the one asked for at the start of that flow; `Agrees` says that what was read so far is still true, and `ReadInv` that if it is not, the cell has news or will have |
| `Sessions_proofs` | `SessionsAreTyped`, `CommandsReachNamedSession`, `CapturesAreApart`, `LanesSurvive` | `CommandInv`: what a message names is the entry of a catalog that was published with its sequence (`HandlesTold`), within a drain nothing is committed before a command is looked at (`CommitsCounted`), and a coordinator that is bound and in step lists the sessions of the newest catalog (`CatalogIsFresh`, `LoopIsBound`). Captures: delivering a block breaks or gives up captures and starts none, and a plan has one request for a process and lane, so syncing with it keeps them apart; with `CommandInv` that is inductive as it stands |
| `Codec_proofs` | `ScannersAreTheStandard`, `ScannersMatch`, `FormatsStayInAgreement` | Scanners: each one, and the standard, is a walk over a text from each character it accepts to the one behind it; there is one such walk (`WalkUnique`, by induction from the end of the text), so they agree when they step alike, which is shown byte by byte for the four widths (`PrintableEdge`, `Utf8Edge`). Formats: `CodecInv` says that what is written is what the writer makes of a value of the type, or an alteration of that type, and what is read is what the reader makes of it; `Agree(k)` that every value of format `k` is `Faithful` and every payload of it `Stable`, with one lemma for each format (`SceneCatalogAgrees`, `WorkerMultibusAgrees`, ...) and `CommandAgrees` for those whose payload is their structure. The buses of a worker's block are cut where they were laid out because blocks appended one after another end where their channels, added up, say (`Blocks`, `SlotStarts`) |

`IInv` is inductive; each proof shows it for the initial states and, action by action, for steps, and
reads the theorem off it. Each of these invariants was also checked with TLC on the instance of the run that
explores its module (its formula as INVARIANT in place of the run's properties), `CodecInv` for four of the formats.

No theorem needs a bound that a run has: the numbers of sinks, slots, sessions, rules, requests, restarts and losses, the lengths of
texts and lists are free. Every safety property of the passing runs is also a theorem.

The library's induction theorems take an operator as a parameter, which the provers cannot instantiate. `SetInduction` says the same
of a set, and follows from the well-founded order of the naturals; what recurs over data is written as a recursive function
(the scanners, `ChannelsBefore` a bus, the owner of a sample), so that its walk or its steps can be proved by it.

Theorems that state no property of a run: `NoHalfOpen`, `CommitsNeverFail`, `IrReferenceKept`, `RenderedRegistered`,
`NeverTorn`, `AlwaysIntact`, `PollInOrder`, `GenerationGrows`, `NumbersMatch`, `FlagsTrue`, `FadeTogether`,
`ScannersAreTheStandard`, `CatalogStaysSound`, `ChangesReachTheCatalog` (the safety half of `CatalogCatchesUp`), the theorems about the
parts of `PacketRingsAreFifos`, `ReadyIsUsable` (the safety half of `RouteShowsWorker`) and those on types. Their formulas are parts of
the invariants and properties that the others need, and stand beside the properties in the modules.

Only model-checked:

- Liveness, because fairness and ENABLED are outside the prover: `CrossfadeAdvances`, `FullRingDrains`, `EngineFollowsWindows`,
  `WindowsFollowsUi`, `CallsReturn`, `ReaderCatchesUp`, `ObservationHeard`, `ControlMakesProgress`, `RouteShowsWorker` but for its safety,
  `RoutingSettles`, `BridgeMakesProgress`, `CatalogCatchesUp` but for its safety, `PortClsReturns`.
- The counterexamples of section 5.

## 7 What is not modelled

- The value of samples, gains and decibels beyond a finite set of levels. Whether a kernel is right is
  a question for numerical tests.
- The durable queue of Scene operations of the C# client, and its view models.
- Negotiation of the WASAPI format, underrun counters, the start of several endpoints at once (`windows_wasapi_fanout.cpp`), the
  validation of fan-out plans.
- Activation and thread of a loopback capture: one step that works or fails.
- `WindowsControlRuntimeV1` (`windows_device_catalog.cpp:431-858`) and the device switch, recovery and output handoff coordinators:
  only tests and a probe use them.
- The latency graph and delay lines of VST3, the SDK adapters, the editor windows, the files of crash reports.
- Topology tables, format intersection and registration of the driver.
- COM and Windows internals: they are the nondeterministic environment of the models.
- User interfaces, installer, scripts.
- Weak memory: see section 3.

`PROJECT.json` gives the state of every component.

## 8 Plan

Done: all components of section 3, with proofs of their safety.

Next, if the code grows in these directions:

1. The client's offline queue with edits during a flush and crashes between send and save.
2. The coordinators of device switch and recovery, once the engine drives them: events between begin and commit.
3. Calibration across layouts in `SceneEngine`, a change of the mix format on recovery in `WasapiHandoff`, activation and
   capture thread in `SessionRoutes`.
4. Composition: an acknowledged command and its effect (`ControlPlane` with `SceneEngine`).

## 9 How to run

From this directory: `tlc -workers 2 -config engine_safety.cfg MCEngine` and likewise for each run of
`PROJECT.json`; `tlapm Vst3_proofs.tla` and likewise for each proof module. A run takes between twenty
seconds and a few minutes, the proofs of a module up to ten
(`Codec_proofs` up to fifteen).

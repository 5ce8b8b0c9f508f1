# openauto in TLA+

Specifications of openauto ("JourneyOS"), an Android Auto head unit: a C++/Qt6
program around the `aasdk` protocol library, with the small program that finds
out at boot on what hardware it runs. The modules are checked with TLC on
small instances, and their safety is proved with TLAPS for every value of the
constants. `PROJECT.json` maps each definition to the lines it models and lists
the runs, the hazards and the theorems.

- [The system](#the-system): the inventory
- [Modules and the code](#modules-and-the-code)
- [Runs](#runs): what TLC checks, with which bounds and fairness
- [Proofs](#proofs)
- [Where code and text disagree](#where-code-and-text-disagree)
- [Not modelled](#not-modelled)
- [Plan](#plan)

## The system

### Threads

| Thread | What runs there |
|---|---|
| 4 libusb threads | USB events; they complete the promises of the USB hub |
| 4 `io_service` threads | every `strand`: the manager's, and for a session the session's and one per service |
| Qt GUI thread | QML, view models, controllers and monitors, the microphone's timer, the Bluetooth server |
| one `QThread` per audio output | the `QAudioSink` and the slots that start, stop and suspend it |
| decode `std::thread` | the video queue and the codec |
| update check `QThread` | HTTP requests in a nested event loop |
| PulseAudio main loop | callbacks of the PulseAudio handler, which the GUI thread waits for |

`journeyos-hardware-detect` is a process of its own that has ended, or rebooted
the machine, before the user interface starts.

A strand runs one handler at a time, in the order of dispatch, on whichever of
the four threads is free. Between a service and the Qt objects it drives there
are queued signals one way and promises, whose continuations run on the service's
strand, the other way. `ServiceFactory` gives every session the *same* outputs,
inputs and device objects: the end of one session and the beginning of the next
meet in them. There are no tests in the repository.

### Components

Each with its state, its operations, whom it talks to, what is hard about it and
what makes it correct.

**ProjectionManager, AndroidAutoSession, SessionFactory, AndroidAutoMonitor.**
State: `activeSession_`, `isStopped_`, the promise given to the USB hub, the
outstanding accepts, and per session its receive, its sends and its strand.
Operations: `start`, `stop`, `aoapDeviceHandler`, `handleNewClient`,
`onAndroidAutoQuit`, and the handlers of the control channel. The session quits
through a dispatch to the manager's strand, the manager stops it through a
dispatch to the session's. Hard: sessions that are replaced while their handlers
run; a promise consumed by a device that is ignored; an accept that is re-armed
outside the strand; a handler that does not receive again. Correct when one phone
is projected at a time, the head unit always listens for the next, and a session
whose channel died ends.

**Video sink** (`VideoMediaSinkService`, `QtVideoOutput`). State: the packet
queue, two flags, a condition variable, the codec. Operations: start, stop and
media messages on the strand; `write`, `stop` and the destructor; the decode loop.
Hard: lost wakeups, a flush performed by another thread than the one that asked
for it, two sessions in one queue. Correct when no packet stays behind, order is
kept and the thread ends when asked.

**Audio sinks** (`AudioMediaSinkService`, `QtAudioOutput`, `SequentialBuffer`).
State: the ring, `playbackStarted_`, the state of the `QAudioSink`. Operations:
start, stop, suspend by queued signals; audio written directly from the strand;
the sink reads from its own thread. Hard: the ring at its capacity; a flag that
must agree with the sink's state. Correct when the ring keeps the newest audio in
order, and the last of the requests is the one that holds.

**Microphone** (`MediaSourceService`, `QtAudioInput`). State: the device, the
poll timer, the pending read, what stays in the filter graph and the resampler.
Operations: open and close from the phone, queued to the GUI thread; the chain
read, send, read. Hard: nothing restarts the chain; `readyRead` is not reliable;
the input is shared. Correct when an open microphone keeps sending, and a closed
one stops.

**Input** (`InputSourceService`, `InputDevice`, the view stack of
`Journey.qml`). State: the plain pointer to the bound service, views and popups.
Operations: key binding, start and stop, keys and touches on the GUI thread,
reports on the strand. Hard: the pointer's lifetime, where input goes while the
views change. Correct when reports are in order, no dangling handler is kept and
only the Android Auto view forwards.

**Sensors** (`SensorService`). State: the poll timer, `stopPolling`, what was told
about the night mode, gpsd. Operations: start, stop, requests, the poll that arms
itself again. Hard: two handlers write what was told; the flag is written off the
strand. Correct when changes are told and the polling ends.

**Updates** (`UpdateManager`, `UpdateCheckWorker`, the dialogs of
`SettingsView.qml`). State: `m_checking`, the worker's attempt, downloads, the
installer, the open dialogs. Hard: retries with a wakeup, a nested event loop,
dialogs that only signals close. Correct when there is one check at a time and
everything that begins comes to an end.

**Wireless handshake** (`AndroidBluetoothServer`). State: socket, buffer.
Operations: a phone connects, bytes arrive, two kinds of message are answered.
Hard: the framing of a stream cut anywhere. Correct when messages are handled as
they were sent.

**WiFi** (`WifiController`, `WifiMonitor`, `WifiViewModel`, NetworkManager over
D-Bus). State: interface, device paths, mode, connected, scan status. Operations:
choose interface or mode, connect, disconnect, scan; replies and signals. Hard:
everything is asynchronous and several requests overlap. Correct when the last
request holds, scans settle and what is shown is so.

**Hardware detection** (`journeyos-hardware-detect`, `HardwareProfile`). State:
what was detected, `hardware.json`, and three files that outlive a boot: the state
of the probe, its count of failures, and `hardware.txt` with the overlays of the
next boot. Operations: detect everything there is, decide on the overlays, write,
reboot; load the profile. Hard: a DSI panel is seen only under its own overlay, so
the program reboots to try the next; power cuts between the writes, writes that
fail. Correct when the panel locked in is the one that is there, what the user is
told is what is connected, and the reboots end.

**Bluetooth handler and agent** (`BluetoothHandler`, `BluetoothAgent`, and the
`LocalBluetoothDevice` of each projection). State: the device list, the scan with
its timers, the pairing in progress, the adapter, the one the configuration names,
and the pairing mode. Operations: scan, pair, forget, ignore, connect, disconnect,
choose the adapter, switch the mode; the signals of Qt's discovery agent and of
BlueZ; projections that begin. Hard: single-shot timers that do not know their
scan, ends of a scan nobody listens to, names that arrive late, adapters that are
switched from two places. Correct when a scan ends, names are shown, the adapter
can be seen as long as the user wants it, and none that was left is on.

**Volume and PulseAudio** (`VolumeHandler`, `PulseAudioHandler`,
`AudioDeviceModel`). State: the chosen and the resolved devices, volume, limits,
the ALSA card, the two lists. Operations: choose a device, move slider or limits,
mute; the events of the server. Hard: every question to the server is answered on
another thread while the GUI thread waits, with devices coming and going in
between; two volume controls in series. Correct when the lists follow the devices,
the user's choice stays, and what is heard is what slider and limits say.

**Configuration and its view models** (`Configuration`, `SettingsViewModel`,
`BrightnessViewModel`, the password of `WifiViewModel`; `ServiceFactory` and
`main()` read it). State: the configuration, the file, the copies in the view
models, the outputs made at the start. Operations: load, the setters, saves by
whoever calls, a session that is offered its channels. Hard: who saves what, and
when; what was computed once. Correct when nothing the head unit lives by is lost
with the power, and a session offers the channels that the user has on.

**Without behaviour of their own**: the pinger, services that only reply, SDP
registration, the power controller, combo models, the WiFi projection service. See
[Not modelled](#not-modelled).

## Modules and the code

| Module | Models | External in it |
|---|---|---|
| `ProjectionLifecycle` | abstract: sessions begin, replace, break and end | |
| `Projection` | `ProjectionManager.cpp`, `AndroidAutoSession.cpp`, `SessionFactory.cpp`, `AndroidAutoMonitor.cpp` | USB hub, acceptor, phone |
| `ProjectionProofs` | proofs about `Projection` | |
| `VideoOutput` | `QtVideoOutput.cpp`, `VideoMediaSinkService.cpp` | phone |
| `SequentialBuffer` | `SequentialBuffer.cpp` | |
| `AudioOutput` | `QtAudioOutput.cpp`, `AudioMediaSinkService.cpp`, on `SequentialBuffer` | `QAudioSink` |
| `Microphone` | `QtAudioInput.cpp`, `MediaSourceService.cpp` | the audio device |
| `InputRouting` | `InputSourceService.cpp`, `InputDevice.cpp`, the view stack | user |
| `SensorService` | `SensorService.cpp` | gpsd, the night mode's file |
| `UpdateManager` | `UpdateManager.cpp`, dialogs of `SettingsView.qml`, `Journey.qml` | server, `rauc` |
| `AndroidBluetoothServer` | `AndroidBluetoothServer.cpp` | phone |
| `Wifi` | `WifiController.cpp`, `WifiMonitor.cpp`, `WifiViewModel.cpp` | NetworkManager |
| `HardwareDetection` | `Hardware/Detect/`, `HardwareProfile.cpp` | boot loader, update |
| `BluetoothHandler` | `BluetoothHandler.cpp`, `BluetoothAgent`, `LocalBluetoothDevice`, the Bluetooth popup | BlueZ, phones, projections |
| `Volume` | `VolumeHandler.cpp`, `PulseAudioHandler.cpp`, `AudioDeviceModel.cpp`, the volume's settings | PulseAudio, ALSA |
| `Settings` | `Configuration.cpp`, `SettingsViewModel.cpp`, the brightness popup, what `main()` and `ServiceFactory` read | user |
| `Outputs` | the ring, the video and the audio output together | |
| `Inputs` | sensors, input device and microphone together | |
| `HeadUnit` | updates, Bluetooth server and WiFi together | |
| `Platform` | hardware detection, Bluetooth popup, audio devices and configuration together | |
| `OutputsProofs`, `InputsProofs`, `HeadUnitProofs` | proofs about the three, and about the components in them | |
| `BluetoothHandlerProofs`, `VolumeProofs`, `SettingsProofs` | inductive invariants of these components | |
| `PlatformProofs` | proofs about `HardwareDetection`, and with the three before about `Platform` | |
| `MCProjection`, `MCOutputs`, `MCInputs`, `MCHeadUnit`, `MCPlatform` | the constants of the instances that are checked | |
| the other `MC...` | an instance of one module, for the runs that find a divergence | |

How state and actions correspond to the code:

- A handler is an action; a strand's exclusion makes it atomic unless another
  thread touches the same state meanwhile, and then it is split where the code
  releases it (`HandleNewClient` and `RearmAcceptor`; each section under
  `mutex_` of the video output; `close()` and `open()` of the audio ring).
- `dispatch` onto a strand, a queued signal and an asynchronous call each put
  something into a sequence that another action takes from its head.
- A promise is the set, or the count, of those outstanding; its completion is an
  action of the one that has it, and its continuation another, when it is
  dispatched to a strand.
- Sessions are numbered, or named by their connection, so that what one leaves to
  the next can be seen; packets, chunks and samples are numbered for order.
- A question that the GUI thread waits for is a step of a script: the slot is cut
  there, and the server acts in between (`Volume`). A slot that only asks BlueZ,
  which nobody else changes meanwhile in a way the slot could tell, is one action
  (`BluetoothHandler`).
- A file that must outlive a power cut has two values: what a reader sees and what
  is on the medium (`HardwareDetection`). A restart is an action that keeps the
  files and nothing else (`PowerOn`, `Boot`, `Restart`).
- Payloads, formats, coordinates, versions, passwords and logging are abstracted
  to what the properties tell apart. History variables are marked as such in the
  declarations; no guard of a modelled handler depends on one.
- Definitions commented with `Fault:` are mutations of the definition after them:
  a plausible bug in that code, which the property named with it in `PROJECT.json`
  is known to catch.

`AudioOutput` uses the operators of `SequentialBuffer` for its ring; each other
component is connected to the rest of its session only through the phone. The
composition that matters, several sessions over the same shared outputs and
inputs, is inside each module; `Settings` composes the configuration with all that
edit and read it. `Outputs`, `Inputs`, `HeadUnit` and `Platform` put several
components into one specification, which is checked and proved as one: the
components share no state, so that whatever their interleaving reaches each
reaches alone, and a behaviour picks in its first state, by `exercised`, the one
that moves. Each extends one component, with its names, and instantiates the
others with variables renamed where they would clash. The fairness of each is
required only where it is exercised, if it has something to do in its initial
state. The constants of the parts that `Platform` exercises twice are records
(`ScansWith`, `PhonesWith`, ...). Its instances are of the modules with the
proofs, so that what is proved of a component can be cited of the instance.

## Runs

| Run | Instance | Checks |
|---|---|---|
| `projection_safety` | 2 connections (symmetric), 1 message each, 3 tasks waiting | `TypeOK`, `SingleSession`, `NeverDeaf`, `DeafSessionIsEnding`, `MethodTracksSession`, `ImplementsSafety` |
| `projection_liveness` | 2 connections, 1 message each, 1 task waiting | `KeepsListening`, `ImplementsLifecycle` |
| `outputs` | ring of 4 samples, reads and writes of up to 6, 24 in all; video: 2 sessions of 2 packets; audio: 2 sessions of 2 chunks, ring of 2, 3 signals waiting | `OutputsTypeOK`, ring: `NewestInOrder`, `DropsNoMoreThanNeeded`; video: `NoLostWakeup`, `DecodedInOrder`, `PacketsMoveOn`; audio: `LastRequestHolds` |
| `inputs` | sensors: 3 requests, 4 changes; input: 2 sessions, 2 events; microphone: 2 sessions with a request each, and one with 3 requests followed by another | `InputsTypeOK`, sensors: `ComparesWithTold`, `PollsForSession`; input: `ReportsInOrder`, `HandlerExists`; microphone: `FlowingWhileOpen`, `ChainsEnd` |
| `head_unit` | updates: 3 attempts (`MAX_ATTEMPTS`), 2 downloads; Bluetooth: 2 phones, 2 messages of up to 2 bytes; WiFi: 2 interfaces, 1 network, 3 requests of the user, 2 messages waiting | `HeadUnitTypeOK`, updates: `OneCheckAtATime`, `CheckEnds`, `DialogsClose`; Bluetooth: `HandledAsSent`; WiFi: `LastRequestStands`, `ScanSettles` |
| `platform` | hardware: 4 sets of devices, none or all HATs, every panel, 2 faults; Bluetooth: 1 phone with 2 scans and a request, 2 phones with 2 requests, 2 adapters with 3 requests; audio: 3 sinks with 2 changes and 2 inputs, 2 sinks with 1 change, 3 inputs and a restart; settings: 2 starts, 2 inputs | `PlatformTypeOK`, hardware: `LockedAsSeen`, `ShownAsFitted`, `ComesUp`; Bluetooth: `VisibleAsChosen`, `NamesArrive`; audio: `ListsFollow`, `PreferenceKept`, `HeardAsSet`; settings: `SettingsKept`, `ChannelsAsSet` |

Six more runs each end with a counterexample; see
[Where code and text disagree](#where-code-and-text-disagree).

Why these bounds are enough for the interesting cases:

- Two sessions: what goes wrong between sessions goes wrong between one that ends
  and the next. A third would only find what the second left, as the second does.
- Two connections over either transport reach every order of replacing, ignoring
  and failing; a session that is replaced while it starts, while its
  ShutdownResponse is being sent and after it failed. With three waiting tasks, a
  quit, a stop and a device wait together. The liveness run has one, which delays
  dispatches and removes none. The proofs of the safety properties have no bound.
- A ring of four with writes of six meets every relation of write, free space and
  capacity; 24 samples overwrite it several times.
- Three requests to the microphone are an open, a close and an open again between
  two parts of a read (`MaxReopens`, of a phone that others follow); one request
  each is what sessions need to meet (`MaxOpens`).
- Messages of header and up to two bytes, cut at every place, meet every remainder;
  the second phone finds what the first left.
- Three requests to the WiFi are a change of interface or mode before the reply,
  and two more that overlap.
- Two faults are a power cut (or a write that fails) in one boot and another in
  the boots that follow it, which is what it takes for two files to disagree and
  the disagreement to be acted on. The proof has no bound.
- Of three sinks two share a card and one has none, and one of the two is named
  after the platform: each rule of the list has a case. Two changes are a device
  that goes and comes back, or two that go, between the calls of one slot; three
  inputs open the settings, preview a limit and take it back.
- Two scans are one with the timer of the one before, and one phone is listed,
  named, paired or forgotten during them. Two phones that are paired at the start
  are what an automatic connection chooses from. Of two adapters, in any state
  BlueZ left them in, one is left for the other and taken again, with the mode
  switched in between, or one that is chosen is not there, and projections begin
  at any time; no phone is needed for that, and scans and phones are looked at
  with one adapter. The proof has no bound.
- Two starts are a file written in one and read in the next; the second may find
  what the first did not. Two inputs switch a channel off in one start and on in
  the next, after the outputs were made. The proofs have no bound.

Deadlock is not checked: every instance ends when its sessions are over, the
program quit or the bounds are used up.

### Fairness, and why the code justifies it

| Module | Fair | Because |
|---|---|---|
| `Projection` | `ManagerStep`, `SessionStart`, `RearmAcceptor`, `ByeCompletes` | the io threads run what is posted, and aasdk completes each send, if only with an error; strong where the bound on waiting tasks, which the code has not, disables a step for a while |
| `VideoOutput` | `DecodeLoop` | a thread that is not asleep runs; waking up without a notify is possible and never fair |
| `AudioOutput` | `SinkThread`, `Play` | the thread's event loop runs, and the audio system pulls from an active sink |
| `Microphone` | `GuiThread`, `Strand`, deliveries of the device | event loop, io threads; an open device gives samples |
| `SensorService` | its handlers and the poll | io threads; a deadline timer expires |
| `UpdateManager` | worker, signals, transfers, installers | two event loops; `setTransferTimeout`; processes end |
| `Wifi` | GUI thread, NetworkManager | event loop; a D-Bus call is answered, if only with an error |
| `HardwareDetection` | `Program` | a process that runs goes on, and the reboot it asks for comes |
| `BluetoothHandler` | `Timers`, `ScanEnd` | single-shot timers fire; BlueZ ends a scan, if only with an error |
| `Volume` | `GuiThread`, `Refresh` | event loop. A call that is not answered leaves the thread `stuck`, and nothing is enabled |
| `Settings` | none | only safety is stated |

Phones, users, USB devices, networks, power switches, faults and `stop()` are
never fair.

### What the liveness properties say

- `ImplementsLifecycle`: a session whose control channel died is ended;
  `KeepsListening`: the acceptor is armed again and again.
- `PacketsMoveOn`: every packet is decoded or flushed unless the thread exits, and
  it exits when asked; `LastRequestHolds`: a start or a stop that is the last
  request comes about, whatever was requested before it.
- `PollsForSession`: a change of the night mode is told as long as there is a
  session, and the polls end with it; `ChainsEnd`: a read comes to an end, and
  when the microphone is stopped every chain of reads does.
- `CheckEnds`, `DialogsClose`, `ScanSettles`: what the user waits for comes to an
  end.
- `ComesUp`: the head unit does not reboot for ever while `/data` can be written;
  `NamesArrive`: a device that is listed without a name, when BlueZ has learnt it,
  gets that name and not its alias by the last pass, unless it is gone by then.

They are checked by TLC only: the prover handles neither liveness under fairness
nor `ENABLED`.

## Proofs

Everything proved is a theorem of `Spec`, without fairness, for every value of the
constants that the named assumptions allow.

**`ProjectionProofs`** assumes that `NoConn` is no connection, that there is an
io thread and room for a task, and that the number of messages is a natural number.
The theorems hold for any set of connections, so for any number of phones that
come and go.

- `TypeCorrect`. One lemma for the manager's handlers, one for the world outside
  (hub, acceptor, phones), one for the sessions' handlers; the queue's elements
  are tasks, and taking from and adding to it keeps that (`TailTask`,
  `Dispatched`).
- `SingleSessionHolds`. Inductive with the types: each handler that replaces
  `activeSession_` dispatches `stop()` to the one it replaces (`ManagerStops`), and
  the others change neither (`SessionFrame`).
- `NeverDeafHolds`. Inductive with the types: whatever consumes the accept or the
  hub's promise leaves behind the task, or the call between its two parts, that
  arms it again. Handling a task keeps the other kinds of task in the queue
  (`QueuedKept`).
- `DeafSessionIsEndingHolds`. Inductive with the types: a session's handler
  receives again or quits; a quit stays queued until it is handled, and then
  `stop()` is called on *the active* session, which is that one or the one was
  stopped before (by `SingleSession`).
- `MethodTracksSessionHolds`. Needs `WaitFirst`, that the task of
  `waitForUSBDevice()` is the first there ever is and finds no session: it writes
  INDETERMINATE.
- `ImplementsSafetyHolds`, the refinement of `ProjectionLifecycle`. Needs
  `LifeInv`: the active session has not been stopped and lives; a connection that
  is offered to the manager waits there once, and has no session yet; whoever is
  stopping began; whoever is stopped was told to; who receives began. Without it,
  a connection could be begun twice or after its end, which the abstract `Begin`
  and `Replace` forbid. Then each step is a step of the lifecycle or a
  stutter (`ManagerRefines`, `SessionRefines`).

**`OutputsProofs`** assumes that the capacities and the maximal length are
positive and the other bounds natural numbers. `OutputsInv` is what follows for
the three parts together.

- `TypeCorrect`, of all three. The ring of the audio output never holds more
  than its capacity, and no more signals wait than may.
- `NewestInOrderHolds` and `NeverPlayedAgainHolds`, from `BufferInv`: the types, the
  ring is a run of consecutive samples that ends with the last one written, and
  all of it comes after the last one read. Erasing the oldest of a run leaves a
  run, and appending the samples that follow leaves one (`RunErased`,
  `RunAppended`); that is needed for a write larger than the ring, which keeps
  the end of what it is given.
- `DropsNoMoreThanNeededHolds`, an action property, from the same invariant.
- `NoLostWakeupHolds`. Inductive as it stands: a step that queues a packet, asks
  for a flush or ends the program notifies the decode thread under the same lock
  (`WakeupStep`).
- `DecodedInOrderHolds`. Needs `OrderInv`: no packet is numbered beyond what its
  phone has sent (`AllSent`), so that the one written next comes after all of them
  (`WriteKeepsOrder`); and the thread holds a packet only while it decodes
  (`OneAtATime`), so that the one it takes follows the one it fed
  (`TakeKeepsOrder`). A flush empties the queue and forgets what was fed, and an
  empty queue is in order.

**`InputsProofs`** assumes that the numbers of sessions, events, requests and
changes are natural numbers. `InputsInv` puts the four invariants together.

- `TypeCorrect`, of all three.
- `ComparesWithToldHolds` and `GpsIsOpenHolds`, from `SensorInv`: the types, a
  service that has not started has told nothing (`SilentBeforeStart`), because
  `start()` writes `isNight` without a comparison, and once something was told
  `isNight` is `previous` (`RepeatsWhatWasTold`), because a second request is
  answered from the one and the next poll compares with the other. The type of
  `answers` needs that there are no more of them than requests (`Answering`).
- `ReportsInOrderHolds`, from `OrderInv`: what a service has sent and has still to
  send, taken together, is in order, and none of it is numbered beyond the events
  so far (`Known`), so that a new one comes after all (`LaterInOrder`). Sending
  moves the first of the queue and leaves the whole as it is (`ReportMoves`).
- `HandlerExistsHolds`, from `HandlerInv`: a handler that was stopped, and not
  only one that is gone, bound its keys too late (`StoppedIsLate`).
- `FlowingWhileOpenHolds`, from `MicInv`: the types, with a timer for the poll that
  is said to run; and that everything which waits, is being read, sent or
  recorded belongs to a session that has begun (`OnlyBegan`). So while the one
  that opened the microphone is alone, nothing of another session can take its
  pending read.

**`HeadUnitProofs`** assumes that a check makes an attempt, that the bound on
downloads is positive and the others natural numbers. `HeadUnitInv` puts the three
invariants together.

- `TypeCorrect`, of all three.
- `OneCheckAtATimeHolds`, from `CheckInv`: with the types of the four variables it
  speaks of, it is inductive. A worker that takes a request is idle by the same
  count, so `run()` is never entered inside `run()` (`RequestMoves`); a report moves
  the check from the worker to the queue of results (`ReportMoves`).
- `HandledAsSentHolds`, from `ServerInv`: what was handled is a beginning of what
  was sent, and the buffer followed by what is on its way can be cut into exactly
  the messages not handled yet, each with its header (`Cut`). A byte that arrives
  moves from the one to the other and leaves the cut; handling the first message
  removes its piece, and the length in the header is that piece's.
- `LastRequestStandsHolds`, from `WantedComes`: either a call that grants the last
  request is on its way and none after it changes the device, or none on its way
  does and what was accepted is so. A reply that finds another request made in
  the meantime does not break this, because each request puts its own call last.

**`BluetoothHandlerProofs`**, **`VolumeProofs`** and **`SettingsProofs`** state what they assume
in `Constants` of their modules: that "no device" is no device, that sinks and
sources are finitely many and have names of their own, that slider and limits move
within 0..255, that the brightness of the first start is a level, that there is
a start, that "not set" is no truth value. Each shows an invariant inductive (`InitInv`, `StepInv`) and what
follows from it; `Platform` cites them of its instances.

- `BluetoothInv`: the types, `VisibleAsChosen`, and that each scan is stopped once
  by its timer and leaves two passes for names only if its agent finished
  (`ScansCounted`), without which the passes would have no bound. A projection
  makes the adapter of the configuration visible, and that this is none of those
  that were left needs `LeftForgotten`: until a choice fails, the configuration
  names no such adapter.
- `VolumeInv`, which says where in its script a slot may be. A script is made of
  calls in an order (`Ordered`): a sink that is found is made the default after
  that, and its volume is set last. So a script with no call left that makes a
  default means that the card is that of the sink in use (`DefaultSet`), one with
  no volume left to set that the card plays at the volume that was set last
  (`VolumeSet`), one with no list left to fill, and no event waiting, that the list
  is as the server has it (`ListsFilled`). A device that goes ends no slot, it only
  posts an event; a restart of the program begins a new script.
  `HeardFollows` is then the case of an empty script. `ListsFollowFrom` needs that
  of the sinks of one card exactly one is kept (`OneIsKept`): the first that is
  not named after the platform, or the first. That there is a first is the least
  element of a set of indices (`LeastIndex`).
- `KeptInv` of the settings: while it runs the copies are as the configuration, and
  what the next start would load differs from it in the brightness at most, with
  the popup open (`Running`); Bluetooth that was found is in the configuration,
  so there is a file by the time a phone is told the password (`ToldKept`); what
  the user set is what the file says (`WishKept`). `SwitchesKept` adds what holds
  of channels the user never touched, that the file, written for whatever reason,
  has them on as the defaults do, and that the outputs of this start are those of
  the channels that were on; `ChannelsAsSet` follows of the step that begins a
  session (`StepChannels`).

**`PlatformProofs`** assumes that machines and HATs are sets of devices and of
HATs, that the bound on faults is a natural number (nothing about which machines
there are), and `Constants` of the four others. `PlatformInv` is the conjunction
of the parts' invariants, and a step of one leaves the others as they are
(`EachSteps`, `Still`).

- `TypeCorrect`, of all four.
- `LockedAsSeenHolds`, from `LockInv`: unless a fault has come between the writes
  of the state and of the overlays, a state that checks a candidate goes with
  that candidate's overlay in `hardware.txt`, or no overlay at all, and this both
  for the state a reader sees and for the older one that the medium may still have
  (`Consistent`). Without it a candidate could be confirmed by the panel of the
  other.
- `ShownAsFittedHolds`, from `ShownInv`: from a detection to the next the profile is
  what was detected with the overlays that are still loaded, or the defaults.
  What the profile then says is followed flag by flag through the detector
  (`Detected`) and `load()` (`ShownFollows`).
- `VisibleAsChosenHolds`, `ListsFollowHolds`, `PreferenceKeptHolds`,
  `HeardAsSetHolds`, `SettingsKeptHolds` and `ChannelsAsSetHolds`, from the
  invariants above.

`GpsIsOpen` and `NeverPlayedAgain` are proved, and no run spends its time on them.
`VolumeInv` speaks of steps whose argument is a number or a truth value, which TLC
does not compare, and of sequences over them: its other conjuncts hold in the run
`platform`.

With these every invariant that a passing run checks is a theorem, and so are the
action properties `DropsNoMoreThanNeeded` and `ChannelsAsSet` and the refinement
`ImplementsSafety`. Only
model-checked are the liveness properties, with the liveness part of the
refinement (`ImplementsLifecycle`): `KeepsListening`, `PacketsMoveOn`,
`LastRequestHolds`, `PollsForSession`, `ChainsEnd`, `CheckEnds`, `DialogsClose`,
`ScanSettles`, `ComesUp`, `NamesArrive`. Liveness and `ENABLED` are out of the
prover's reach, and so is what recursion over data computes.

## Where code and text disagree

Each of these runs ends with a counterexample to what the repository says of the
program; `PROJECT.json` quotes the lines.

| Run | What it shows |
|---|---|
| `video_clean_start` (`CleanStart`) | The reset of the codec, "so the next session gets a clean IDR frame", is asked for by `stop()` and performed later by the decode thread, which clears the queue again: it may drop the next session's first packets, or come before the old session's last. |
| `update_shown` (`DownloadingShown`) | The dialog shown "while the bundle is downloading" is destroyed with the settings when a projection ends. |
| `bluetooth_answers` (`InfoRequestAnswered`) | One message is handled per `readyRead`; a request behind another is not answered until more bytes come. |
| `wifi_connected` (`ConnectedIsAccurate`) | "connection state is tracked accurately": a device that was connected before the monitor listened is shown as disconnected. |
| `bluetooth_scan` (`ScanEnds`) | "stop after 12 seconds if still running": the timer of a scan that ended by itself stops a later one, nobody is connected to `canceled`, and the popup scans for good. |
| `sink_volume` (`SoftWithoutCard`) | "Empty on non-ALSA sinks": the name of the card is never cleared, so after a change to a sink without a card the slider moves the mixer of the old one. |

Other places where the code does less than its text suggests, or something that
nobody may have meant. They are in the models, or left out below; no run is spent
on them:

- "Reset buffer for next time" (`QtAudioOutput.cpp`) is done only if playback had
  started, and audio can still be written after it; the microphone's resampler is
  emptied for the next session, the filter graph before it is not.
- `Journey.qml` binds `inputEnabled` of the input device, "only when the AA view is
  on top": the class has no such property, so keys are always forwarded.
- `PulseAudioHandler` waits for a callback that says `eol > 0`. The server ends the
  question about a sink that has just gone with an error, and the GUI thread waits
  for good (`stuck` of `Volume`).
- When `/data` cannot be written and no panel answers, the detection reboots for
  ever: `ComesUp` is stated for a writable one.
- The popup says "Connectable" (`BluetoothPopup.qml:356`) with the pairing mode
  off, but a change of the adapter (`BluetoothHandler.cpp:765`) and every
  projection (`LocalBluetoothDevice.cpp:29`) make the adapter discoverable all the
  same: `VisibleAsChosen` states the other direction only.
- When the adapter that is chosen is not there (`BluetoothHandler.cpp:763`), the one
  in use is off already, the popup may go on saying "Discoverable", and the
  configuration still names the one that was left, which the next projection
  switches on again. `VisibleAsChosen` speaks of adapters that were left only up to
  the first such choice.
- Passes for names follow a scan "so names that resolve later are captured"
  (`BluetoothHandler.cpp:287`). A device for which BlueZ has no name yet is given its
  alias, which is its address at least (lines 734 and 693), and is passed over from
  then on (line 723): a name that is learnt after the scan is not shown.
  `NamesArrive` is about devices that are still without a name when BlueZ has it.
- The window follows the full-screen setting at once, the touch geometry
  (`main.cpp`) at the next start.

## Not modelled

- In modelled components: `pause()` and `resume()` (nothing calls them on a session;
  in the services they only log), `disableAutostartEntity()` (nothing calls it),
  the replies of services whose failure is only logged, the buffering inside
  `QIODevice`, the lifetime of the QML video sink, the choice of the microphone's
  device, the five seconds after which the update manager terminates its thread,
  desktop builds. `FlowingWhileOpen` is about a session with no other begun: the
  code lets an old session close the microphone of the next.
- Of the hardware detection `display.conf` and `audio.conf`, which other programs
  read; of the Bluetooth handler `removeAllPairs()`, which nothing calls, and
  `disconnectCurrentDevice()`, which returns early because the index it asks for is
  never set; of the audio devices the microphone's volume after the start, which
  has no control, and the meters; of the settings the wireless setters, which no
  QML calls, and those of the frame rate and the resolution, which do nothing. Day
  and night of `LightController`: nothing ever sets them. The touch geometry: one
  setting read at two times.
- The pinger: `schedulePing()` has no caller, so no ping is ever sent and no timeout
  comes.
- The services that only reply: `ServiceFactory` creates `BluetoothService` alone of
  them, which answers and receives again. `WifiProjectionService` and the `Rt` audio
  classes are not built or never created. SDP registration, the power controller
  and the combo models make one call each or hold constants.
- `aasdk`, Qt, FFmpeg, NetworkManager, BlueZ, PulseAudio, ALSA, the boot loader and
  the updater: outside `src/`, modelled as the code uses them where it does.

## Plan

The order was the importance of what can go wrong: the manager and its sessions
first, then the media outputs every session shares, the inputs, the head unit
around them, and last the platform below: hardware, Bluetooth, audio devices and
configuration. That is done. What is left:

1. Abstract specifications: the video output as a queue that is flushed, the
   microphone as a stream that is on or off; refinements checked by TLC, and
   their safety proved from `OrderInv` and `MicInv`.
2. Action properties of the audio output (what a request may change while the
   sink's thread is elsewhere) and of the WiFi, with their proofs.
3. The sink of the video view: attach, detach and the pointer the decode thread
   copies.
4. The choice of the microphone's device and format.

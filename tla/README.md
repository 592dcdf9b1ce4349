# LuckFox Agent v2: TLA+ models, model checking and proofs

The repository is a voice agent made of three programs that share one serial
line and one Unix socket:

    HTTP clients ──► http_api_server_v2.py ── audio_sender.py ──UART──► ESP32 firmware
                            │  ▲                    ▲                    (speaker, microphone)
                   commands │  │ button events      └──── microphone packets ────┘
                            ▼  │
                     LVGL agent (screen, face, nine buttons)

This directory models the parts where several actors share state, checks the
models with TLC and proves the most important results with TLAPS.

## Inventory

| Component | State | Operations | Talks to | What is hard |
|---|---|---|---|---|
| `http_api_server_v2.py` | `_mic_users`, `_call_active`, two locks, one thread per request | record, stream, call, playback, agent state, button callback | UART writers, MicReceiver, GUIClient | two locks that protect related state; packets written under one and outside the other; clients that vanish; failed writes |
| `audio_sender.py` | the port, `MicReceiver`: recording, queues, sample rate, parser | packet writers, reader thread, `add_stream`, `get_wav` | UART | writers without a lock; `check_ack` reads the reader's bytes; late answers; slow listeners |
| `luckfox_audio_fulldup.ino` | session flags, I2S driver, speaker ring, parser, display | one handler per packet; `loop()` = parse, drain, capture, show | UART, I2S | ring arithmetic, overload, rate changes, driver failures, reboots |
| `gui_client.py` | `_sock`, `_current_state` | `send_cmd`, `_connect`, `_read_loop` | LVGL agent | two threads reconnect; lost commands and events |
| `ipc_server.c`, `cmd_parser.c` | four clients with line buffers | poll, command, broadcast | GUIClient, screen | partial lines, full buffers, dead clients |
| `scr_agent.c`, `kawaii_face.c`, `main.c` | agent state, page, face transition, buttons | `agent_set_state`, navigation, tick | IPC server | a state change in the middle of a transition |
| `luckfox_remote.py` | main thread, `tx_thread` and two processes of a live call | call, record, play | HTTP | one of the four fails, the others go on; who ends whose call |
| `face_tracker_grid.py` | the video's last frame, the face, the last zone sent | detection, zone updates by ssh threads | GIF player | updates out of order; a counter that restarts between detections |

What makes each part correct:

- **voice core**: the count of users and the ESP32's capture agree; a call owns
  the microphone; a call that was stopped is over; no lock, queue or use of the
  microphone is kept by a request that has ended.
- **firmware**: no byte of speech is repeated, reordered or cut in the middle of
  a sample; a call has a bounded delay; the LuckFox knows the rate of the samples
  it receives.
- **UART framing**: what arrives was sent, and a damaged byte costs a bounded
  number of packets.
- **microphone to listeners**: each listener hears every chunk once and in
  order, and another's slowness costs it nothing; a recording lacks no chunk but
  those the line damaged, and the WAV says the rate of its samples.
- **live call**: a call ends when its client does, and only then; the speaker
  plays the caller's voice; no handler of a call outlives its client.
- **face tracker**: a face is looked for often enough, the board ends with the
  last zone, the number lit up and the circle are where the face is.
- **GUI link**: the link comes back as one connection, no request waits for
  ever, a button that the agent saw is heard.
- **screen and face**: one screen is visible, the state's; the face ends up as
  the emotion that was asked for last. (The code does not quite: a transition
  stops at 96%, and mouth and brows stay midway when a state is set back during
  it. Both are findings, and `FaceSettles` says how far from it the face can be.)

PROJECT.json lists the hazards, each at the line where it bites, and the
properties about it.

## Modules

| Module | Models | Used by |
|---|---|---|
| `MicCall` | the threads of the server, the count, the call flag, the stream queues, the control packets both ways | `MCMicCall`, `MicCallProofs` |
| `EspAudio` | the firmware's `loop()`: sessions, driver, speaker ring, microphone packets, display state | `MCEspAudio` |
| `AudioQueue` | abstract: what the speaker ring promises | `EspAudio` (refinement) |
| `GuiStates` | the states of the agent, which the link and the screen share | `GuiLink`, `AgentScreen` |
| `GuiLink` | the socket between `GUIClient` and the agent: both threads of the server, the agent's slots and buffers, the CTRL button | `MCGuiLink`, `GuiProofs` |
| `AgentScreen` | the agent's screen and face: state changes, idle pages, transition, blink | `MCAgentScreen`, `GuiProofs` |
| `UartFrame` | one direction of the line, byte by byte: the writers and the parser of either side | `MCUartFrame`, `UartFrameProofs` |
| `LiveCall` | `call` of the remote client (threads, processes, every way out) and the four call handlers of the server | `MCLiveCall`, `LiveCallProofs` |
| `MicStream` | the fan-out of microphone chunks and the loops of stream and call/rx | `MCMicStream`, `MicStreamProofs` |
| `FanOut` | abstract: what a listener is promised | `MicStream` (refinement) |
| `MicRecord` | the recording, its WAV and the rate a listener is told | `MCMicRecord`, `MicRecordProofs` |
| `FaceTracker` | video thread, detection loop, zones, ssh writes | `MCFaceTracker`, `FaceTrackerProofs` |
| `MicCallProofs`, `EspAudioProofs`, `GuiProofs`, `UartFrameProofs`, `LiveCallProofs`, `MicStreamProofs`, `MicRecordProofs`, `FaceTrackerProofs` | theorems | |

How the models meet: `UartFrame` is the line that `MicCall`, `EspAudio` and
`MicRecord` take as a queue of whole packets, of which some are dropped;
`MicCall` says which control packets the server writes, `EspAudio` what the
ESP32 makes of them and answers, `MicRecord` and `MicStream` what the reader
thread makes of the answers; `LiveCall` is the client around the call handlers of
`MicCall`, reduced to the flag as its lock leaves it.

### MicCall

`pc[t]` is the place of thread `t` in its handler and `job[t]` the request. The
threads are those of `ThreadingHTTPServer` (with the daemon threads it starts
for playback) and the reader thread of `GUIClient`, which runs
`on_button_event`. A step is what no other thread can interrupt visibly:

- taking a lock and reading the call flag (`Acq`, `Rel`, `CallTest`,
  `StopTest`): the flag is read by one bytecode after the lock is taken, so
  merging the two loses no order of reads and writes;
- changing the count (`AcqCount`, `RelCount`), changing the flag (`CallSet`,
  `StopClear`), each with the locks the code holds at that line;
- writing a packet (`AcqSend`, `RelSend`, `CallSend`, `StopSend`, `RawStart`,
  `RawStop`), which waits while the wire is full;
- giving a state to the GUI (`Show`), starting and stopping a recording, adding
  and removing a queue, sending the headers;
- the loops of the listeners: the test of the flag (`LoopEnds`), the get, which
  for `call/rx` gives up after 0.1 s and for `stream` waits for data (`LoopGet`),
  and the write (`LoopWrite`), which raises when the client has closed its
  connection, and does not return while the client keeps it and stops reading:
  the sockets have no timeout.

The ESP32 is reduced to `session`: a control packet replaces the whole session
there (`start_session`, `stop_session`), and a stop is answered with
`PKT_MIC_STOP`, which ends a recording when the reader thread handles it
(`MicStopArrives`). Audio data is left out.

Faults, at most `MaxFaults` of them: a write that raises (`WriteFails`), a
packet dropped for its checksum (`UartLoses`), a client gone before its headers
(`HeadersFail`), a reboot of the ESP32, and the end of the server, by a signal
(`signal_handler` ends a call) or not. `peer[t]` is the client at the other end:
it may leave (`ClientGone`) or stop reading (`ClientStalls`) at any time, and
neither is a fault. `JobsOf` and `FaultKinds` are not in the code: they choose the
requests and the faults of an instance.

Three variables are history, read by no action: `last_by` (who wrote the packet
that decides the session), `slips` (count changes since the call flag was set)
and `faults`.

### EspAudio and AudioQueue

One action per packet and per stage of `loop()`; the indices of the ring, its
two capacities, the discard of a call and the refusal of a playback are those of
the code. A byte is its place in the sender's stream modulo `Tags`, so an even
tag is the low byte of a sample; a new body begins again at 0. `setup_i2s` fails
in two ways: the driver is not installed, or it is and gets no pins, after which
`i2s_driver_uninstall` is not called and the next install finds the port taken
(ESP-IDF's answer since 4.4). A packet to the LuckFox may be dropped there
(`LuckfoxDrops`), the announcement of a rate included. The lengths of packets are a constant's choice:
whole samples in the instance. `flush_i2s_rx`, the
scaling of samples, the drawing of the display and the fill percentage are left
out. `uplink` holds at most `MaxUp` packets that the LuckFox has not read;
`send_packet` waits for room, so a stage of `loop()` waits too.

`AudioQueue` says what the ring is for: a queue that a session opens empty,
where a playback's chunk goes in whole when there is room and not at all when
there is not, where a call's chunk always goes in and the newest bytes stay, and
from which the speaker takes. `Stored` leaves an offered chunk no other outcome;
a chunk is lost on its way only by a fault, and the faults are counted in both
modules. `RingIsQueue` is the refinement, with the bytes between tail and head as
the queue.

### GuiLink

A connection is an id; the server has it as long as `_sock`, a local of the
reader thread or a local of `_connect` refers to it, because CPython closes a
socket with its last reference. The agent has it in its backlog or in a slot.
A `with self._lock` block is one step, and so is each test outside it (`Check`,
`Alive`): those are where two threads meet. `Alive` holds the test of the reader
thread and its start together: two handlers that come between the two would start
two readers, which PROJECT.json lists as a hazard that is not modelled. The reader's callback goes through
the same `send_cmd` as a handler's request. The agent's loop is single-threaded;
its stages (accept, one read per slot, poll the button) are actions without an
order, since the server may do anything between two of them.

A command is a sequence of as many units as its text is long, of which the last
carries the state and the newline; a buffer holds `RxCap` units. A line to the
server is the number of a button event, a reply, or a half line: `ipc_server_send`
writes the line and the newline separately. Faults: the agent is killed (and
started again), the server is killed and started, the callback raises an
`OSError` after `set_state` (the UART's timeout), for which `_read_loop` drops
the GUI socket. An answer or an event to a client that has gone is a `SIGPIPE`,
which ends the agent. It happens after a restart of the server, and without any
fault after a line that does not fit a slot's buffer: the agent closes that slot,
the handler and the reader both reconnect, and one of the two connections is
dropped with an event on its way. `overlong` is history: such a line was sent.
`Undisturbed` says that nothing else brings it about: without faults and with
lines that fit, the connection of `__init__` stays the only one, no `sendall`
fails, and each event comes to the callback once and in its turn.

### AgentScreen

`agent_set_state`, `agent_idle_nav` and `agent_tick` are the actions; one thread
calls them, in any order. What is hidden is kept as the sets of visible
containers, pages and white dots, because the code hides and shows them one by
one. The face is the record that `lerp_toward_target` computes, with the table's
numbers and C's division; a tick is the blink part followed by the transition
part, which overwrites the eyes. `set_back` is history: the last change of state
went back, during a transition, to the emotion it came from, so that no new one
begins. The five emotions are those of the agent's
states. A tick is the unit of time, and `BlinkTicks` the blink interval. The
specification is `ScreenSpec` (`ScreenInit`, `ScreenNext`, `ScreenTypeOK`), so
that one module can speak of it and of `GuiLink`.

### UartFrame

A step of a writer puts one byte on the line, and the parser of the other side
takes it in the same step: the buffers between them only delay it. `process_byte`
is the `switch` of the firmware's parser, which `_reader_loop` repeats in Python
with the same bound (1024); `Handled` is the comparison of the checksum. Two
sync bytes, the little-endian length and the xor are those of `build_packet` and
`send_packet`; the xor itself is a constant operator of which the theorems need
only its range and that it commutes, `0 ^ b = b` and `(a ^ b) ^ b = a`.

A fault is a changed byte (`ByteChanged`; only a changed sync byte or one of the
length can cost more than its own packet), a lost one (`ByteLost`: noise, a full
buffer, or `check_ack` reading from the reader's port), a packet given up in the
middle (`Abandon`: `write_timeout` or a short write), a second writer between two
bytes (`PutByteInside`: pyserial's `write` is a loop of `os.write`, and the
LuckFox has no lock around the port) or a parser that starts afresh. `mark` and
`settled` are history: how many undamaged packets have passed since the last
fault. `Exact` says that after `Recovery` of them the handler gets exactly what is
written again. `Recovery` counts the packets of 6 bytes, the shortest, that a
parser can still swallow while it waits for the rest of a header (3 bytes), a
payload and a checksum. A packet that has `SYNC_0` in its body or checksum does not count
as quiet: both parsers miss a frame after `AA AA 55` (a finding), and a body that
looks like a frame can keep a parser out of step.

### LiveCall

Each run of `luckfox_remote.py call` is a client with four pieces of state:
`main` (the main thread), `req` (its POST and the answer), `tx` (`tx_thread`) and
`player` (ffplay); the server has `call_active` and one handler of call/tx and of
call/rx per client. `pipe` is what call/tx has not read. `Spawn` is the three
steps between "Call connected" and the `try`; a Ctrl-C in one of them (`GivesUp`
in `Spawns`) leaves without call/stop. A request is on its way until its handler
looks at the flag (`"head"`), whatever its client does meanwhile. `tx_thread`
reads ffmpeg's output between its test of `_tx_stop` and the send (`Polls`), so it
may send one more chunk after the stop, and ffmpeg may end at any time
(`TxFinish`). The loop of call/rx writes only when the microphone sends something
(`RxTest`), and only a write can tell it that its client has gone (`RxRaises`).
`HangUp` is the `finally` block up to its post; the end of ffplay and Ctrl-C both
lead there. `api_post` ends by `sys.exit` when it fails, which `except Exception`
does not catch (`Leaves`). Networks may be cut without a word to either end
(`cut`), and the server may be restarted; `owner`, `abandoned` and `restarted` are
history. Packets to the ESP32, locks and screens are in `MicCall`.

### MicStream, FanOut and MicRecord

A chunk is one `PKT_MIC_DATA`, known by its number. In `MicStream` the reader
thread puts it into every queue that has room, and a handler alternates between
the test of the flag (`Loop`, for call/rx), the get, the test for a full batch or
an empty queue, and the write. `heard` is history: what a client is written in this step. `FanOut` is
the promise: each listener has its own queue of `Capacity`, is offered every chunk,
and hears in order, once. What waits for a listener is its queue (`waiting`) and
what it will be given next its batch (`taken`): only `Capacity` chunks in the queue
excuse a missed one, and a batch of whatever size does not.

`MicRecord` follows the answers of the ESP32 through `_handle_packet`: a session
starts and stops freely, `start_recording` and `stop_recording` come at any time,
also with a late stop on the wire, and `Dropped` is a packet of any kind that
`_reader_loop` throws away for its checksum, at any time. `get_wav` copies the
samples with the lock and reads the rate without it, which are two steps. `made`,
`handled`, `lost`, `due`, `from`, `undisturbed` and `mixed` remember what was
captured, what came off the wire and what of it was dropped, and since when. A
dropped chunk is a hole in the recording and a dropped start leaves a wrong rate;
the code cannot know of either, and the properties name them. A session has a rate
above 0.

### FaceTracker

One round of the loop is one step, and so is each ssh write that lands, is lost,
or lands after it was given up. `VideoStream.update` replaces the frame between
rounds; a frame is what the detector would find in it. `elapsed` and `frame_count`
start again each second. `zone_grid` and `drawn_at` are the tables of
`get_face_zone` and `draw_grid`. The zone is found in a picture of a quarter of the
frame's size, with a face's centre in half pixels and thirds that are fractions;
what is shown is the frame, with the circle scaled up (`Scaled`, in integers: the
code's floats may round one pixel down, which the property allows), lines at whole pixels, and a number that begins 15 pixels to the left
of and below the middle of its ninth (`TextAt`). `sent`, `age` and `landed` are
history.

## Runs

| Run | Instance | Shows |
|---|---|---|
| `voice_core` | 1 handler and the button, every request, 2 users, 2 packets on the wire, 1 fault | `TypeOK`, `MicAgreement`, `AtMostOneSlip`, `StreamsAccounted` |
| `locks_and_listeners` | 2 handlers that start and stop calls, listen to one and stream, 1 failed write, clients that leave or stall, fairness | `CallTestHolds`, `LocksReleased`, `ListenersEnd` |
| `playback_takes_mic` | a stream and a tone | violated: `CountedUserHasMic` |
| `stop_overtakes_start` | two requests that start and stop calls | violated: `CallStopEndsCall` |
| `speaker_and_mic` | ring of 8, call limit 4, packets of 2 and 4 bytes, 2 rates, 1 fault | seven properties of the firmware |
| `gui_link` | 1 handler, 1 command of 2 or 4 units, a buffer of 2, 2 slots, 1 click, 1 fault, fairness | `TypeOK`, `Undisturbed`, `Reattaches`, `CommandsEnd`, `ButtonHeard` |
| `agent_screen` | all five states, a blink interval of 3 ticks, fairness | `ScreenTypeOK`, `OneScreen`, `FaceSettles`, `EyesOpen` |
| `uart_frame` | 2 threads, 3 packets (empty, data, one that looks like a frame), payloads up to 4, 2 faults | `TypeOK`, `Exact` |
| `live_call` | 2 clients, a pipe of 1, 1 fault, fairness | `TypeOK`, `NoCallLeft`, `OwnCallOnly`, `VoiceOfCaller`, `HandlersEnd` |
| `mic_stream` | 1 stream and 1 call/rx, queues and batches of 2, 5 chunks, fairness | `TypeOK`, `ListenersPromised`, `Flushed` |
| `mic_record` | rates 8000 and 16000, 2 packets on the wire, 3 chunks, any number of drops | `RecordingWhole`, `WavRate`, `HeaderRate` |
| `face_tracker` | 704 by 576 pixels, a face in each zone, rounds of 1 and 2, a second of 6, 3 writes | `TypeOK`, `DetectsOften`, `Settled`, `ZonesAsDrawn` |

`playback_takes_mic` and `stop_overtakes_start` show two disagreements with what
the repository's comments and documents say; "findings" in PROJECT.json quotes
them, and lists those that modelling met and no run repeats: which action or
guard shows each of them is said there.

**Bounds.** Two threads are enough for every race between two requests, and a
third is what the proofs add: `MicAgreement`, `AtMostOneSlip`, `CallTestHolds`
are proved for any number of threads, users and faults. One fault at a time
shows each fault in every state. A wire of two packets can hold a start and the
stop that overtook it. A ring of 8 wraps within three packets, and is full, at
the call limit and empty in both modes. `Handlers`, `Threads`, clients and listeners
are few, `MaxUsers`, `MaxUart`, `MaxStops`, `MaxUp` and `MaxFaults` bound the
rest: each is the smallest that lets the case of its property happen, and the
mutants show that it does. The streams of `locks_and_listeners` take the
microphone by `mic_acquire` and give it back by `mic_release`, with and without a
call, and each packet's write may fail. It has no deadlock
check: with both handlers held by the listeners of a call that nobody stops, the
instance has nothing left to do, as the program would. In `gui_link` a handler
and the reader are all the threads that can reconnect at once, two slots are
fewer than the connections they can leave behind, and five ids are more than can
be open (the run is the same with six); a line of 2 units just fits the buffer, one
of 4 does not. `agent_screen` has no bound but the blink
interval: it is shorter than a transition (13 ticks), so that blinks begin, end
and begin again within one. `gui_link` has no deadlock check: a link with no
command and no click is at rest.

`uart_frame` (`MaxDamage` 2) lets a fault fall into the recovery from another;
payloads of up to 4 bytes leave a parser waiting for less than a frame, which is
why `Recovery` is 3 there; it grows with `MAX_PAYLOAD` and is 173 for the 1024
of the code; the threads run the same
code, so they are a symmetry. In `live_call` one client can be refused by, hang up
on or follow the other; `MaxPipe` 1 is a chunk that nobody reads and already
blocks its writer; the safety properties were also checked with 3 clients and no
fault. It has no deadlock check: with every client gone nothing is left. In
`mic_stream` (`MaxChunks` 5) a queue and a batch fill, overflow and empty again;
the run's two listeners are one of each kind. In `mic_record` (`MaxWire` 2) a
stop and the next start, or a start and a chunk of the session before, are on their
way together; the theorems hold for every length. `face_tracker` (`MaxSends` 3) has
two writes in flight with the last, enough for one to overtake; its faces are next
to the lines between zones, in a frame that three does not divide. `PictureSize`
asks for 102 pixels a side, below which a number would begin outside its ninth.
`Durations` keep three rounds in a second, which is `ThreeASecond`: nothing in the
loop guarantees it (it shows 20 and more), and a loop slower than that may never
look for a face, which `DetectsOften` does not catch. It has no deadlock check: the program exits. `detect_interval` is the
code's.

**Fairness.** Every thread that can go on goes on (the operating system's
scheduler: weak fairness of `Step(t)`); a thread that waits for room on the line
gets it some time although others write too (strong fairness of `WriteStep(t)`:
the port has a `write_timeout` of 0.1 s, so no write waits for ever); the
firmware and the reader thread go on reading. A write to a client returns or
raises unless the client stalls, and `ListenersEnd` excuses a listener whose
client does. Nothing is assumed of clients, users and faults. In `EspAudio`
the stages of `loop()` follow each other (`process_byte` is faster than the
line, so the parse stage ends) and the LuckFox reads. In `GuiLink` every thread
and the agent's loop go on; nothing starts a dead agent again, so `Reattaches`
and `CommandsEnd` speak of behaviours in which it runs from some time on. In
`LiveCall` what must end goes on: the final chunk is sent when there is room for it,
the handlers of call/tx go on, and call/rx ends at its next test when the call is
over (at most 0.1 s later) and at its next write when its client has gone. That the
write comes is not assumed: it needs microphone data, so `HandlersEnd` excuses a
call/rx in its loop while a call is on. Nobody need press Ctrl-C, a post need not
be answered and ffplay need not end with its input, for it has no `-autoexit`. In `MicStream` the handler threads run and
their clients read what is written. `UartFrame`, `MicRecord` and `FaceTracker`
assume nothing. In
`AgentScreen` the main loop ticks, and `Quiet` says that commands stop coming.

## Proofs

`MicCallProofs`, from the assumptions of `MicCall` on its constants alone (the
button's thread is not a handler, the bounds are numbers):

| Theorem | States | Argument |
|---|---|---|
| `TypeCorrect` | `Spec => []TypeOK` | inductive as it stands |
| `LocksOwned` | `Spec => []LockOwner` | a lock is held exactly by the thread in its critical section; one lemma for each way of entering, leaving and staying |
| `CallTestsHold` | `Spec => []CallTestHolds` | the flag is only written with `_call_lock` held, by its owner |
| `OneSlip` | `Spec => []AtMostOneSlip` | `SlipInv`: while a call is on, a slip has been made, or only the one thread inside `_mic_lock` can still make one |
| `CountAndWireAgree` | `Spec => []MicAgreement` | `AgreeInv`: outside the window between count and packet the last packet written matches the count; lemmas say what appending, handling and losing a packet do to `Settled` |
| `QueuesAccounted` | `Spec => []StreamsAccounted` | inductive with the types: a handler enters and leaves the listening points only where it adds and removes its queue |

In `MicCallProofs`, each invariant is proved to hold initially and to be kept by
every step, given `TypeOK` and, but for `StreamsAccounted`, `LockOwner`; one
lemma treats the steps of a thread, with one step per action. Without `LockOwner`
nothing says that two threads are not in the same critical section.

The other modules:

| Theorem | States | Argument |
|---|---|---|
| `GuiProofs!LinkTypes` | `Spec => []TypeOK` | `LinkInv` adds to the types that the reader waits in `recv` only with a socket (`Receiving`), and that the reader's buffer is whole lines with a half one at most at its end (`Shape`), without which `EventLine` could take a half line for an event. `Events` picks elements of a sequence by rank: `Ranks` says that a finite set of numbers has an element of each rank below its size (the n elements have n different ranks below n), `Events` is then of its type and shape, and a prefix taken by `ReadSlot` leaves a buffer without a newline and within `RxCap` |
| `GuiProofs!LinkUndisturbed` | `Spec => []Undisturbed` | `CalmInv`, which with `faults = 0 /\ ~overlong` ties both programs together: one connection, held by `_sock` or the boot, and by the backlog or one slot (`OneLink`, `Held`); no thread at a point that only a broken pipe leads to (`Threaded`); a slot's buffer and what comes behind it end with a newline and never have `RxCap` units without one (`Fits`), so a read never fills the buffer and no slot is closed; the events on their way are newer than `handled`, in order, and none is newer than what the agent has seen of the button (`Heard`, `Told`), so the next one is newer still. One lemma for each action; those that cannot happen are shown to be disabled |
| `GuiProofs!ScreenTypes` | `ScreenSpec => []ScreenTypeOK` | `FaceInv`: a blink's phase goes in steps of 20, and a step of a transition lies between its ends, in C's division too (`Between`) |
| `GuiProofs!ScreenIsOne` | `ScreenSpec => []OneScreen` | inductive once the types of the state and the page are known: `agent_set_state` replaces what is visible in the idle container and leaves it alone otherwise |
| `UartFrameProofs!TypeCorrect` | `Spec => []TypeOK` | the length is believed only up to `MAX_PAYLOAD`, and a byte is stored only while fewer have been |
| `UartFrameProofs!ExactLine`, `CleanLine` | `Spec => []Exact` and, for a line that never had a fault, `Spec => []CleanLineExact` | `LineInv`: at most one undamaged packet is on its way, and the parser either follows it or is out of step by what `settled` allows. It follows a packet when its state, length, buffer and xor are functions of how many bytes were put (`InStep`), or when it is at the same place as such a parser but with another xor, which no byte after the changed one mends (`Twins`). Out of step, what it can still take (`Left`), the bytes of this packet and 6 for each packet since the fault never exceed `MAX_PAYLOAD + 4` (`Behind`), so it waits for a frame again by `Recovery` |
| `LiveCallProofs!TypeCorrect` | `Spec => []TypeOK` | inductive as it stands |
| `LiveCallProofs!NoneLeft`, `OwnCalls`, `OwnVoices` | `NoCallLeft`, `OwnCallOnly`, `VoiceOfCaller` | `CallInv` ties the flag, its owner and the main threads: whoever is past its answer owned the flag (`Placed`), a set flag has an owner (`FlagOwned`), an owner that has exited left by an exception (`Orphans`), and without a restart a client that is connected and not stopping owns the call (`Owned`) |
| `MicStreamProofs!TypeCorrect`, `Implements` | `Spec => []TypeOK`, `Spec => ListenersPromised` | one step of `FanOut`, or none, for each action, with the queue as `waiting` and the batch as `taken` |
| `MicRecordProofs!RecordingIsWhole`, `WavHasItsRate`, `ListenerHasTheRate` | `Spec => []RecordingWhole`, `Spec => []WavRate`, `Spec => HeaderRate` | `Inv`: the chunks on the wire are those after `handled`, in order (`InOrder`), and each meets the rate it was captured at as the one last announced, dropped or not, whatever starts and stops are before it (`RatesMeet`); each chunk since the start of the recording, up to its last, is in it or was dropped, and up to `handled` while it goes on (`Whole`, `GoesOn`); what was taken since the last session began has its rate (`SameRate`). Lemmas say what sending, handling and dropping a packet do to the first three |
| `FaceTrackerProofs!TypeCorrect`, `NotStarved`, `BoardSettled`, `DrawnRight` | the four invariants | `NotStarved`: `age`, `frame_count` and `elapsed` together (three rounds fit in a second, so a count that starts again has passed a detection); `BoardSettled`: the write with the highest number carries the zone told last; `DrawnRight`: for every size of the video and place of the face: a centre in a third of the small picture is scaled to that third of the frame, less than a pixel off, by multiplying out the two divisions (`ScaledBelow`, `ScaledFrom`), and a number's place is checked for each column and row |
| `EspAudioProofs!TypeCorrect`, `OneSession`, `CallsInBudget` | `TypeOK`, `FlagsAgree`, `CallBudget` | `IInv` is the three together: in a call the room a packet needs is found by discarding from what is in the ring, which is enough only while `CallBudget` holds, and only then do the indices stay in the ring; lemmas turn the wrapped indices into cases (`DistanceIs`, `HeadMoves`, `TailMoves`) |
| `EspAudioProofs!RateAnnounced` | `Spec => []MicAtAnnouncedRate` | `RateInv`: the last rate told, on the wire or already read, is the one the microphone is captured at while it is on; lemmas say what a packet put on the wire or taken from it does to `ToldBefore` |
| `EspAudioProofs!ImplementsQueue` | `Spec => RingIsQueue` | `ContentsMove`: b bytes leave at the tail and len come in at the head, and what is between them moves by b places; storing, discarding and draining are three cases of it, each one step of `AudioQueue` |
| `EspAudioProofs!WholeSamplesPlayed` | `Spec => []AlignedPlayback`, if all packets have even lengths | `Whole`: the ring's contents are whole samples and the next byte is a low one; chunks, concatenation and even cuts keep that, and `CALL_RING_LIMIT` and the drain's limit are even |

The assumptions of each module on its constants are all that is used: numbers are
numbers, packets fit, a fallback value is none of the real ones.

Three attempts changed what they were about. The attempt at `Exact` failed for a
`Recovery` of `2 + MAX_PAYLOAD \div 6`: a fault can also leave the parser in the
middle of a header, and with 5 as a sync byte and as `MAX_PAYLOAD` TLC found the
packet that is lost after that many. `RecordingWhole` had said that a recording's
first chunk is one of those sent after its start; the proof has to know of every
chunk whether it is recorded or still on its way, and the property now says so.
`Undisturbed` was first stated without `overlong`, and TLC showed the agent dying of
a `SIGPIPE` with no fault at all, which is now a finding.

Only model-checked: everything under fairness, since liveness and ENABLED are out of
the prover's reach. These are `LocksReleased`, `ListenersEnd`, `RingDrains`, `Reattaches`,
`CommandsEnd`, `ButtonHeard`, `FaceSettles`, `EyesOpen`, `HandlersEnd` and
`Flushed`. Every other property of a passing run has a theorem.

## Plan

1. (done) `MicCall` with its proofs; `EspAudio`, `AudioQueue`; `GuiLink`;
   `AgentScreen`.
2. (done) `UartFrame`: parsers and writers, one byte at a time, with proofs.
3. (done) the reader thread: `MicStream` with `FanOut` and proofs, `MicRecord`.
4. (done) `LiveCall` and `FaceTracker`, with proofs.
5. (done) proofs of the recovery bound of `UartFrame` and of `MicRecord`.
6. (done) `GuiProofs`: the types of `GuiLink`, `Undisturbed`, `AgentScreen`.
7. Left: a bound on the connections that an overlong line or a fault leaves behind
   (how many slots are in use until `Reattaches` has come true); `MicRecord` composed with `EspAudio`
   instead of with a sketch of its sessions; larger instances of `MicCall` with two calls and two
   recordings at once.

Hazards that no property covers, with the reason in PROJECT.json: the count or the
flag that a failed write leaves changed, a record/stop that takes another user's
count, the microphone that a restart of the server leaves on, packets of odd length,
and the second reader that two handlers may start. Those that a property covers but
for a case it names there: the queue of a client gone at the headers, the server's
count after a reboot of the ESP32, a handler that dies without its reply, a state
set back during its transition, zones that overtake each other, a loop slower than
three rounds a second, a call/rx that gets no data, the ways out of the client that
do not hang up, and the rate after a dropped start.

## Not modelled

The HTTP server v1 (replaced by v2), the display driver (I/O of one thread), the
camera and image tools, the hardware test sketch and the deployment scripts have
no shared state or protocol of their own. Left out of the modelled parts: requests
that only read, the content of tones and files, the OLED's drawing and the scaling
of samples, what LVGL draws, the commands of the remote client that are one request,
the toggles of the tracker's display. Wall-clock pacing (`_tx_t0`, `time.sleep`)
and the clocks of I2S are left out: no property depends on them, and the hazards
say what they could do.

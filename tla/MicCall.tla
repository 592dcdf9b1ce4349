------------------------------ MODULE MicCall ------------------------------
(***************************************************************************)
(* The voice core of board/sdcard/http_api_server_v2.py: the threads of    *)
(* the HTTP server and the reader thread of GUIClient (which runs          *)
(* on_button_event), the reference count of the microphone, the live-call  *)
(* flag, and the control packets they write to the ESP32 over the UART.    *)
(*                                                                         *)
(* A thread runs one request (job) at a time.  pc[t] names the next        *)
(* operation of the handler; the operations are the places where another   *)
(* thread can be observed: a lock is taken or released, a global is read   *)
(* or written, a packet is written, a GUI command is sent.                 *)
(*                                                                         *)
(* Audio data is left out: only the packets that open and close sessions   *)
(* on the ESP32 are kept.  Each of them replaces the whole session there   *)
(* (see EspAudio), so Session is a function of the last one handled.       *)
(***************************************************************************)
EXTENDS Naturals, Sequences, FiniteSets

CONSTANTS
    Handlers,    \* threads of ThreadingHTTPServer, each with one request
    Button,      \* the GUIClient reader thread, which runs on_button_event
    NoThread,    \* holder of a free lock
    JobsOf,      \* JobsOf[t]: the requests, or button events, thread t gets in this instance
    MaxUsers,    \* bound on _mic_users
    MaxUart,     \* control packets on the wire to the ESP32
    MaxStops,    \* PKT_MIC_STOP packets on the wire to the LuckFox
    FaultKinds,  \* the faults of this instance
    MaxFaults    \* bound on their number

HttpJobs == {"record_start", "record_stop", "stream", "call_start",
                "call_stop", "call_rx", "audio_stop", "tone"}

ButtonJobs == {"btn_press", "btn_release"}

\* The port refuses a write, a client is gone before the headers, a packet is damaged on the
\* line, the ESP32 reboots, the server restarts.
AllFaults == {"write", "headers", "line", "reboot", "restart"}

Threads == Handlers \cup {Button}

Jobs == HttpJobs \cup ButtonJobs

ASSUME ThreadsDistinct == Button \notin Handlers /\ NoThread \notin Threads
ASSUME JobsKnown == /\ \A t \in Handlers : JobsOf[t] \subseteq HttpJobs
                    /\ JobsOf[Button] \subseteq ButtonJobs
ASSUME BoundsNat == /\ MaxUsers \in Nat \ {0}
                    /\ MaxUart \in Nat \ {0}
                    /\ MaxStops \in Nat \ {0}
                    /\ MaxFaults \in Nat
                    /\ FaultKinds \subseteq AllFaults

VARIABLES
    pc,            \* pc[t]: next operation of thread t, "idle" between requests
    job,           \* job[t]: the request t handles
    mic_users,     \* _mic_users
    mic_lock,      \* holder of _mic_lock
    call_active,   \* _call_active
    call_lock,     \* holder of _call_lock
    recording,     \* MicReceiver._recording
    streams,       \* handlers whose queue is in MicReceiver._stream_queues
    orphans,       \* queues there whose handler has ended
    peer,          \* peer[t]: whether the client of t reads what it is sent
    agent_state,   \* GUIClient._current_state, "live_call" with its text
    uart,          \* control packets written and not yet handled by the ESP32
    session,       \* what the ESP32 is doing: "off", "audio" or "call"
    mic_stops,     \* PKT_MIC_STOP packets the reader thread has not handled
    last_by,       \* history: who wrote the packet that decides the session
    slips,         \* history: count changes since the call flag was set
    faults         \* faults so far

host == <<mic_users, mic_lock, call_active, call_lock>>
receiver == <<recording, streams, orphans, peer>>
wire == <<uart, last_by>>
esp == <<session, mic_stops>>
vars == <<pc, job, host, receiver, agent_state, wire, esp, slips, faults>>

Controls == {"AUDIO_START", "AUDIO_STOP", "CALL_START", "CALL_STOP"}
Sessions == {"off", "audio", "call"}
AgentStates == {"idle", "listening", "thinking", "live_call"}

\* A client reads, leaves its connection open and stops reading, or has closed it.
Peers == {"reads", "stalls", "gone"}

\* Operations made with _mic_lock or with _call_lock held, and with neither.
MicCritical == {"acq_count", "acq_send", "rel_count", "rel_send"}
CallCritical == {"call_set", "stop_clear"}
OpenPoints == {"idle", "btn_check", "show", "rec_on", "rec_off", "acq", "rel", "add",
               "headers", "loop", "write", "remove", "call_test", "call_send", "stop_test",
               "stop_send", "rx_check", "raw_start", "raw_stop"}
Points == MicCritical \cup CallCritical \cup OpenPoints

\* Operations of a listener's loop: the test of its condition, then a chunk and its write.
LoopPoints == {"loop", "write"}

\* Operations that write a packet.
WritePoints == {"acq_send", "rel_send", "call_send", "stop_send", "raw_start", "raw_stop"}

SessionOf(p) == CASE p = "AUDIO_START" -> "audio"
                  [] p = "CALL_START" -> "call"
                  [] OTHER -> "off"

\* The session once the ESP32 has handled everything on the wire.
Settled == IF uart = <<>> THEN session ELSE SessionOf(uart[Len(uart)])

---------------------------------------------------------------------------
(* The order of a handler's operations.                                    *)

FirstPoint(j) ==
    CASE j = "record_start" -> "rec_on"
      [] j = "record_stop" -> "rel"
      [] j = "stream" -> "acq"
      [] j = "call_start" -> "call_test"
      [] j = "call_stop" -> "stop_test"
      [] j = "call_rx" -> "rx_check"
      [] j = "audio_stop" -> "raw_stop"
      [] j = "tone" -> "raw_start"
      [] OTHER -> "btn_check"

AfterAcquire(j) == CASE j = "record_start" -> "show"
                     [] j = "stream" -> "add"
                     [] OTHER -> "idle"

AfterRelease(j) == IF j \in {"record_stop", "btn_release"} THEN "rec_off" ELSE "idle"

AfterShow(j) == CASE j = "btn_press" -> "rec_on"
                  [] j = "btn_release" -> "rel"
                  [] OTHER -> "idle"

\* The state each handler gives to gui.set_state.
Shown(j) == CASE j \in {"record_start", "btn_press"} -> "listening"
              [] j \in {"record_stop", "btn_release"} -> "thinking"
              [] j = "call_start" -> "live_call"
              [] OTHER -> "idle"

Goto(t, p) == /\ pc' = [pc EXCEPT ![t] = p]
              /\ job' = IF p = "idle" THEN [job EXCEPT ![t] = "none"] ELSE job

\* uart_write of a control packet by the code named by; it waits for room.
Write(p, by) == /\ Len(uart) < MaxUart
                /\ uart' = Append(uart, p)
                /\ last_by' = by

Fault(kind) == kind \in FaultKinds /\ faults < MaxFaults /\ faults' = faults + 1

\* The requests that acquire the microphone, and the threads still to count a user.
Acquirers == {"record_start", "stream", "btn_press"}
WillCount == {t \in Threads : /\ job[t] \in Acquirers
                              /\ pc[t] \in {"btn_check", "show", "rec_on", "acq", "acq_count"}}

\* A request reaches a handler thread, or a button event the reader thread.
Begin(t) ==
    /\ pc[t] = "idle"
    /\ \E j \in JobsOf[t] :
          /\ j \in Acquirers => mic_users + Cardinality(WillCount) < MaxUsers
          /\ pc' = [pc EXCEPT ![t] = FirstPoint(j)]
          /\ job' = [job EXCEPT ![t] = j]
    /\ UNCHANGED <<host, receiver, agent_state, wire, esp, slips, faults>>

---------------------------------------------------------------------------
(* mic_acquire and mic_release.                                            *)

\* Takes _mic_lock and reads _call_active; blocked, it returns at once.
\* Fault: mic_acquire does not look at the call flag.
AcqInCall(t) ==
    /\ pc[t] = "acq" /\ mic_lock = NoThread
    /\ Goto(t, "acq_count") /\ mic_lock' = t
    /\ UNCHANGED <<mic_users, call_active, call_lock, receiver, agent_state, wire, esp,
                   slips, faults>>

Acq(t) ==
    /\ pc[t] = "acq"
    /\ mic_lock = NoThread
    /\ IF call_active
       THEN Goto(t, AfterAcquire(job[t])) /\ UNCHANGED mic_lock
       ELSE Goto(t, "acq_count") /\ mic_lock' = t
    /\ UNCHANGED <<mic_users, call_active, call_lock, receiver, agent_state, wire, esp,
                   slips, faults>>

NoteSlip == slips' = IF call_active THEN slips + 1 ELSE slips

\* Fault: the count is protected and the packet is not.
AcqCountUnlocked(t) ==
    /\ pc[t] = "acq_count"
    /\ mic_users' = mic_users + 1 /\ mic_lock' = NoThread
    /\ Goto(t, IF mic_users = 0 THEN "acq_send" ELSE AfterAcquire(job[t]))
    /\ NoteSlip
    /\ UNCHANGED <<call_active, call_lock, receiver, agent_state, wire, esp, faults>>

AcqCount(t) ==
    /\ pc[t] = "acq_count"
    /\ mic_users' = mic_users + 1
    /\ IF mic_users = 0
       THEN Goto(t, "acq_send") /\ UNCHANGED mic_lock
       ELSE Goto(t, AfterAcquire(job[t])) /\ mic_lock' = NoThread
    /\ NoteSlip
    /\ UNCHANGED <<call_active, call_lock, receiver, agent_state, wire, esp, faults>>

AcqSend(t) ==
    /\ pc[t] = "acq_send"
    /\ Write("AUDIO_START", "mic")
    /\ mic_lock' = NoThread
    /\ Goto(t, AfterAcquire(job[t]))
    /\ UNCHANGED <<mic_users, call_active, call_lock, receiver, agent_state, esp, slips, faults>>

\* Fault: the early return of a blocked mic_release keeps the lock.
RelKeepsLock(t) ==
    /\ pc[t] = "rel" /\ mic_lock = NoThread
    /\ mic_lock' = t
    /\ Goto(t, IF call_active THEN AfterRelease(job[t]) ELSE "rel_count")
    /\ UNCHANGED <<mic_users, call_active, call_lock, receiver, agent_state, wire, esp,
                   slips, faults>>

Rel(t) ==
    /\ pc[t] = "rel"
    /\ mic_lock = NoThread
    /\ IF call_active
       THEN Goto(t, AfterRelease(job[t])) /\ UNCHANGED mic_lock
       ELSE Goto(t, "rel_count") /\ mic_lock' = t
    /\ UNCHANGED <<mic_users, call_active, call_lock, receiver, agent_state, wire, esp,
                   slips, faults>>

\* Fault: the count is not kept from going below zero.
RelCountBelowZero(t) ==
    /\ pc[t] = "rel_count"
    /\ mic_users' = mic_users - 1
    /\ IF mic_users' = 0
       THEN Goto(t, "rel_send") /\ UNCHANGED mic_lock
       ELSE Goto(t, AfterRelease(job[t])) /\ mic_lock' = NoThread
    /\ NoteSlip
    /\ UNCHANGED <<call_active, call_lock, receiver, agent_state, wire, esp, faults>>

\* max(0, _mic_users - 1): a release nobody acquired for stops the mic too.
RelCount(t) ==
    /\ pc[t] = "rel_count"
    /\ mic_users' = IF mic_users = 0 THEN 0 ELSE mic_users - 1
    /\ IF mic_users' = 0
       THEN Goto(t, "rel_send") /\ UNCHANGED mic_lock
       ELSE Goto(t, AfterRelease(job[t])) /\ mic_lock' = NoThread
    /\ NoteSlip
    /\ UNCHANGED <<call_active, call_lock, receiver, agent_state, wire, esp, faults>>

RelSend(t) ==
    /\ pc[t] = "rel_send"
    /\ Write("AUDIO_STOP", "mic")
    /\ mic_lock' = NoThread
    /\ Goto(t, AfterRelease(job[t]))
    /\ UNCHANGED <<mic_users, call_active, call_lock, receiver, agent_state, esp, slips, faults>>

---------------------------------------------------------------------------
(* call_acquire and call_release: the flag under _call_lock, the packet    *)
(* after it.                                                               *)

\* Fault: the flag is tested without _call_lock.
CallTestUnlocked(t) ==
    /\ pc[t] = "call_test"
    /\ Goto(t, IF call_active THEN "idle" ELSE "call_set")
    /\ UNCHANGED <<host, receiver, agent_state, wire, esp, slips, faults>>

CallTest(t) ==
    /\ pc[t] = "call_test"
    /\ call_lock = NoThread
    /\ IF call_active
       THEN Goto(t, "idle") /\ UNCHANGED call_lock      \* 409 Call already active
       ELSE Goto(t, "call_set") /\ call_lock' = t
    /\ UNCHANGED <<mic_users, mic_lock, call_active, receiver, agent_state, wire, esp,
                   slips, faults>>

CallSet(t) ==
    /\ pc[t] = "call_set"
    /\ call_active' = TRUE
    /\ call_lock' = NoThread
    /\ slips' = 0
    /\ Goto(t, "call_send")
    /\ UNCHANGED <<mic_users, mic_lock, receiver, agent_state, wire, esp, faults>>

CallSend(t) ==
    /\ pc[t] = "call_send"
    /\ Write("CALL_START", "call")
    /\ Goto(t, "show")
    /\ UNCHANGED <<host, receiver, agent_state, esp, slips, faults>>

StopTest(t) ==
    /\ pc[t] = "stop_test"
    /\ call_lock = NoThread
    /\ IF call_active
       THEN Goto(t, "stop_clear") /\ call_lock' = t
       ELSE Goto(t, "show") /\ UNCHANGED call_lock
    /\ UNCHANGED <<mic_users, mic_lock, call_active, receiver, agent_state, wire, esp,
                   slips, faults>>

StopClear(t) ==
    /\ pc[t] = "stop_clear"
    /\ call_active' = FALSE
    /\ call_lock' = NoThread
    /\ Goto(t, "stop_send")
    /\ UNCHANGED <<mic_users, mic_lock, receiver, agent_state, wire, esp, slips, faults>>

StopSend(t) ==
    /\ pc[t] = "stop_send"
    /\ Write("CALL_STOP", "call")
    /\ Goto(t, "show")
    /\ UNCHANGED <<host, receiver, agent_state, esp, slips, faults>>

---------------------------------------------------------------------------
(* The rest of the handlers.                                               *)

\* on_button_event drops the event during a call; the test is not repeated.
BtnCheck(t) ==
    /\ pc[t] = "btn_check"
    /\ Goto(t, IF call_active THEN "idle" ELSE "show")
    /\ UNCHANGED <<host, receiver, agent_state, wire, esp, slips, faults>>

Show(t) ==
    /\ pc[t] = "show"
    /\ agent_state' = Shown(job[t])
    /\ Goto(t, AfterShow(job[t]))
    /\ UNCHANGED <<host, receiver, wire, esp, slips, faults>>

RecOn(t) ==
    /\ pc[t] = "rec_on"
    /\ recording' = TRUE
    /\ Goto(t, "acq")
    /\ UNCHANGED <<host, streams, orphans, peer, agent_state, wire, esp, slips, faults>>

\* stop_recording; get_wav after it only reads.
RecOff(t) ==
    /\ pc[t] = "rec_off"
    /\ recording' = FALSE
    /\ Goto(t, IF job[t] = "record_stop" THEN "show" ELSE "idle")
    /\ UNCHANGED <<host, streams, orphans, peer, agent_state, wire, esp, slips, faults>>

RxCheck(t) ==
    /\ pc[t] = "rx_check"
    /\ Goto(t, IF call_active THEN "add" ELSE "idle")   \* 400 No active call
    /\ UNCHANGED <<host, receiver, agent_state, wire, esp, slips, faults>>

Add(t) ==
    /\ pc[t] = "add"
    /\ streams' = streams \cup {t}
    /\ Goto(t, "headers")
    /\ UNCHANGED <<host, recording, orphans, peer, agent_state, wire, esp, slips, faults>>

Headers(t) ==
    /\ pc[t] = "headers"
    /\ Goto(t, "loop")
    /\ UNCHANGED <<host, receiver, agent_state, wire, esp, slips, faults>>

\* The client is gone before the headers: they are sent outside the try, so the
\* queue stays registered and a stream's mic_release is never called.
HeadersFail(t) ==
    /\ pc[t] = "headers"
    /\ Fault("headers")
    /\ streams' = streams \ {t}
    /\ orphans' = orphans + 1
    /\ Goto(t, "idle")
    /\ UNCHANGED <<host, recording, peer, agent_state, wire, esp, slips>>

\* The listener's client closes its connection, or stops reading from it.
ClientGone(t) ==
    /\ pc[t] \in LoopPoints
    /\ peer[t] # "gone"
    /\ peer' = [peer EXCEPT ![t] = "gone"]
    /\ UNCHANGED <<pc, job, host, recording, streams, orphans, agent_state, wire, esp, slips,
                   faults>>

ClientStalls(t) ==
    /\ pc[t] \in LoopPoints
    /\ peer[t] = "reads"
    /\ peer' = [peer EXCEPT ![t] = "stalls"]
    /\ UNCHANGED <<pc, job, host, recording, streams, orphans, agent_state, wire, esp, slips,
                   faults>>

\* Fault: the get has no timeout, so that the flag is tested only after a chunk.
LoopEndsOnData(t) ==
    /\ pc[t] = "loop" /\ job[t] = "call_rx" /\ ~call_active
    /\ session # "off"
    /\ Goto(t, "remove")
    /\ UNCHANGED <<host, receiver, agent_state, wire, esp, slips, faults>>

\* `while _call_active` of call/rx, tested at least every 100 ms; the stream's is `while True`.
LoopEnds(t) ==
    /\ pc[t] = "loop"
    /\ job[t] = "call_rx" /\ ~call_active
    /\ Goto(t, "remove")
    /\ UNCHANGED <<host, receiver, agent_state, wire, esp, slips, faults>>

\* The loop goes on, and stream_q.get has a chunk for it within 100 ms; without one it is back
\* at its test.  What it writes then, it writes whatever became of the call.
LoopGet(t) ==
    /\ pc[t] = "loop"
    /\ job[t] = "call_rx" => call_active
    /\ Goto(t, "write")
    /\ UNCHANGED <<host, receiver, agent_state, wire, esp, slips, faults>>

\* Fault: a broken pipe ends the handler without its finally block.
LoopAborts(t) ==
    /\ pc[t] = "write" /\ peer[t] # "stalls"
    /\ Goto(t, IF peer[t] = "gone" THEN "idle" ELSE "loop")
    /\ UNCHANGED <<host, receiver, agent_state, wire, esp, slips, faults>>

\* wfile.write, which has no timeout: it waits for a client that has stopped reading, and
\* raises when the client has gone.
LoopWrite(t) ==
    /\ pc[t] = "write"
    /\ peer[t] # "stalls"
    /\ Goto(t, IF peer[t] = "gone" THEN "remove" ELSE "loop")
    /\ UNCHANGED <<host, receiver, agent_state, wire, esp, slips, faults>>

Remove(t) ==
    /\ pc[t] = "remove"
    /\ streams' = streams \ {t}
    /\ peer' = [peer EXCEPT ![t] = "reads"]
    /\ Goto(t, IF job[t] = "stream" THEN "rel" ELSE "idle")
    /\ UNCHANGED <<host, recording, orphans, agent_state, wire, esp, slips, faults>>

\* stream_wav and stream_test_tone open a session of their own, past the count.
RawStart(t) ==
    /\ pc[t] = "raw_start"
    /\ Write("AUDIO_START", "raw")
    /\ Goto(t, "raw_stop")
    /\ UNCHANGED <<host, receiver, agent_state, esp, slips, faults>>

\* The end of playback, and GET /api/audio/stop.
RawStop(t) ==
    /\ pc[t] = "raw_stop"
    /\ Write("AUDIO_STOP", "raw")
    /\ Goto(t, "idle")
    /\ UNCHANGED <<host, receiver, agent_state, esp, slips, faults>>

\* The port refuses the write: the exception leaves the handler, `with` frees the lock.
WriteFails(t) ==
    /\ pc[t] \in WritePoints
    /\ Fault("write")
    /\ last_by' = "none"
    /\ mic_lock' = IF mic_lock = t THEN NoThread ELSE mic_lock
    /\ Goto(t, "idle")
    /\ UNCHANGED <<mic_users, call_active, call_lock, receiver, agent_state, uart, esp, slips>>

---------------------------------------------------------------------------
(* The ESP32, the reader thread of MicReceiver, faults and restarts.       *)

\* handle_packet of a control packet; a stop answers with PKT_MIC_STOP.
EspHandle ==
    /\ uart # <<>>
    /\ LET s == SessionOf(Head(uart)) IN
          /\ session' = s
          /\ IF s = "off" THEN mic_stops < MaxStops /\ mic_stops' = mic_stops + 1
                          ELSE UNCHANGED mic_stops
    /\ uart' = Tail(uart)
    /\ UNCHANGED <<pc, job, host, receiver, agent_state, last_by, slips, faults>>

\* _handle_packet of PKT_MIC_STOP.
MicStopArrives ==
    /\ mic_stops > 0
    /\ mic_stops' = mic_stops - 1
    /\ recording' = FALSE
    /\ UNCHANGED <<pc, job, host, streams, orphans, peer, agent_state, wire, session, slips,
                   faults>>

\* A packet fails its checksum on the ESP32 and is dropped.
UartLoses ==
    /\ uart # <<>>
    /\ Fault("line")
    /\ uart' = Tail(uart)
    /\ last_by' = IF Len(uart) = 1 THEN "none" ELSE last_by
    /\ UNCHANGED <<pc, job, host, receiver, agent_state, esp, slips>>

EspReboot ==
    /\ Fault("reboot")
    /\ session' = "off"
    /\ uart' = <<>>
    /\ last_by' = "none"
    /\ UNCHANGED <<pc, job, host, receiver, agent_state, mic_stops, slips>>

\* The server process ends, every thread with it, and starts again: signal_handler
\* ends a call, nothing ends a microphone session.  A killed process sends nothing.
Restart(graceful) ==
    /\ Fault("restart")
    /\ IF graceful /\ call_active
       THEN /\ call_lock = NoThread
            /\ Len(uart) < MaxUart
            /\ uart' = Append(uart, "CALL_STOP")
       ELSE UNCHANGED uart
    /\ pc' = [t \in Threads |-> "idle"]
    /\ job' = [t \in Threads |-> "none"]
    /\ mic_users' = 0 /\ mic_lock' = NoThread
    /\ call_active' = FALSE /\ call_lock' = NoThread
    /\ recording' = FALSE /\ streams' = {} /\ orphans' = 0
    /\ peer' = [t \in Threads |-> "reads"]
    /\ agent_state' = "idle"
    /\ last_by' = "none"
    /\ slips' = 0
    /\ UNCHANGED esp

---------------------------------------------------------------------------
Init ==
    /\ pc = [t \in Threads |-> "idle"]
    /\ job = [t \in Threads |-> "none"]
    /\ mic_users = 0 /\ mic_lock = NoThread
    /\ call_active = FALSE /\ call_lock = NoThread
    /\ recording = FALSE /\ streams = {} /\ orphans = 0
    /\ peer = [t \in Threads |-> "reads"]
    /\ agent_state = "idle"
    /\ uart = <<>> /\ last_by = "none"
    /\ session = "off" /\ mic_stops = 0
    /\ slips = 0 /\ faults = 0

MicStep(t) == Acq(t) \/ AcqCount(t) \/ AcqSend(t) \/ Rel(t) \/ RelCount(t) \/ RelSend(t)

CallStep(t) == \/ CallTest(t) \/ CallSet(t) \/ CallSend(t)
               \/ StopTest(t) \/ StopClear(t) \/ StopSend(t)

HandlerStep(t) == \/ BtnCheck(t) \/ Show(t) \/ RecOn(t) \/ RecOff(t)
                  \/ RxCheck(t) \/ Add(t) \/ Headers(t) \/ LoopEnds(t) \/ LoopGet(t)
                  \/ LoopWrite(t) \/ Remove(t) \/ RawStart(t) \/ RawStop(t)

\* What thread t does of itself, once it has a request.
Step(t) == MicStep(t) \/ CallStep(t) \/ HandlerStep(t)

\* What clients, users and faults do to thread t.
Outside(t) == \/ Begin(t) \/ ClientGone(t) \/ ClientStalls(t)
              \/ HeadersFail(t) \/ WriteFails(t)

Next == \/ \E t \in Threads : Step(t) \/ Outside(t)
        \/ EspHandle \/ MicStopArrives
        \/ UartLoses \/ EspReboot
        \/ \E graceful \in BOOLEAN : Restart(graceful)

Spec == Init /\ [][Next]_vars

\* A writer waiting for room on the wire.
WriteStep(t) == \/ AcqSend(t) \/ RelSend(t) \/ CallSend(t)
                \/ StopSend(t) \/ RawStart(t) \/ RawStop(t)

\* The scheduler runs every runnable thread, both ends keep reading the UART, and the
\* tty does not pass over one writer for ever (the port's write_timeout bounds the wait).
Fairness == /\ \A t \in Threads : WF_vars(Step(t)) /\ SF_vars(WriteStep(t))
            /\ WF_vars(EspHandle)
            /\ WF_vars(MicStopArrives)

FairSpec == Spec /\ Fairness

---------------------------------------------------------------------------
(* Properties.                                                             *)

\* Every variable keeps its type, and the count never goes below zero.
TypeOK ==
    /\ pc \in [Threads -> Points]
    /\ job \in [Threads -> Jobs \cup {"none"}]
    /\ mic_users \in Nat
    /\ mic_lock \in Threads \cup {NoThread}
    /\ call_active \in BOOLEAN
    /\ call_lock \in Threads \cup {NoThread}
    /\ recording \in BOOLEAN
    /\ streams \in SUBSET Threads
    /\ orphans \in Nat
    /\ peer \in [Threads -> Peers]
    /\ agent_state \in AgentStates
    /\ uart \in Seq(Controls)
    /\ last_by \in {"none", "mic", "call", "raw"}
    /\ session \in Sessions
    /\ mic_stops \in Nat
    /\ slips \in Nat
    /\ faults \in Nat

\* A lock is held exactly by the thread inside its `with` block.
LockOwner ==
    \A t \in Threads : /\ (pc[t] \in MicCritical) <=> (mic_lock = t)
                       /\ (pc[t] \in CallCritical) <=> (call_lock = t)

\* When mic_acquire or mic_release wrote the packet that decides the ESP32's session
\* and nobody is between counting and sending, the ESP32 will be capturing exactly
\* when _mic_users is positive: the count and the wire move together under _mic_lock.
MicAgreement ==
    last_by = "mic" /\ mic_lock = NoThread =>
        ((Settled = "audio") <=> (mic_users > 0))

\* mic_acquire and mic_release read _call_active before they count, so a call can
\* begin in between.  Because both hold _mic_lock, at most one count change happens
\* between the start of a call and its end, whatever the number of threads.
AtMostOneSlip == call_active => slips <= 1

\* call_acquire and call_release act on the flag they tested: it has not changed
\* between the test and the assignment, so two calls never start one over the other.
CallTestHolds ==
    \A t \in Threads : /\ pc[t] = "call_set" => ~call_active
                       /\ pc[t] = "stop_clear" => call_active

\* A queue is registered exactly while its handler is between add_stream and
\* remove_stream, however the client leaves; the only queues without a handler are
\* those of clients that were gone before the headers, one for each such fault.
StreamsAccounted ==
    /\ streams = {t \in Threads : pc[t] \in {"headers", "remove"} \cup LoopPoints}
    /\ orphans <= faults

\* No thread keeps _mic_lock or _call_lock for ever, though it writes to the UART with
\* _mic_lock held: whether it counts and sends, returns early in a call, or fails in the
\* write, each lock is free again and again.
LocksReleased == []<>(mic_lock = NoThread) /\ []<>(call_lock = NoThread)

\* When a call ends its listeners end, with or without microphone data and even if their
\* client has closed its connection, unless a new call begins first.  The one client that
\* can hold its listener for ever is one that keeps the connection and stops reading: the
\* write has no timeout.
ListenersEnd ==
    \A t \in Handlers :
        (pc[t] \in LoopPoints /\ job[t] = "call_rx" /\ ~call_active)
            ~> (pc[t] \notin LoopPoints \/ call_active \/ peer[t] = "stalls")

\* http_api_server_v2.py:38 and OpenClaw_API_Reference.md:191: the count decides the
\* hardware, START on the first user and STOP on the last.  With nobody at work and no
\* call, a counted user has the microphone.
CountedUserHasMic ==
    (mic_users > 0 /\ ~call_active /\ \A t \in Threads : pc[t] \in {"idle"} \cup LoopPoints)
        => Settled = "audio"

\* call_release "End the live-call session.": once no call is on and nobody is at work,
\* the ESP32 is not left in call mode.
CallStopEndsCall ==
    (last_by = "call" /\ ~call_active /\ \A t \in Threads : pc[t] \in {"idle"} \cup LoopPoints)
        => Settled # "call"

=============================================================================

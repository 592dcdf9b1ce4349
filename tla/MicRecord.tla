------------------------------- MODULE MicRecord -------------------------------
(***************************************************************************)
(* MicReceiver as a recorder: the packets of the ESP32's microphone on     *)
(* their way to the server, _handle_packet in the reader thread, the       *)
(* recording and its WAV, and the rate a new listener is told.             *)
(*                                                                         *)
(* A chunk is the payload of one PKT_MIC_DATA, known by its number.  When  *)
(* sessions begin and end is free here: MicCall and EspAudio say when they *)
(* do.  A packet of which a byte is lost, damaged or taken by check_ack is *)
(* dropped, any number of them; UartFrame says how the parser does it.     *)
(***************************************************************************)
EXTENDS Naturals, Sequences, SequencesExt

CONSTANTS
    Rates,        \* sample rates of sessions
    MaxWire,      \* packets on the wire to the server
    MaxChunks     \* bound on the chunks of a behaviour

\* 0 stands for no session; a client that asks for a rate of 0 is left out.
ASSUME RatesOfSessions == Rates \subseteq Nat \ {0}

DefaultRate == 16000

VARIABLES
    session,      \* rate of the ESP32's session, 0 without one
    made,         \* made[n]: the rate chunk n was captured at
    wire,         \* <<packet type, rate or chunk>>, oldest first
    sample_rate, recording, pcm_buf,   \* of MicReceiver
    wav,          \* what get_wav makes: the rates of its samples, the rate in its header,
                  \* 0 until it is read, and history: whether a session began meanwhile
    listener,     \* a stream's handler, the rate of its header, and whether a session
                  \* began since it was connected
    \* History, read by no action.
    handled,      \* the last chunk that came off the wire, 0 before the first
    lost,         \* the chunks that were dropped
    due,          \* the rate of the last session whose start came off the wire, dropped or not
    from,         \* the first chunk that comes after the start of this recording
    undisturbed,  \* no stop of a session was on the wire since it began, nor is it stopped
    mixed         \* a session began after the first chunk of the recording, or the start of
                  \* one of its sessions was dropped

esp == <<session, made>>
receiver == <<sample_rate, recording, pcm_buf>>
history == <<handled, lost, due, from, undisturbed, mixed>>
vars == <<esp, wire, receiver, wav, listener, history>>

---------------------------------------------------------------------------
(* The ESP32.                                                              *)

Send(type, x) == Len(wire) < MaxWire /\ wire' = Append(wire, <<type, x>>)

\* start_session
EspBegins(r) ==
    /\ Send("MIC_START", r) /\ session' = r
    /\ UNCHANGED <<made, receiver, wav, listener, history>>

EspCaptures ==
    /\ session # 0 /\ Len(made) < MaxChunks
    /\ Send("MIC_DATA", Len(made) + 1) /\ made' = Append(made, session)
    /\ UNCHANGED <<session, receiver, wav, listener, history>>

\* stop_session, also without a session.
EspEnds ==
    /\ Send("MIC_STOP", 0) /\ session' = 0
    /\ undisturbed' = FALSE
    /\ UNCHANGED <<made, receiver, wav, listener, handled, lost, due, from, mixed>>

---------------------------------------------------------------------------
(* The reader thread: _reader_loop and _handle_packet.                     *)

Handling(type) == wire # <<>> /\ Head(wire)[1] = type /\ wire' = Tail(wire)

\* History: what was begun under the rate of an earlier session.
SessionSeen ==
    /\ due' = Head(wire)[2]
    /\ listener' = [listener EXCEPT !.stale = listener.at # "off"]
    /\ mixed' = (mixed \/ pcm_buf # <<>>)
    /\ wav' = [wav EXCEPT !.mixed = wav.mixed \/ wav.rate = 0]

\* Fault: a session begins a new recording.
MicStartClears ==
    /\ Handling("MIC_START")
    /\ sample_rate' = Head(wire)[2] /\ pcm_buf' = <<>>
    /\ SessionSeen
    /\ UNCHANGED <<esp, recording, handled, lost, from, undisturbed>>

MicStart ==
    /\ Handling("MIC_START")
    /\ sample_rate' = Head(wire)[2]
    /\ SessionSeen
    /\ UNCHANGED <<esp, recording, pcm_buf, handled, lost, from, undisturbed>>

\* The fan-out to the streams, in a block of its own, is MicStream's.
MicData ==
    /\ Handling("MIC_DATA")
    /\ pcm_buf' = IF recording THEN Append(pcm_buf, Head(wire)[2]) ELSE pcm_buf
    /\ handled' = Head(wire)[2] /\ mixed' = (mixed \/ (recording /\ due # sample_rate))
    /\ UNCHANGED <<esp, sample_rate, recording, wav, listener, lost, due, from, undisturbed>>

\* The stop of an earlier session too.
MicStop ==
    /\ Handling("MIC_STOP")
    /\ recording' = FALSE
    /\ UNCHANGED <<esp, sample_rate, pcm_buf, wav, listener, history>>

\* A damaged packet: `continue`, with nothing handled and nobody told.
Dropped ==
    /\ \/ /\ Handling("MIC_START") /\ due' = Head(wire)[2] /\ UNCHANGED <<handled, lost>>
       \/ /\ Handling("MIC_DATA") /\ handled' = Head(wire)[2] /\ lost' = lost \cup {handled'}
          /\ UNCHANGED due
       \/ Handling("MIC_STOP") /\ UNCHANGED <<handled, lost, due>>
    /\ UNCHANGED <<esp, receiver, wav, listener, from, undisturbed, mixed>>

---------------------------------------------------------------------------
(* The recording.                                                          *)

Began ==
    /\ from' = handled + 1
    /\ undisturbed' = \A i \in 1..Len(wire) : wire[i][1] # "MIC_STOP"

\* Fault: a recording is added to the one before it.
StartRecordingOn ==
    /\ recording' = TRUE
    /\ Began
    /\ UNCHANGED <<esp, wire, sample_rate, pcm_buf, wav, listener, handled, lost, due, mixed>>

start_recording ==
    /\ recording' = TRUE /\ pcm_buf' = <<>>
    /\ Began /\ mixed' = FALSE
    /\ UNCHANGED <<esp, wire, sample_rate, wav, listener, handled, lost, due>>

stop_recording ==
    /\ recording' = FALSE
    /\ undisturbed' = FALSE
    /\ UNCHANGED <<esp, wire, sample_rate, pcm_buf, wav, listener, handled, lost, due, from,
                   mixed>>

\* get_wav copies the samples with _lock ...
WavSamples ==
    /\ wav.rate # 0
    /\ wav' = [samples |-> {made[n] : n \in ToSet(pcm_buf)}, rate |-> 0, mixed |-> mixed]
    /\ UNCHANGED <<esp, wire, receiver, listener, history>>

\* Fault: the rate of the documents, "16kHz, 16-bit, mono".
WavHeaderDefault ==
    /\ wav.rate = 0 /\ wav' = [wav EXCEPT !.rate = DefaultRate]
    /\ UNCHANGED <<esp, wire, receiver, listener, history>>

\* ... and reads the rate without it.
WavHeader ==
    /\ wav.rate = 0 /\ wav' = [wav EXCEPT !.rate = sample_rate]
    /\ UNCHANGED <<esp, wire, receiver, listener, history>>

---------------------------------------------------------------------------
(* A listener of the streams.                                              *)

Listener(at, rate) == [at |-> at, rate |-> rate, stale |-> FALSE]

\* add_stream
Add ==
    /\ listener.at = "off" /\ listener' = Listener("added", DefaultRate)
    /\ UNCHANGED <<esp, wire, receiver, wav, history>>

\* Fault: the header names the documented rate.
HeaderDefault ==
    /\ listener.at = "added" /\ listener' = [listener EXCEPT !.at = "told"]
    /\ UNCHANGED <<esp, wire, receiver, wav, history>>

\* X-Audio-Rate
Header ==
    /\ listener.at = "added" /\ listener' = [listener EXCEPT !.at = "told", !.rate = sample_rate]
    /\ UNCHANGED <<esp, wire, receiver, wav, history>>

\* The client goes: remove_stream.
Leave ==
    /\ listener.at = "told" /\ listener' = Listener("off", DefaultRate)
    /\ UNCHANGED <<esp, wire, receiver, wav, history>>

---------------------------------------------------------------------------
Init ==
    /\ session = 0 /\ made = <<>> /\ wire = <<>>
    /\ sample_rate = DefaultRate /\ recording = FALSE /\ pcm_buf = <<>>
    /\ wav = [samples |-> {}, rate |-> DefaultRate, mixed |-> FALSE]
    /\ listener = Listener("off", DefaultRate)
    /\ handled = 0 /\ lost = {} /\ due = DefaultRate
    /\ from = 1 /\ undisturbed = FALSE /\ mixed = FALSE

Esp == EspCaptures \/ EspEnds \/ \E r \in Rates : EspBegins(r)

Reader == MicStart \/ MicData \/ MicStop \/ Dropped

Next == \/ Esp \/ Reader
        \/ start_recording \/ stop_recording \/ WavSamples \/ WavHeader
        \/ Add \/ Header \/ Leave

Spec == Init /\ [][Next]_vars

---------------------------------------------------------------------------
(* Properties.                                                             *)

OnTheWay(n) == \E i \in 1..Len(wire) : wire[i] = <<"MIC_DATA", n>>

\* However starts, stops, sessions, late PKT_MIC_STOPs and damaged packets follow each other,
\* a recording is, in order, the chunks from its start to its last that were not dropped, and
\* nothing of an earlier one; and unless the stop of a session comes in between, it goes on,
\* and every chunk the ESP32 sends from its start on is recorded, dropped or still on its way,
\* a new session or a change of rate included.
RecordingWhole ==
    /\ \A i, j \in 1..Len(pcm_buf) : i < j => pcm_buf[i] < pcm_buf[j]
    /\ pcm_buf # <<>> => ToSet(pcm_buf) = (from..pcm_buf[Len(pcm_buf)]) \ lost
    /\ undisturbed => /\ recording
                      /\ ToSet(pcm_buf) = (from..handled) \ lost
                      /\ \A n \in (handled + 1)..Len(made) : OnTheWay(n)

\* A chunk has the rate in the header of the listener it is put in the queue for, unless the
\* listener was already connected when a session began, or the start of the chunk's session
\* was dropped and the receiver has another rate.
HeaderRate ==
    [][\A n \in 1..Len(made) :
          MicData /\ Head(wire)[2] = n /\ due = sample_rate
             /\ listener.at = "told" /\ ~listener.stale => listener.rate = made[n]]_vars

\* A WAV has the rate of its samples in its header, and samples of one rate, unless a session
\* began after the first of them, or the start of theirs was dropped: then it has the rate of
\* the last session the receiver knows of, whatever they are.
WavRate == ~wav.mixed /\ wav.rate # 0 => wav.samples \subseteq {wav.rate}

=============================================================================

------------------------------ MODULE EspAudio ------------------------------
(***************************************************************************)
(* The ESP32 firmware, luckfox_audio_fulldup.ino: loop() and the functions *)
(* it calls.  One thread repeats four stages: parse the packets that have  *)
(* arrived, drain the speaker ring, capture the microphone, show the state.*)
(*                                                                         *)
(* A packet arrives whole or is lost (see UartFrame).  A byte of audio is  *)
(* its place in the sender's stream modulo Tags: an even place is the low  *)
(* byte of a 16-bit sample, the next one its high byte.  The samples of    *)
(* the microphone, the text on the display and the fill percentage are     *)
(* left out.                                                               *)
(***************************************************************************)
EXTENDS Integers, Sequences

CONSTANTS
    RingSize,     \* RING_SIZE
    CallLimit,    \* CALL_RING_LIMIT
    DrainMax,     \* sizeof(pcm16_buf)
    PacketLens,   \* payload lengths of PKT_AUDIO_DATA, up to MAX_PAYLOAD
    Rates,        \* sample rates a session can ask for
    DefaultRate,  \* SAMPLE_RATE, which setup() installs
    Tags,         \* see above
    MaxUp,        \* packets on the wire to the LuckFox
    MaxFaults     \* bound on lost packets, driver failures and reboots

ASSUME RingSizes == /\ RingSize \in Nat /\ RingSize % 2 = 0
                    /\ CallLimit \in Nat /\ CallLimit % 2 = 0 /\ CallLimit < RingSize
                    /\ DrainMax \in Nat \ {0} /\ DrainMax % 2 = 0
ASSUME LensBounded == PacketLens \subseteq 1..CallLimit
ASSUME RatesKnown == Rates \subseteq Nat \ {0} /\ DefaultRate \in Rates
ASSUME TagsEven == Tags \in Nat \ {0} /\ Tags % 2 = 0
ASSUME BoundsNat == MaxUp \in Nat /\ MaxUp >= 2 /\ MaxFaults \in Nat

VARIABLES
    call_mode, streaming, mic_active,  \* the session flags
    i2s_running, i2s_cur_rate,         \* the I2S driver as the program knows it
    i2s_installed,                     \* whether the driver holds the port
    ring, ring_head, ring_tail,        \* the speaker ring
    oled_state,
    phase,        \* stage of loop(): "parse", "drain", "capture" or "show"
    uplink,       \* packets to the LuckFox, [kind, rate], that it has not read
    announced,    \* rate of the last PKT_MIC_START the LuckFox read, 0 after a stop
    missed,       \* a start or stop was lost after it
    next_tag,     \* place in its stream of the sender's next byte
    spoken,       \* bytes given to i2s_write in this round
    faults

session == <<call_mode, streaming, mic_active>>
driver == <<i2s_running, i2s_cur_rate, i2s_installed>>
heard == <<announced, missed>>
buffer == <<ring, ring_head, ring_tail>>
vars == <<session, driver, buffer, oled_state, phase, uplink, heard, next_tag, spoken, faults>>

Kinds == {"MIC_START", "MIC_DATA", "MIC_STOP", "ACK", "NACK", "STATUS"}
Packet(kind, rate) == [kind |-> kind, rate |-> rate]

\* What a packet tells MicReceiver of the microphone's rate.
Tells(p) == p.kind \in {"MIC_START", "MIC_STOP"}

Fault == faults < MaxFaults /\ faults' = faults + 1

\* send_packet: the wire takes them all, or loop() waits.
SendPackets(ps) == Len(uplink) + Len(ps) <= MaxUp /\ uplink' = uplink \o ps

---------------------------------------------------------------------------
(* The ring.                                                               *)

ring_used == (ring_head - ring_tail + RingSize) % RingSize

ring_free ==
    IF call_mode THEN (IF ring_used >= CallLimit THEN 0 ELSE CallLimit - ring_used)
    ELSE RingSize - 1 - ring_used

\* Fault: the head is not wrapped.
WriteWithoutWrap(len) ==
    /\ ring' = [i \in 0..(RingSize - 1) |->
                  LET k == (i - ring_head + RingSize) % RingSize IN
                  IF k < len THEN (next_tag + k) % Tags ELSE ring[i]]
    /\ ring_head' = ring_head + len

\* ring_write of the sender's next len bytes.
ring_write(len) ==
    /\ ring' = [i \in 0..(RingSize - 1) |->
                  LET k == (i - ring_head + RingSize) % RingSize IN
                  IF k < len THEN (next_tag + k) % Tags ELSE ring[i]]
    /\ ring_head' = (ring_head + len) % RingSize

\* The bytes between tail and head, oldest first.
Contents == [i \in 1..ring_used |-> ring[(ring_tail + i - 1) % RingSize]]

---------------------------------------------------------------------------
(* Sessions.                                                               *)

\* Fault: a driver that runs is kept whatever its rate.
KeepDriver(rate) ==
    \/ i2s_running /\ UNCHANGED <<driver, faults>>
    \/ /\ ~i2s_running
       /\ i2s_running' = TRUE /\ i2s_cur_rate' = rate /\ i2s_installed' = TRUE
       /\ UNCHANGED faults

\* setup_i2s: a failure is only logged.  When the pins could not be set the driver stays
\* installed, and no later i2s_driver_install gets the port.
setup_i2s(rate) ==
    \/ i2s_running /\ i2s_cur_rate = rate /\ UNCHANGED <<driver, faults>>
    \/ i2s_installed /\ ~i2s_running /\ UNCHANGED <<driver, faults>>
    \/ /\ IF i2s_running THEN i2s_cur_rate # rate ELSE ~i2s_installed
       /\ \/ /\ i2s_running' = TRUE /\ i2s_cur_rate' = rate /\ i2s_installed' = TRUE
             /\ UNCHANGED faults
          \/ /\ i2s_running' = FALSE /\ i2s_installed' \in BOOLEAN
             /\ UNCHANGED i2s_cur_rate /\ Fault

\* Fault: a session goes on with the ring of the one before.
KeepRing(rate, is_call) ==
    /\ setup_i2s(rate)
    /\ UNCHANGED buffer
    /\ call_mode' = is_call /\ streaming' = TRUE /\ mic_active' = TRUE
    /\ SendPackets(<<Packet("MIC_START", rate), Packet("ACK", 0)>>)

start_session(rate, is_call) ==
    /\ setup_i2s(rate)
    /\ ring_head' = 0 /\ ring_tail' = 0 /\ UNCHANGED ring
    /\ call_mode' = is_call /\ streaming' = TRUE /\ mic_active' = TRUE
    /\ SendPackets(<<Packet("MIC_START", rate), Packet("ACK", 0)>>)

\* PKT_AUDIO_START and PKT_CALL_START.  The sender begins a stream of its own.
StartPacket(rate, is_call) ==
    /\ phase = "parse"
    /\ start_session(rate, is_call)
    /\ next_tag' = 0
    /\ UNCHANGED <<oled_state, phase, heard, spoken>>

\* Fault: the call flag outlives the call.
StopButCall ==
    /\ phase = "parse"
    /\ streaming' = FALSE /\ mic_active' = FALSE /\ UNCHANGED call_mode
    /\ SendPackets(<<Packet("MIC_STOP", 0), Packet("ACK", 0)>>)
    /\ UNCHANGED <<driver, buffer, oled_state, phase, heard, next_tag, spoken, faults>>

\* PKT_AUDIO_STOP and PKT_CALL_STOP: the same stop_session.
StopPacket ==
    /\ phase = "parse"
    /\ streaming' = FALSE /\ mic_active' = FALSE /\ call_mode' = FALSE
    /\ SendPackets(<<Packet("MIC_STOP", 0), Packet("ACK", 0)>>)
    /\ UNCHANGED <<driver, buffer, oled_state, phase, heard, next_tag, spoken, faults>>

---------------------------------------------------------------------------
(* PKT_AUDIO_DATA.                                                         *)

Receiving == streaming \/ call_mode

\* The sender moves on by len bytes, whatever becomes of them.
Sent(len) == next_tag' = (next_tag + len) % Tags

DataStored(len) ==
    /\ phase = "parse"
    /\ Receiving /\ ring_free >= len
    /\ ring_write(len) /\ UNCHANGED ring_tail
    /\ Sent(len)
    /\ UNCHANGED <<session, driver, oled_state, phase, uplink, heard, spoken, faults>>

\* Fault: one byte too few is thrown away.
DiscardShort(len) ==
    /\ phase = "parse"
    /\ call_mode /\ ring_free < len
    /\ ring_tail' = (ring_tail + (len - ring_free) - 1) % RingSize
    /\ ring_write(len)
    /\ Sent(len)
    /\ UNCHANGED <<session, driver, oled_state, phase, uplink, heard, spoken, faults>>

\* Fault: in a call too a chunk that finds no room is dropped.
DataDropsNewest(len) ==
    /\ phase = "parse"
    /\ call_mode /\ ring_free < len
    /\ Sent(len)
    /\ UNCHANGED <<session, driver, buffer, oled_state, phase, uplink, heard, spoken, faults>>

\* In a call the oldest bytes make room.
DataDiscardsOldest(len) ==
    /\ phase = "parse"
    /\ call_mode /\ ring_free < len
    /\ ring_tail' = (ring_tail + (len - ring_free)) % RingSize
    /\ ring_write(len)
    /\ Sent(len)
    /\ UNCHANGED <<session, driver, oled_state, phase, uplink, heard, spoken, faults>>

DataRefused(len) ==
    /\ phase = "parse"
    /\ streaming /\ ~call_mode /\ ring_free < len
    /\ SendPackets(<<Packet("NACK", 0)>>)
    /\ Sent(len)
    /\ UNCHANGED <<session, driver, buffer, oled_state, phase, heard, spoken, faults>>

\* Outside a session, or with a checksum error.
DataDropped(len) ==
    /\ phase = "parse"
    /\ IF Receiving THEN Fault ELSE UNCHANGED faults
    /\ Sent(len)
    /\ UNCHANGED <<session, driver, buffer, oled_state, phase, uplink, heard, spoken>>

---------------------------------------------------------------------------
(* The other stages of loop().                                             *)

\* No byte is available.
Parsed ==
    /\ phase = "parse"
    /\ phase' = "drain"
    /\ UNCHANGED <<session, driver, buffer, oled_state, uplink, heard, next_tag, spoken,
                   faults>>

\* Fault: nothing is played once the stream has stopped.
DrainStreaming ==
    /\ phase = "drain" /\ phase' = "capture"
    /\ IF i2s_running /\ streaming
       THEN LET n == IF ring_used < DrainMax THEN ring_used ELSE DrainMax IN
               /\ ring_tail' = (ring_tail + n) % RingSize
               /\ spoken' = SubSeq(Contents, 1, n - (n % 2))
       ELSE UNCHANGED ring_tail /\ spoken' = <<>>
    /\ UNCHANGED <<session, driver, ring, ring_head, oled_state, uplink, heard, next_tag,
                   faults>>

\* drain_ring_to_speaker: ring_read takes n bytes, an odd last one is not played.
Drain ==
    /\ phase = "drain"
    /\ phase' = "capture"
    /\ IF i2s_running /\ (streaming \/ ring_used > 0)
       THEN LET n == IF ring_used < DrainMax THEN ring_used ELSE DrainMax IN
               /\ ring_tail' = (ring_tail + n) % RingSize
               /\ spoken' = SubSeq(Contents, 1, n - (n % 2))
       ELSE UNCHANGED ring_tail /\ spoken' = <<>>
    /\ UNCHANGED <<session, driver, ring, ring_head, oled_state, uplink, heard, next_tag,
                   faults>>

\* capture_and_send_mic: samples at the driver's rate, if the driver has any.
Capture ==
    /\ phase = "capture"
    /\ phase' = "show"
    /\ \/ /\ mic_active /\ i2s_running
          /\ SendPackets(<<Packet("MIC_DATA", i2s_cur_rate)>>)
       \/ UNCHANGED uplink
    /\ spoken' = <<>>
    /\ UNCHANGED <<session, driver, buffer, oled_state, heard, next_tag, faults>>

Desired == CASE call_mode -> "CALL"
             [] ~call_mode /\ streaming /\ mic_active -> "PLAY_REC"
             [] ~call_mode /\ streaming /\ ~mic_active -> "PLAYING"
             [] ~call_mode /\ ~streaming /\ mic_active -> "RECORDING"
             [] OTHER -> "IDLE"

\* The display follows the flags; once a second a session reports its ring.
Show ==
    /\ phase = "show"
    /\ phase' = "parse"
    /\ oled_state' = Desired
    /\ \/ Receiving /\ SendPackets(<<Packet("STATUS", 0)>>)
       \/ UNCHANGED uplink
    /\ UNCHANGED <<session, driver, buffer, heard, next_tag, spoken, faults>>

---------------------------------------------------------------------------
(* The other end, and faults.                                              *)

\* A sender ends its stream anywhere and another begins one in the same session.
NewStream ==
    /\ next_tag' = 0
    /\ UNCHANGED <<session, driver, buffer, oled_state, phase, uplink, heard, spoken, faults>>

\* The LuckFox reads a packet: MicReceiver keeps the rate of the last start.
LuckfoxReads ==
    /\ uplink # <<>>
    /\ IF Tells(Head(uplink)) THEN announced' = Head(uplink).rate /\ missed' = FALSE
       ELSE UNCHANGED heard
    /\ uplink' = Tail(uplink)
    /\ UNCHANGED <<session, driver, buffer, oled_state, phase, next_tag, spoken, faults>>

\* The LuckFox drops a packet that came damaged, or read its bytes as an answer.
LuckfoxDrops ==
    /\ uplink # <<>>
    /\ missed' = (missed \/ Tells(Head(uplink)))
    /\ uplink' = Tail(uplink)
    /\ Fault
    /\ UNCHANGED <<session, driver, buffer, oled_state, phase, announced, next_tag, spoken>>

\* Power-on values, and setup(); ok: the driver could be installed and got its pins.
Reboot(ok) ==
    /\ Fault
    /\ call_mode' = FALSE /\ streaming' = FALSE /\ mic_active' = FALSE
    /\ i2s_running' = ok /\ i2s_cur_rate' = (IF ok THEN DefaultRate ELSE 0)
    /\ i2s_installed' \in {ok, TRUE}
    /\ ring' = [i \in 0..(RingSize - 1) |-> 0] /\ ring_head' = 0 /\ ring_tail' = 0
    /\ oled_state' = "IDLE" /\ phase' = "parse" /\ spoken' = <<>>
    /\ UNCHANGED <<uplink, heard, next_tag>>

Init ==
    /\ call_mode = FALSE /\ streaming = FALSE /\ mic_active = FALSE
    /\ i2s_running = TRUE /\ i2s_cur_rate = DefaultRate /\ i2s_installed = TRUE
    /\ ring = [i \in 0..(RingSize - 1) |-> 0] /\ ring_head = 0 /\ ring_tail = 0
    /\ oled_state = "IDLE" /\ phase = "parse"
    /\ uplink = <<>> /\ announced = 0 /\ missed = FALSE
    /\ next_tag = 0 /\ spoken = <<>> /\ faults = 0

AudioData(len) == \/ DataStored(len) \/ DataDiscardsOldest(len)
                  \/ DataRefused(len) \/ DataDropped(len)

Next == \/ \E rate \in Rates, is_call \in BOOLEAN : StartPacket(rate, is_call)
        \/ StopPacket
        \/ \E len \in PacketLens : AudioData(len)
        \/ Parsed \/ Drain \/ Capture \/ Show
        \/ NewStream \/ LuckfoxReads \/ LuckfoxDrops
        \/ \E ok \in BOOLEAN : Reboot(ok)

Spec == Init /\ [][Next]_vars

\* process_byte is faster than the line, so the parse stage ends; the LuckFox reads.
Fairness == WF_vars(Parsed) /\ WF_vars(Drain) /\ WF_vars(Capture) /\ WF_vars(Show)
            /\ WF_vars(LuckfoxReads)

FairSpec == Spec /\ Fairness

---------------------------------------------------------------------------
(* Properties.                                                             *)

\* Every variable keeps its type: the indices stay in the ring, the wire in its bound.
TypeOK ==
    /\ call_mode \in BOOLEAN /\ streaming \in BOOLEAN /\ mic_active \in BOOLEAN
    /\ i2s_running \in BOOLEAN /\ i2s_cur_rate \in Rates \cup {0} /\ i2s_installed \in BOOLEAN
    /\ ring \in [0..(RingSize - 1) -> 0..(Tags - 1)]
    /\ ring_head \in 0..(RingSize - 1) /\ ring_tail \in 0..(RingSize - 1)
    /\ oled_state \in {"IDLE", "PLAYING", "RECORDING", "PLAY_REC", "CALL"}
    /\ phase \in {"parse", "drain", "capture", "show"}
    /\ uplink \in Seq([kind : Kinds, rate : Rates \cup {0}]) /\ Len(uplink) <= MaxUp
    /\ announced \in Rates \cup {0} /\ missed \in BOOLEAN
    /\ next_tag \in 0..(Tags - 1)
    /\ spoken \in Seq(0..(Tags - 1))
    /\ faults \in 0..MaxFaults

\* The three flags always describe one of three sessions: none, playback with the
\* microphone, or a call.  The displays PLAYING and RECORDING are never shown.
FlagsAgree ==
    /\ mic_active = streaming
    /\ call_mode => streaming
    /\ oled_state \notin {"PLAYING", "RECORDING"}

\* However fast the LuckFox sends, a call never has more than CALL_RING_LIMIT bytes
\* waiting for the speaker, also when it follows a full playback ring.
CallBudget == call_mode => ring_used <= CallLimit

\* The packets before packet i of the wire that tell a rate.
TellsBefore(i) == {k \in 1..(i - 1) : Tells(uplink[k])}

\* The rate the LuckFox will have been told when it reads packet i.
ToldBefore(i) ==
    IF TellsBefore(i) = {} THEN announced
    ELSE uplink[CHOOSE k \in TellsBefore(i) : \A m \in TellsBefore(i) : m <= k].rate

\* Microphone data reaches the LuckFox only between a PKT_MIC_START and the next stop,
\* and was sampled at the rate that start announced, through rate changes, failures of
\* the driver and reboots; unless the line lost the announcement itself.
MicAtAnnouncedRate ==
    \A i \in 1..Len(uplink) : uplink[i].kind = "MIC_DATA" =>
        \/ uplink[i].rate = ToldBefore(i)
        \/ missed /\ TellsBefore(i) = {}

\* The speaker is given both bytes of one sample, low byte first.
AlignedPlayback ==
    \A i \in 1..Len(spoken) :
        i % 2 = 1 => /\ spoken[i] % 2 = 0
                     /\ i < Len(spoken) /\ spoken[i + 1] = spoken[i] + 1

\* What is left in the ring when a session stops is played, unless a new one begins
\* or there is no driver.
RingDrains ==
    (~streaming /\ i2s_running) ~> (ring_used = 0 \/ streaming \/ ~i2s_running)

\* The ring is the queue that AudioQueue promises: no byte is overwritten, repeated or
\* reordered, a chunk for which there is room is stored whole, a call always takes a chunk
\* and keeps the newest bytes, and what leaves the ring is what the speaker plays.
Queue == INSTANCE AudioQueue WITH
            ChunkLens <- PacketLens, Capacity <- RingSize - 1, CallCapacity <- CallLimit,
            queue <- Contents,
            mode <- IF call_mode THEN "call" ELSE IF streaming THEN "play" ELSE "off",
            next <- next_tag, out <- spoken, faults <- faults

RingIsQueue == Queue!Spec

=============================================================================

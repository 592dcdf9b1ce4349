------------------------------ MODULE UartFrame ------------------------------
(***************************************************************************)
(* One direction of the serial line, byte by byte.  The threads that write *)
(* a packet (build_packet and uart_write on the LuckFox, which has no lock *)
(* around the port; send_packet in the firmware, with loop() as the only   *)
(* thread) and the parser that reads it (process_byte in the firmware,     *)
(* _reader_loop in audio_sender.py): both sides use the same frame         *)
(*                                                                         *)
(*     SYNC_0 SYNC_1 type length length payload ... checksum               *)
(*                                                                         *)
(* and parse it alike.  A byte is parsed as it is written: the buffers in  *)
(* between only delay it.                                                  *)
(***************************************************************************)
EXTENDS Integers, Sequences

CONSTANTS
    Threads,      \* the threads that write to the port
    Packets,      \* the packets they write, [type, payload]
    NoPacket,
    ByteXor(_, _), \* the ^ of two bytes
    SYNC_0, SYNC_1,
    MAX_PAYLOAD,  \* MAX_PAYLOAD of the firmware, 1024 in _reader_loop
    Noise,        \* what a damaged byte can become
    MaxDamage     \* bound on the faults of the line, its drivers and its threads

MaxByte == 255
MaxWord == 65535

Byte == 0..MaxByte
Word == 0..MaxWord

ASSUME XorOfBytes ==
    \A a, b \in Byte : /\ ByteXor(a, b) \in Byte /\ ByteXor(a, b) = ByteXor(b, a)
                       /\ ByteXor(ByteXor(a, b), b) = a /\ ByteXor(0, b) = b
ASSUME SyncBytes == SYNC_0 \in Byte /\ SYNC_1 \in Byte /\ SYNC_0 # SYNC_1
ASSUME PayloadBound == MAX_PAYLOAD \in Word
ASSUME PacketsFit ==
    /\ Packets \subseteq [type : Byte, payload : Seq(Byte)]
    /\ \A p \in Packets : Len(p.payload) <= MAX_PAYLOAD
ASSUME NoPacketIsNone == NoPacket \notin Packets
ASSUME NoiseBytes == Noise \subseteq Byte /\ MaxDamage \in Nat

VARIABLES
    w,        \* per thread: its packet, the bytes of it that were put, their checksum, and
              \* what befell it: "whole", "spoiled" (one byte changed that is neither sync
              \* nor length) or "damaged"
    rx,       \* the parser: pstate, pkt_type, pkt_len, payload_buf, running_xor
    out,      \* the packet handed to the handler in this step
    damage,   \* number of faults
    \* History, read by no action.
    wrote,    \* the packet whose last byte was put in this step, when it is whole
    settled   \* undamaged packets since the last fault, up to Recovery

vars == <<w, rx, out, damage, wrote, settled>>

Idle == [packet |-> NoPacket, sent |-> 0, sum |-> 0, mark |-> "whole"]

FrameLen(p) == Len(p.payload) + 6

\* After a fault the parser may still wait for 3 bytes of a header, a payload and a checksum;
\* a frame of 6 bytes is the shortest that it then swallows.
Recovery == 2 + (MAX_PAYLOAD + 3) \div 6

---------------------------------------------------------------------------
(* The writer.                                                             *)

\* The two bytes of a length, as struct.pack('<H') lays them out.
Low(n) == n % 256
High(n) == n \div 256

\* Byte i of the frame; sum is the checksum of what went before.
FrameByte(p, i, sum) ==
    CASE i = 1 -> SYNC_0
      [] i = 2 -> SYNC_1
      [] i = 3 -> p.type
      [] i = 4 -> Low(Len(p.payload))
      [] i = 5 -> High(Len(p.payload))
      [] i \in 6..(5 + Len(p.payload)) -> p.payload[i - 5]
      [] OTHER -> sum

NextByte(t) == FrameByte(w[t].packet, w[t].sent + 1, w[t].sum)

IsLast(t) == w[t].sent + 1 = FrameLen(w[t].packet)

\* The checksum covers everything between the sync bytes and itself.
SumAfter(t) ==
    IF w[t].sent \in 2..(4 + Len(w[t].packet.payload))
    THEN ByteXor(w[t].sum, NextByte(t)) ELSE w[t].sum

\* Thread t has put one more byte; mark is what has become of its packet.
Advanced(t, mark) ==
    IF IsLast(t) THEN Idle
    ELSE [w[t] EXCEPT !.sent = @ + 1, !.sum = SumAfter(t), !.mark = mark]

InFrame(t) == w[t].sent > 0

\* Every packet on its way is damaged.
Marked(ws) == [t \in Threads |->
                 IF ws[t].sent > 0 THEN [ws[t] EXCEPT !.mark = "damaged"] ELSE ws[t]]

---------------------------------------------------------------------------
(* The parser.                                                             *)

To(r, state) == [r EXCEPT !.pstate = state]

\* Fault: any length is believed.
AnyLength(len) == IF len = 0 THEN "READ_CHECKSUM" ELSE "READ_PAYLOAD"

\* The state after the second byte of the length: too long a packet is not read.
AfterLength(len) == IF len = 0 THEN "READ_CHECKSUM"
                    ELSE IF len <= MAX_PAYLOAD THEN "READ_PAYLOAD" ELSE "WAIT_SYNC0"

process_byte(r, b) ==
    CASE r.pstate = "WAIT_SYNC0" -> IF b = SYNC_0 THEN To(r, "WAIT_SYNC1") ELSE r
      [] r.pstate = "WAIT_SYNC1" -> To(r, IF b = SYNC_1 THEN "READ_TYPE" ELSE "WAIT_SYNC0")
      [] r.pstate = "READ_TYPE" ->
            [r EXCEPT !.pstate = "READ_LEN0", !.pkt_type = b, !.running_xor = b]
      [] r.pstate = "READ_LEN0" ->
            [r EXCEPT !.pstate = "READ_LEN1", !.pkt_len = b, !.running_xor = ByteXor(@, b)]
      [] r.pstate = "READ_LEN1" ->
            [r EXCEPT !.pstate = AfterLength(r.pkt_len + 256 * b), !.pkt_len = @ + 256 * b,
                      !.running_xor = ByteXor(@, b), !.payload_buf = <<>>]
      [] r.pstate = "READ_PAYLOAD" ->
            [r EXCEPT !.payload_buf = Append(@, b), !.running_xor = ByteXor(@, b),
                      !.pstate = IF Len(r.payload_buf) + 1 >= r.pkt_len
                                 THEN "READ_CHECKSUM" ELSE @]
      [] r.pstate = "READ_CHECKSUM" -> To(r, "WAIT_SYNC0")

\* Fault: a packet is handled whatever its checksum.
HandleAny(r, b) == IF r.pstate = "READ_CHECKSUM"
                   THEN [type |-> r.pkt_type, payload |-> r.payload_buf] ELSE NoPacket

\* The packet that byte b completes.
Handled(r, b) == IF r.pstate = "READ_CHECKSUM" /\ b = r.running_xor
                 THEN [type |-> r.pkt_type, payload |-> r.payload_buf] ELSE NoPacket

Receive(b) == rx' = process_byte(rx, b) /\ out' = Handled(rx, b)

---------------------------------------------------------------------------
(* History.                                                                *)

\* No byte of the frame but the first looks like the beginning of one.
Quiet(t) == /\ w[t].packet.type # SYNC_0 /\ w[t].sum # SYNC_0
            /\ Low(Len(w[t].packet.payload)) # SYNC_0 /\ High(Len(w[t].packet.payload)) # SYNC_0
            /\ \A i \in 1..Len(w[t].packet.payload) : w[t].packet.payload[i] # SYNC_0

\* The count after a byte of t that leaves its packet with this mark.
Settled(t, mark) ==
    CASE mark = "damaged" -> 0
      [] mark # "damaged" /\ (settled = Recovery \/ ~IsLast(t)) -> settled
      [] OTHER -> IF mark = "whole" /\ Quiet(t) THEN settled + 1 ELSE 0

Wrote(t, mark) == IF IsLast(t) /\ mark = "whole" THEN w[t].packet ELSE NoPacket

Fault == damage < MaxDamage /\ damage' = damage + 1

---------------------------------------------------------------------------
(* Actions.                                                                *)

\* A thread calls uart_write(build_packet(...)), or send_packet.
Begin(t, p) ==
    /\ w[t].packet = NoPacket
    /\ w' = [w EXCEPT ![t] = [Idle EXCEPT !.packet = p]]
    /\ out' = NoPacket /\ wrote' = NoPacket
    /\ UNCHANGED <<rx, damage, settled>>

\* Another thread's packet is on its way: pyserial's write is a loop of os.write calls.
Intrudes(t) == ~InFrame(t) /\ \E u \in Threads : InFrame(u)

\* The next byte arrives as it is.
PutByte(t) ==
    /\ w[t].packet # NoPacket /\ ~Intrudes(t)
    /\ Receive(NextByte(t))
    /\ w' = [w EXCEPT ![t] = Advanced(t, w[t].mark)]
    /\ wrote' = Wrote(t, w[t].mark) /\ settled' = Settled(t, w[t].mark)
    /\ UNCHANGED damage

\* The first byte of a packet comes in the middle of another: both are damaged.
PutByteInside(t) ==
    /\ w[t].packet # NoPacket /\ Intrudes(t)
    /\ Fault
    /\ Receive(NextByte(t))
    /\ w' = Marked([w EXCEPT ![t] = Advanced(t, "damaged")])
    /\ wrote' = NoPacket /\ settled' = 0

\* The line changes a byte.
ByteChanged(t, b) ==
    /\ w[t].packet # NoPacket /\ ~Intrudes(t) /\ b # NextByte(t)
    /\ Fault
    /\ Receive(b)
    /\ LET mark == IF w[t].mark = "whole" /\ w[t].sent \notin {0, 1, 3, 4}
                   THEN "spoiled" ELSE "damaged" IN
          /\ w' = [w EXCEPT ![t] = Advanced(t, mark)]
          /\ wrote' = NoPacket /\ settled' = Settled(t, mark)

\* The line or a full buffer loses it, or check_ack takes it from the reader thread.
ByteLost(t) ==
    /\ w[t].packet # NoPacket /\ ~Intrudes(t)
    /\ Fault
    /\ w' = [w EXCEPT ![t] = Advanced(t, "damaged")]
    /\ out' = NoPacket /\ wrote' = NoPacket /\ settled' = 0
    /\ UNCHANGED rx

\* The port's write_timeout, or a short os.write: the rest of the packet is never written.
Abandon(t) ==
    /\ InFrame(t)
    /\ Fault
    /\ w' = [w EXCEPT ![t] = Idle]
    /\ out' = NoPacket /\ wrote' = NoPacket /\ settled' = 0
    /\ UNCHANGED rx

\* An exception in the reader's loop, or a reboot of the ESP32: the parser starts afresh.
ParserRestarts ==
    /\ Fault
    /\ rx' = To(rx, "WAIT_SYNC0")
    /\ w' = Marked(w)
    /\ out' = NoPacket /\ wrote' = NoPacket /\ settled' = 0

Init ==
    /\ w = [t \in Threads |-> Idle]
    /\ rx = [pstate |-> "WAIT_SYNC0", pkt_type |-> 0, pkt_len |-> 0, payload_buf |-> <<>>,
             running_xor |-> 0]
    /\ out = NoPacket /\ damage = 0 /\ wrote = NoPacket /\ settled = Recovery

Next ==
    \/ \E t \in Threads, p \in Packets : Begin(t, p)
    \/ \E t \in Threads : PutByte(t) \/ PutByteInside(t) \/ ByteLost(t) \/ Abandon(t)
    \/ \E t \in Threads, b \in Noise : ByteChanged(t, b)
    \/ ParserRestarts

Spec == Init /\ [][Next]_vars

---------------------------------------------------------------------------
(* Properties.                                                             *)

States == {"WAIT_SYNC0", "WAIT_SYNC1", "READ_TYPE", "READ_LEN0", "READ_LEN1", "READ_PAYLOAD",
           "READ_CHECKSUM"}

Marks == {"whole", "spoiled", "damaged"}

\* Every variable keeps its type, and the parser never writes past payload_buf nor past the
\* length it was told, whatever the line does to the length.
TypeOK ==
    /\ w \in [Threads -> [packet : Packets \cup {NoPacket}, sent : Nat, sum : Byte, mark : Marks]]
    /\ \A t \in Threads : IF w[t].packet = NoPacket THEN w[t].sent = 0
                          ELSE w[t].sent < FrameLen(w[t].packet)
    /\ rx \in [pstate : States, pkt_type : Byte, pkt_len : Word, payload_buf : Seq(Byte),
               running_xor : Byte]
    /\ Len(rx.payload_buf) <= MAX_PAYLOAD
    /\ rx.pstate = "READ_LEN1" => rx.pkt_len \in Byte
    /\ rx.pstate = "READ_PAYLOAD" => rx.pkt_len <= MAX_PAYLOAD /\ Len(rx.payload_buf) < rx.pkt_len
    /\ settled \in 0..Recovery /\ damage \in 0..MaxDamage

\* On a line that had no fault, or had none since Recovery quiet packets, the handler is
\* given exactly the packets that were written, each once, in order and when its last byte
\* comes, also when a payload looks like a frame; and a packet of which a byte was changed that
\* is neither a sync byte nor of the length is dropped without harm to its neighbours.
Exact == settled = Recovery => out = wrote

\* Part of Exact: a line that never had a fault.
CleanLineExact == damage = 0 => out = wrote

=============================================================================

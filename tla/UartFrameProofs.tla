--------------------------- MODULE UartFrameProofs ---------------------------
(***************************************************************************)
(* Theorems about UartFrame, for any threads, packets, sync bytes and      *)
(* faults: its types, and the exactness of a line without faults or that   *)
(* had none for some time.                                                 *)
(***************************************************************************)
EXTENDS UartFrame, SequenceTheorems, TLAPS

Writer == [packet : Packets \cup {NoPacket}, sent : Nat, sum : Byte, mark : Marks]

Reader == [pstate : States, pkt_type : Byte, pkt_len : Word, payload_buf : Seq(Byte),
           running_xor : Byte]

ReaderOK(r) ==
    /\ r \in Reader
    /\ Len(r.payload_buf) <= MAX_PAYLOAD
    /\ r.pstate = "READ_LEN1" => r.pkt_len \in Byte
    /\ r.pstate = "READ_PAYLOAD" => r.pkt_len <= MAX_PAYLOAD /\ Len(r.payload_buf) < r.pkt_len

WriterOK(x) ==
    /\ x \in Writer
    /\ IF x.packet = NoPacket THEN x.sent = 0 ELSE x.sent < FrameLen(x.packet)

\* Bytes and words as numbers.
LEMMA Widths ==
    /\ \A n : n \in Byte <=> n \in Int /\ 0 <= n /\ n <= 255
    /\ \A n : n \in Word <=> n \in Int /\ 0 <= n /\ n <= 65535
<1>0. MaxByte \in Int /\ MaxWord \in Int  BY DEF MaxByte, MaxWord
<1>1. /\ \A n : n \in Byte <=> n \in Int /\ 0 <= n /\ n <= MaxByte
      /\ \A n : n \in Word <=> n \in Int /\ 0 <= n /\ n <= MaxWord
  BY <1>0 DEF Byte, Word
<1>. QED  BY <1>1 DEF MaxByte, MaxWord

\* The packets that a parser out of step can swallow are fewer than Recovery.
LEMMA RecoveryIs ==
    /\ MAX_PAYLOAD \in Nat /\ Recovery \in Nat /\ Recovery >= 2
    /\ \A s \in Nat : 6 * s <= MAX_PAYLOAD + 3 => s + 1 < Recovery
<1>1. MAX_PAYLOAD \in Nat  BY PayloadBound, Widths
<1>2. \A k \in Nat : k \div 6 \in Nat /\ k - 5 <= 6 * (k \div 6) /\ 6 * (k \div 6) <= k
  OBVIOUS
<1>3. PICK d \in Nat : /\ d = (MAX_PAYLOAD + 3) \div 6
                       /\ MAX_PAYLOAD + 3 - 5 <= 6 * d
  BY <1>1, <1>2
<1>4. Recovery = 2 + d  BY <1>3 DEF Recovery
<1>5. \A s \in Nat : 6 * s <= MAX_PAYLOAD + 3 => s <= d  BY <1>1, <1>3
<1>. QED  BY <1>1, <1>4, <1>5

\* A length that fits in a word is two bytes, and they give it back.
LEMMA LengthBytes ==
    ASSUME NEW n \in Nat, n <= 65535
    PROVE  Low(n) \in Byte /\ High(n) \in Byte /\ Low(n) + 256 * High(n) = n
<1>1. \A k \in Nat : k <= 65535 =>
          /\ k % 256 \in Int /\ 0 <= k % 256 /\ k % 256 <= 255
          /\ k \div 256 \in Int /\ 0 <= k \div 256 /\ k \div 256 <= 255
          /\ (k % 256) + 256 * (k \div 256) = k
  OBVIOUS
<1>2. /\ Low(n) \in Int /\ 0 <= Low(n) /\ Low(n) <= 255
      /\ High(n) \in Int /\ 0 <= High(n) /\ High(n) <= 255
      /\ Low(n) + 256 * High(n) = n
  BY <1>1 DEF Low, High
<1>. QED  BY <1>2, Widths

\* The parser keeps its types on every byte.
LEMMA ParserTypes ==
    ASSUME NEW r, ReaderOK(r), NEW b \in Byte
    PROVE  ReaderOK(process_byte(r, b))
<1>0. /\ r \in Reader /\ ByteXor(r.running_xor, b) \in Byte
      /\ r.pkt_len \in Word /\ r.payload_buf \in Seq(Byte)
  BY XorOfBytes DEF ReaderOK, Reader
<1>1. CASE r.pstate \in {"WAIT_SYNC0", "WAIT_SYNC1", "READ_CHECKSUM"}
  <2>1. process_byte(r, b) = r \/ \E s \in {"WAIT_SYNC0", "WAIT_SYNC1", "READ_TYPE"} :
            process_byte(r, b) = [r EXCEPT !.pstate = s]
    BY <1>1 DEF process_byte, To
  <2>. QED  BY <1>0, <2>1 DEF ReaderOK, Reader, States
<1>2. CASE r.pstate = "READ_TYPE"
  <2>1. process_byte(r, b) =
          [r EXCEPT !.pstate = "READ_LEN0", !.pkt_type = b, !.running_xor = b]
    BY <1>2 DEF process_byte
  <2>. QED  BY <1>0, <2>1 DEF ReaderOK, Reader, States
<1>3. CASE r.pstate = "READ_LEN0"
  <2>1. process_byte(r, b) = [r EXCEPT !.pstate = "READ_LEN1", !.pkt_len = b,
                                       !.running_xor = ByteXor(r.running_xor, b)]
    BY <1>3 DEF process_byte
  <2>2. b \in Word  BY Widths
  <2>. QED  BY <1>0, <2>1, <2>2 DEF ReaderOK, Reader, States
<1>4. CASE r.pstate = "READ_LEN1"
  <2> DEFINE len == r.pkt_len + 256 * b
  <2>1. process_byte(r, b) = [r EXCEPT !.pstate = AfterLength(len), !.pkt_len = len,
                                       !.running_xor = ByteXor(r.running_xor, b),
                                       !.payload_buf = <<>>]
    BY <1>4 DEF process_byte
  <2>2. len \in Word /\ len \in Int /\ 0 <= len  BY <1>4, Widths DEF ReaderOK
  <2>3. /\ AfterLength(len) \in {"READ_CHECKSUM", "READ_PAYLOAD", "WAIT_SYNC0"}
        /\ AfterLength(len) = "READ_PAYLOAD" => len <= MAX_PAYLOAD /\ 0 < len
    BY <2>2 DEF AfterLength
  <2>4. <<>> \in Seq(Byte) /\ Len(<<>>) = 0 /\ 0 <= MAX_PAYLOAD
    BY PayloadBound, Widths
  <2>. HIDE DEF len
  <2>5. process_byte(r, b) \in Reader
    BY <1>0, <2>1, <2>2, <2>3, <2>4 DEF Reader, States
  <2>. QED  BY <1>0, <2>1, <2>3, <2>4, <2>5 DEF ReaderOK, Reader
<1>5. CASE r.pstate = "READ_PAYLOAD"
  <2> DEFINE buf == Append(r.payload_buf, b)
             next == IF Len(r.payload_buf) + 1 >= r.pkt_len
                     THEN "READ_CHECKSUM" ELSE "READ_PAYLOAD"
  <2>1. process_byte(r, b) = [r EXCEPT !.payload_buf = buf, !.pstate = next,
                                       !.running_xor = ByteXor(r.running_xor, b)]
    BY <1>0, <1>5 DEF process_byte, Reader
  <2>2. buf \in Seq(Byte) /\ Len(buf) = Len(r.payload_buf) + 1  BY <1>0
  <2>3. /\ Len(buf) <= MAX_PAYLOAD /\ r.pkt_len <= MAX_PAYLOAD
        /\ next = "READ_PAYLOAD" => Len(buf) < r.pkt_len
    <3>1. r.pkt_len \in Int /\ MAX_PAYLOAD \in Int /\ Len(r.payload_buf) \in Nat
      BY <1>0, PayloadBound, Widths
    <3>. QED  BY <1>5, <2>2, <3>1 DEF ReaderOK
  <2>4. next \in {"READ_CHECKSUM", "READ_PAYLOAD"}  OBVIOUS
  <2>. HIDE DEF buf, next
  <2>. QED  BY <1>0, <2>1, <2>2, <2>3, <2>4 DEF ReaderOK, Reader, States
<1>. QED  BY <1>0, <1>1, <1>2, <1>3, <1>4, <1>5 DEF Reader, States

\* What a writer puts next is a byte.
LEMMA NextIsByte ==
    ASSUME NEW t \in Threads, w \in [Threads -> Writer], WriterOK(w[t]), w[t].packet # NoPacket
    PROVE  NextByte(t) \in Byte
<1>1. PICK p \in Packets : p = w[t].packet  BY DEF WriterOK, Writer
<1>2. /\ p.type \in Byte /\ p.payload \in Seq(Byte) /\ Len(p.payload) \in Nat
      /\ Len(p.payload) <= 65535
  BY PacketsFit, PayloadBound, Widths
<1>3. Low(Len(p.payload)) \in Byte /\ High(Len(p.payload)) \in Byte
  BY <1>2, LengthBytes
<1>4. \A i \in 6..(5 + Len(p.payload)) : p.payload[i - 5] \in Byte
  <2>1. \A k \in 1..Len(p.payload) : p.payload[k] \in Byte  BY <1>2, ElementOfSeq
  <2>2. \A i \in 6..(5 + Len(p.payload)) : i - 5 \in 1..Len(p.payload)  BY <1>2
  <2>. QED  BY <2>1, <2>2
<1>5. w[t].sum \in Byte /\ w[t].sent \in Nat  BY DEF WriterOK, Writer
<1>6. ASSUME NEW i \in Nat, NEW sum \in Byte
      PROVE  FrameByte(p, i, sum) \in Byte
  <2>1. CASE i \in 6..(5 + Len(p.payload))
    <3>1. i # 1 /\ i # 2 /\ i # 3 /\ i # 4 /\ i # 5  BY <2>1
    <3>2. FrameByte(p, i, sum) = p.payload[i - 5]  BY <2>1, <3>1 DEF FrameByte
    <3>. QED  BY <1>4, <2>1, <3>2
  <2>2. CASE i \notin 6..(5 + Len(p.payload))
    BY <1>2, <1>3, <2>2, SyncBytes DEF FrameByte
  <2>. QED  BY <2>1, <2>2
<1>. QED  BY <1>1, <1>5, <1>6 DEF NextByte

\* A writer keeps its types when it puts a byte.
LEMMA AdvanceTypes ==
    ASSUME NEW t \in Threads, w \in [Threads -> Writer], WriterOK(w[t]), w[t].packet # NoPacket,
           NEW mark \in Marks
    PROVE  WriterOK(Advanced(t, mark))
<1>1. NextByte(t) \in Byte  BY NextIsByte
<1>2. SumAfter(t) \in Byte
  BY <1>1, XorOfBytes DEF SumAfter, WriterOK, Writer
<1>3. WriterOK(Idle)
  <2>1. 0 \in Byte  BY Widths
  <2>. QED  BY <2>1 DEF WriterOK, Writer, Idle, Marks
<1>4. CASE ~IsLast(t)
  <2>1. w[t] \in Writer /\ w[t].packet \in Packets /\ w[t].sent \in Nat
        /\ w[t].sent < FrameLen(w[t].packet) /\ w[t].sent + 1 # FrameLen(w[t].packet)
    BY <1>4 DEF IsLast, WriterOK, Writer
  <2>2. FrameLen(w[t].packet) \in Nat
    BY <2>1, PacketsFit DEF FrameLen
  <2>3. Advanced(t, mark) = [w[t] EXCEPT !.sent = w[t].sent + 1, !.sum = SumAfter(t), !.mark = mark]
    BY <1>4, <2>1 DEF Advanced, Writer
  <2>4. w[t].sent + 1 \in Nat /\ w[t].sent + 1 < FrameLen(w[t].packet)
        /\ w[t].packet # NoPacket
    BY <2>1, <2>2, NoPacketIsNone
  <2>5. Advanced(t, mark) \in Writer  BY <1>2, <2>1, <2>3, <2>4 DEF Writer
  <2>6. Advanced(t, mark).packet = w[t].packet /\ Advanced(t, mark).sent = w[t].sent + 1
    BY <2>1, <2>3 DEF Writer
  <2>. QED  BY <2>4, <2>5, <2>6 DEF WriterOK
<1>. QED  BY <1>3, <1>4 DEF Advanced

---------------------------------------------------------------------------
(* A parser in step with a writer.                                         *)

\* Where the parser is after n bytes of a frame with a payload of len bytes.
Place(n, len) ==
    CASE n = 0 -> "WAIT_SYNC0"
      [] n = 1 -> "WAIT_SYNC1"
      [] n = 2 -> "READ_TYPE"
      [] n = 3 -> "READ_LEN0"
      [] n = 4 -> "READ_LEN1"
      [] OTHER -> IF n = 5 + len THEN "READ_CHECKSUM" ELSE "READ_PAYLOAD"

InStep(x, r) ==
    /\ r.pstate = Place(x.sent, Len(x.packet.payload))
    /\ x.sent <= 2 => x.sum = 0
    /\ x.sent >= 3 => r.pkt_type = x.packet.type /\ r.running_xor = x.sum
    /\ x.sent = 4 => r.pkt_len = Low(Len(x.packet.payload))
    /\ x.sent >= 5 => /\ r.pkt_len = Len(x.packet.payload)
                      /\ Len(r.payload_buf) = x.sent - 5
                      /\ \A i \in 1..(x.sent - 5) : r.payload_buf[i] = x.packet.payload[i]

\* What the parser does with a byte, one state after the other.
LEMMA ParserSteps ==
    ASSUME NEW r \in Reader, NEW b \in Byte
    PROVE  LET q == process_byte(r, b) IN
           /\ r.pstate = "WAIT_SYNC0" /\ b = SYNC_0 => q.pstate = "WAIT_SYNC1"
           /\ r.pstate = "WAIT_SYNC1" /\ b = SYNC_1 => q.pstate = "READ_TYPE"
           /\ r.pstate = "READ_TYPE" =>
                 q.pstate = "READ_LEN0" /\ q.pkt_type = b /\ q.running_xor = b
           /\ r.pstate = "READ_LEN0" =>
                 /\ q.pstate = "READ_LEN1" /\ q.pkt_len = b /\ q.pkt_type = r.pkt_type
                 /\ q.running_xor = ByteXor(r.running_xor, b)
           /\ r.pstate = "READ_LEN1" =>
                 LET len == r.pkt_len + 256 * b IN
                 /\ q.pstate = AfterLength(len) /\ q.pkt_len = len /\ q.pkt_type = r.pkt_type
                 /\ q.running_xor = ByteXor(r.running_xor, b) /\ q.payload_buf = <<>>
           /\ r.pstate = "READ_PAYLOAD" =>
                 /\ q.pstate = IF Len(r.payload_buf) + 1 >= r.pkt_len
                               THEN "READ_CHECKSUM" ELSE "READ_PAYLOAD"
                 /\ q.pkt_len = r.pkt_len /\ q.pkt_type = r.pkt_type
                 /\ q.running_xor = ByteXor(r.running_xor, b)
                 /\ q.payload_buf = Append(r.payload_buf, b)
           /\ r.pstate = "READ_CHECKSUM" => q.pstate = "WAIT_SYNC0"
           /\ r.pstate # "READ_CHECKSUM" => Handled(r, b) = NoPacket
<1>1. CASE r.pstate \in {"WAIT_SYNC0", "WAIT_SYNC1", "READ_CHECKSUM"}
  BY <1>1 DEF process_byte, To, Handled, Reader
<1>2. CASE r.pstate = "READ_TYPE"
  <2>1. process_byte(r, b) =
          [r EXCEPT !.pstate = "READ_LEN0", !.pkt_type = b, !.running_xor = b]
    BY <1>2 DEF process_byte
  <2>. QED  BY <1>2, <2>1 DEF Handled, Reader
<1>3. CASE r.pstate = "READ_LEN0"
  <2>1. process_byte(r, b) = [r EXCEPT !.pstate = "READ_LEN1", !.pkt_len = b,
                                       !.running_xor = ByteXor(r.running_xor, b)]
    BY <1>3 DEF process_byte
  <2>. QED  BY <1>3, <2>1 DEF Handled, Reader
<1>4. CASE r.pstate = "READ_LEN1"
  <2> DEFINE len == r.pkt_len + 256 * b
  <2>1. process_byte(r, b) = [r EXCEPT !.pstate = AfterLength(len), !.pkt_len = len,
                                       !.running_xor = ByteXor(r.running_xor, b),
                                       !.payload_buf = <<>>]
    BY <1>4 DEF process_byte
  <2>. HIDE DEF len
  <2>2. LET q == process_byte(r, b) IN
        /\ q.pstate = AfterLength(len) /\ q.pkt_len = len /\ q.pkt_type = r.pkt_type
        /\ q.running_xor = ByteXor(r.running_xor, b) /\ q.payload_buf = <<>>
    BY <2>1 DEF Reader
  <2>. QED  BY <1>4, <2>2 DEF Handled, len
<1>5. CASE r.pstate = "READ_PAYLOAD"
  <2> DEFINE next == IF Len(r.payload_buf) + 1 >= r.pkt_len
                     THEN "READ_CHECKSUM" ELSE "READ_PAYLOAD"
  <2>1. process_byte(r, b) = [r EXCEPT !.payload_buf = Append(r.payload_buf, b), !.pstate = next,
                                       !.running_xor = ByteXor(r.running_xor, b)]
    BY <1>5 DEF process_byte, Reader
  <2>. HIDE DEF next
  <2>2. LET q == process_byte(r, b) IN
        /\ q.pstate = next /\ q.pkt_len = r.pkt_len /\ q.pkt_type = r.pkt_type
        /\ q.running_xor = ByteXor(r.running_xor, b)
        /\ q.payload_buf = Append(r.payload_buf, b)
    BY <2>1 DEF Reader
  <2>. QED  BY <1>5, <2>2 DEF Handled, next
<1>. QED  BY <1>1, <1>2, <1>3, <1>4, <1>5 DEF Reader, States

\* What it takes to be in step after each of the first five bytes.
LEMMA InStepAtFirst ==
    ASSUME NEW x, NEW r, NEW len \in Nat, Len(x.packet.payload) = len
    PROVE  /\ x.sent = 1 /\ x.sum = 0 /\ r.pstate = "WAIT_SYNC1" => InStep(x, r)
           /\ x.sent = 2 /\ x.sum = 0 /\ r.pstate = "READ_TYPE" => InStep(x, r)
           /\ /\ x.sent = 3 /\ r.pstate = "READ_LEN0"
              /\ r.pkt_type = x.packet.type /\ r.running_xor = x.sum
              => InStep(x, r)
           /\ /\ x.sent = 4 /\ r.pstate = "READ_LEN1" /\ r.pkt_len = Low(len)
              /\ r.pkt_type = x.packet.type /\ r.running_xor = x.sum
              => InStep(x, r)
           /\ /\ x.sent = 5 /\ r.pstate = Place(5, len) /\ r.pkt_len = len
              /\ r.pkt_type = x.packet.type /\ r.running_xor = x.sum
              /\ r.payload_buf = <<>>
              => InStep(x, r)
<1>1. CASE x.sent = 1  BY <1>1 DEF InStep, Place
<1>2. CASE x.sent = 2  BY <1>2 DEF InStep, Place
<1>3. CASE x.sent = 3  BY <1>3 DEF InStep, Place
<1>4. CASE x.sent = 4  BY <1>4 DEF InStep, Place
<1>5. CASE x.sent = 5
  <2>1. Len(<<>>) = 0 /\ 5 - 5 = 0 /\ \A i \in 1..0 : FALSE  OBVIOUS
  <2>2. CASE r.payload_buf = <<>>  BY <1>5, <2>1, <2>2 DEF InStep
  <2>. QED  BY <1>5, <2>2
<1>. QED  BY <1>1, <1>2, <1>3, <1>4, <1>5

\* And after a later one.
LEMMA InStepLater ==
    ASSUME NEW x, NEW r, x.sent \in Nat, x.sent >= 6,
           r.pstate = Place(x.sent, Len(x.packet.payload)),
           r.pkt_type = x.packet.type, r.running_xor = x.sum, r.pkt_len = Len(x.packet.payload),
           Len(r.payload_buf) = x.sent - 5,
           \A i \in 1..(x.sent - 5) : r.payload_buf[i] = x.packet.payload[i]
    PROVE  InStep(x, r)
BY DEF InStep

\* A byte that is not the last keeps them in step, and the handler is given nothing.
LEMMA StaysInStep ==
    ASSUME NEW t \in Threads, w \in [Threads -> Writer], WriterOK(w[t]), w[t].packet # NoPacket,
           NEW q, ReaderOK(q), InStep(w[t], q), ~IsLast(t), NEW mark \in Marks
    PROVE  /\ InStep(Advanced(t, mark), process_byte(q, NextByte(t)))
           /\ Handled(q, NextByte(t)) = NoPacket
<1> DEFINE n == w[t].sent
           p == w[t].packet
           len == Len(p.payload)
           b == NextByte(t)
           x == Advanced(t, mark)
           r == process_byte(q, b)
<1>1. /\ w[t] \in Writer /\ q \in Reader /\ p \in Packets /\ n \in Nat
      /\ p.type \in Byte /\ p.payload \in Seq(Byte) /\ len \in Nat /\ len <= MAX_PAYLOAD
      /\ MAX_PAYLOAD \in Nat /\ MAX_PAYLOAD <= 65535
  BY PacketsFit, PayloadBound, Widths DEF WriterOK, ReaderOK, Writer
<1>2. n < 5 + len
  BY <1>1 DEF IsLast, WriterOK, FrameLen
<1>3. /\ x.sent = n + 1 /\ x.packet = p /\ x.sum = SumAfter(t)
  BY <1>1 DEF Advanced, Writer
<1>4. b \in Byte  BY NextIsByte
<1>5. q.pstate = Place(n, len)  BY DEF InStep
<1>. SUFFICES InStep(x, r) /\ Handled(q, b) = NoPacket  OBVIOUS
<1>. HIDE DEF b, x, r
<1>6. CASE n = 0
  <2>1. b = SYNC_0 /\ SumAfter(t) = w[t].sum  BY <1>1, <1>6 DEF NextByte, FrameByte, SumAfter, b
  <2>2. q.pstate = "WAIT_SYNC0"  BY <1>5, <1>6 DEF Place
  <2>3. r.pstate = "WAIT_SYNC1" /\ Handled(q, b) = NoPacket
    BY <1>1, <1>4, <2>1, <2>2, ParserSteps DEF r
  <2>4. w[t].sum = 0  BY <1>1, <1>6 DEF InStep
  <2>5. x.sent = 1 /\ x.sum = 0  BY <1>3, <1>6, <2>1, <2>4
  <2>. QED  BY <1>1, <1>3, <2>3, <2>5, InStepAtFirst
<1>7. CASE n = 1
  <2>1. b = SYNC_1 /\ SumAfter(t) = w[t].sum  BY <1>1, <1>7 DEF NextByte, FrameByte, SumAfter, b
  <2>2. q.pstate = "WAIT_SYNC1"  BY <1>5, <1>7 DEF Place
  <2>3. r.pstate = "READ_TYPE" /\ Handled(q, b) = NoPacket
    BY <1>1, <1>4, <2>1, <2>2, ParserSteps DEF r
  <2>4. w[t].sum = 0  BY <1>1, <1>7 DEF InStep
  <2>5. x.sent = 2 /\ x.sum = 0  BY <1>3, <1>7, <2>1, <2>4
  <2>. QED  BY <1>1, <1>3, <2>3, <2>5, InStepAtFirst
<1>8. CASE n = 2
  <2>1. b = p.type /\ SumAfter(t) = p.type
    BY <1>1, <1>4, <1>8, XorOfBytes DEF NextByte, FrameByte, SumAfter, InStep, b
  <2>2. q.pstate = "READ_TYPE"  BY <1>5, <1>8 DEF Place
  <2>3. /\ r.pstate = "READ_LEN0" /\ r.pkt_type = b /\ r.running_xor = b
        /\ Handled(q, b) = NoPacket
    BY <1>1, <1>4, <2>2, ParserSteps DEF r
  <2>4. x.sent = 3  BY <1>3, <1>8
  <2>. QED  BY <1>1, <1>3, <2>1, <2>3, <2>4, InStepAtFirst
<1>9. CASE n = 3
  <2>1. b = Low(len) /\ SumAfter(t) = ByteXor(w[t].sum, b)
    BY <1>1, <1>9 DEF NextByte, FrameByte, SumAfter, b
  <2>2. q.pstate = "READ_LEN0"  BY <1>5, <1>9 DEF Place
  <2>3. /\ r.pstate = "READ_LEN1" /\ r.pkt_len = b /\ r.pkt_type = q.pkt_type
        /\ r.running_xor = ByteXor(q.running_xor, b) /\ Handled(q, b) = NoPacket
    BY <1>1, <1>4, <2>2, ParserSteps DEF r
  <2>4. q.pkt_type = p.type /\ q.running_xor = w[t].sum  BY <1>1, <1>9 DEF InStep
  <2>5. x.sent = 4  BY <1>3, <1>9
  <2>. QED  BY <1>1, <1>3, <2>1, <2>3, <2>4, <2>5, InStepAtFirst
<1>10. CASE n = 4
  <2>1. b = High(len) /\ SumAfter(t) = ByteXor(w[t].sum, b)
    BY <1>1, <1>10 DEF NextByte, FrameByte, SumAfter, b
  <2>2. q.pstate = "READ_LEN1" /\ q.pkt_len = Low(len)  BY <1>5, <1>10 DEF Place, InStep
  <2>3. q.pkt_len + 256 * b = len  BY <1>1, <2>1, <2>2, LengthBytes
  <2>4. /\ r.pstate = AfterLength(len) /\ r.pkt_len = len /\ r.pkt_type = q.pkt_type
        /\ r.running_xor = ByteXor(q.running_xor, b) /\ r.payload_buf = <<>>
        /\ Handled(q, b) = NoPacket
    BY <1>1, <1>4, <2>2, <2>3, ParserSteps DEF r
  <2>5. AfterLength(len) = Place(5, len)  BY <1>1 DEF AfterLength, Place
  <2>6. q.pkt_type = p.type /\ q.running_xor = w[t].sum  BY <1>1, <1>10 DEF InStep
  <2>7. x.sent = 5  BY <1>3, <1>10
  <2>. QED  BY <1>1, <1>3, <2>1, <2>4, <2>5, <2>6, <2>7, InStepAtFirst
<1>11. CASE n >= 5
  <2>1. n + 1 \in 6..(5 + len) /\ n \in 2..(4 + len)  BY <1>1, <1>2, <1>11
  <2>2. b = p.payload[n - 4]
    <3>1. b = FrameByte(p, n + 1, w[t].sum)  BY DEF NextByte, b
    <3>2. b = p.payload[(n + 1) - 5]  BY <1>1, <1>11, <2>1, <3>1 DEF FrameByte
    <3>. QED  BY <1>1, <3>2
  <2>3. SumAfter(t) = ByteXor(w[t].sum, b)  BY <2>1 DEF SumAfter, b
  <2>4. q.pstate = "READ_PAYLOAD"  BY <1>1, <1>2, <1>5, <1>11 DEF Place
  <2>5. /\ r.payload_buf = Append(q.payload_buf, b) /\ r.pkt_len = q.pkt_len
        /\ r.pstate = (IF Len(q.payload_buf) + 1 >= q.pkt_len
                       THEN "READ_CHECKSUM" ELSE "READ_PAYLOAD")
        /\ r.pkt_type = q.pkt_type /\ r.running_xor = ByteXor(q.running_xor, b)
        /\ Handled(q, b) = NoPacket
    BY <1>1, <1>4, <2>4, ParserSteps DEF r
  <2>6. /\ q.payload_buf \in Seq(Byte) /\ Len(q.payload_buf) = n - 5 /\ q.pkt_len = len
        /\ \A i \in 1..(n - 5) : q.payload_buf[i] = p.payload[i]
    BY <1>1, <1>11 DEF InStep, Reader
  <2>7. /\ Len(r.payload_buf) = n - 4
        /\ \A i \in 1..(n - 4) : r.payload_buf[i] = p.payload[i]
    <3>1. /\ Len(Append(q.payload_buf, b)) = n - 4
          /\ \A i \in 1..(n - 5) : Append(q.payload_buf, b)[i] = q.payload_buf[i]
          /\ Append(q.payload_buf, b)[n - 4] = b
      BY <1>1, <1>4, <1>11, <2>6
    <3>2. \A i \in 1..(n - 4) : i \in 1..(n - 5) \/ i = n - 4  BY <1>1, <1>11
    <3>. QED  BY <2>2, <2>5, <2>6, <3>1, <3>2
  <2>8. r.pstate = Place(n + 1, len)
    <3>1. r.pstate = (IF n - 4 >= len THEN "READ_CHECKSUM" ELSE "READ_PAYLOAD")
      <4>1. Len(q.payload_buf) + 1 = n - 4  BY <1>1, <1>11, <2>6
      <4>. QED  BY <2>5, <2>6, <4>1
    <3>2. n - 4 >= len <=> n + 1 = 5 + len  BY <1>1, <1>2, <1>11
    <3>3. Place(n + 1, len) = IF n + 1 = 5 + len THEN "READ_CHECKSUM" ELSE "READ_PAYLOAD"
      BY <1>1, <1>11 DEF Place
    <3>. QED  BY <3>1, <3>2, <3>3
  <2>9. q.pkt_type = p.type /\ q.running_xor = w[t].sum  BY <1>1, <1>11 DEF InStep
  <2>10. n + 1 \in Nat /\ n + 1 >= 6 /\ (n + 1) - 5 = n - 4  BY <1>1, <1>11
  <2>11. /\ r.pkt_type = x.packet.type /\ r.running_xor = x.sum /\ r.pkt_len = len
         /\ Len(r.payload_buf) = x.sent - 5
         /\ \A i \in 1..(x.sent - 5) : r.payload_buf[i] = p.payload[i]
    BY <1>3, <2>3, <2>5, <2>6, <2>7, <2>9, <2>10
  <2>12. x.sent = n + 1 /\ x.sent \in Nat /\ x.sent >= 6  BY <1>3, <2>10
  <2>13. InStep(x, r)
    BY <1>3, <2>8, <2>11, <2>12, InStepLater
  <2>. QED  BY <2>5, <2>13
<1>12. n = 0 \/ n = 1 \/ n = 2 \/ n = 3 \/ n = 4 \/ n >= 5  BY <1>1
<1>. HIDE DEF n
<1>. QED  BY <1>6, <1>7, <1>8, <1>9, <1>10, <1>11, <1>12

\* The last byte hands the packet over.
LEMMA LastByteDelivers ==
    ASSUME NEW t \in Threads, w \in [Threads -> Writer], WriterOK(w[t]), w[t].packet # NoPacket,
           NEW q, ReaderOK(q), InStep(w[t], q), IsLast(t)
    PROVE  /\ process_byte(q, NextByte(t)).pstate = "WAIT_SYNC0"
           /\ Handled(q, NextByte(t)) = w[t].packet
<1> DEFINE n == w[t].sent
           p == w[t].packet
           len == Len(p.payload)
<1>1. /\ w[t] \in Writer /\ q \in Reader /\ p \in [type : Byte, payload : Seq(Byte)] /\ n \in Nat
      /\ len \in Nat
  BY PacketsFit DEF WriterOK, ReaderOK, Writer
<1>2. n = 5 + len  BY <1>1 DEF IsLast, FrameLen
<1>3. NextByte(t) = w[t].sum  BY <1>1, <1>2 DEF NextByte, FrameByte
<1>4. q.pstate = "READ_CHECKSUM"  BY <1>1, <1>2 DEF InStep, Place
<1>5. q.running_xor = w[t].sum /\ q.pkt_type = p.type  BY <1>1, <1>2 DEF InStep
<1>6. q.payload_buf = p.payload
  <2>1. /\ q.payload_buf \in Seq(Byte) /\ p.payload \in Seq(Byte)
        /\ Len(q.payload_buf) = len
        /\ \A i \in 1..len : q.payload_buf[i] = p.payload[i]
    BY <1>1, <1>2 DEF InStep, Reader
  <2>. QED  BY <2>1, SeqEqual
<1>7. p = [type |-> p.type, payload |-> p.payload]  BY <1>1
<1>. QED  BY <1>1, <1>3, <1>4, <1>5, <1>6, <1>7 DEF process_byte, To, Handled, Reader

---------------------------------------------------------------------------
(* The types.                                                              *)

\* TypeOK by its parts.
LEMMA TypeParts ==
    TypeOK <=> /\ w \in [Threads -> Writer] /\ \A t \in Threads : WriterOK(w[t])
               /\ ReaderOK(rx)
               /\ settled \in 0..Recovery /\ damage \in 0..MaxDamage
BY DEF TypeOK, Writer, Reader, WriterOK, ReaderOK

\* Idle threads, and marked ones, have their types.
LEMMA WriterTypes ==
    /\ WriterOK(Idle)
    /\ \A p \in Packets : WriterOK([Idle EXCEPT !.packet = p])
    /\ \A x : WriterOK(x) => WriterOK([x EXCEPT !.mark = "damaged"])
<1>1. 0 \in Byte  BY Widths
<1>2. \A p \in Packets : FrameLen(p) \in Nat /\ 0 < FrameLen(p) /\ p # NoPacket
  BY PacketsFit, NoPacketIsNone DEF FrameLen
<1>3. WriterOK(Idle)  BY <1>1 DEF WriterOK, Writer, Idle, Marks
<1>4. \A p \in Packets : WriterOK([Idle EXCEPT !.packet = p])
  <2>. TAKE p \in Packets
  <2>1. [Idle EXCEPT !.packet = p] = [packet |-> p, sent |-> 0, sum |-> 0, mark |-> "whole"]
    BY DEF Idle
  <2>. QED  BY <1>1, <1>2, <2>1 DEF WriterOK, Writer, Marks
<1>5. ASSUME NEW x, WriterOK(x)  PROVE WriterOK([x EXCEPT !.mark = "damaged"])
  <2>1. x \in Writer  BY <1>5 DEF WriterOK
  <2>2. LET y == [x EXCEPT !.mark = "damaged"] IN
        y \in Writer /\ y.packet = x.packet /\ y.sent = x.sent
    BY <2>1 DEF Writer, Marks
  <2>. QED  BY <1>5, <2>2 DEF WriterOK
<1>. QED  BY <1>3, <1>4, <1>5

\* The history counter stays within its bound.
LEMMA SettledTypes ==
    ASSUME settled \in 0..Recovery, NEW t \in Threads, NEW mark
    PROVE  Settled(t, mark) \in 0..Recovery
<1>2. Recovery \in Nat  BY RecoveryIs
<1>3. 0 \in 0..Recovery /\ (settled # Recovery => settled + 1 \in 0..Recovery)  BY <1>2
<1>4. CASE mark = "damaged"  BY <1>3, <1>4 DEF Settled
<1>5. CASE mark # "damaged" /\ (settled = Recovery \/ ~IsLast(t))  BY <1>5 DEF Settled
<1>6. CASE mark # "damaged" /\ ~(settled = Recovery \/ ~IsLast(t))
  BY <1>3, <1>6 DEF Settled
<1>. QED  BY <1>4, <1>5, <1>6

\* Every step keeps the types.
LEMMA TypeStep == TypeOK /\ [Next]_vars => TypeOK'
<1>. SUFFICES ASSUME TypeOK, [Next]_vars  PROVE TypeOK'  OBVIOUS
<1>1. /\ w \in [Threads -> Writer] /\ \A t \in Threads : WriterOK(w[t])
      /\ ReaderOK(rx) /\ settled \in 0..Recovery /\ damage \in 0..MaxDamage
  BY TypeParts
<1>. SUFFICES /\ w' \in [Threads -> Writer] /\ \A t \in Threads : WriterOK(w'[t])
              /\ ReaderOK(rx') /\ settled' \in 0..Recovery /\ damage' \in 0..MaxDamage
  BY DEF TypeOK, Writer, Reader, WriterOK, ReaderOK
<1>2. 0 \in 0..Recovery  BY RecoveryIs
<1>3. Fault => damage' \in 0..MaxDamage  BY <1>1, NoiseBytes DEF Fault
<1>4. ASSUME NEW t \in Threads, NEW v, WriterOK(v), w' = [w EXCEPT ![t] = v]
      PROVE  w' \in [Threads -> Writer] /\ \A u \in Threads : WriterOK(w'[u])
  <2>1. v \in Writer  BY <1>4 DEF WriterOK
  <2>. QED  BY <1>1, <1>4, <2>1
<1>5. ASSUME NEW ws \in [Threads -> Writer], \A t \in Threads : WriterOK(ws[t]), w' = Marked(ws)
      PROVE  w' \in [Threads -> Writer] /\ \A u \in Threads : WriterOK(w'[u])
  <2>1. \A t \in Threads : WriterOK(Marked(ws)[t])
    BY <1>5, WriterTypes DEF Marked
  <2>2. \A t \in Threads : Marked(ws)[t] \in Writer  BY <2>1 DEF WriterOK
  <2>3. Marked(ws) = [t \in Threads |-> Marked(ws)[t]]  BY DEF Marked
  <2>. QED  BY <1>5, <2>1, <2>2, <2>3
<1>6. \A b \in Byte : Receive(b) => ReaderOK(rx')  BY <1>1, ParserTypes DEF Receive
<1>7. \A t \in Threads : w[t].packet # NoPacket =>
          /\ NextByte(t) \in Byte
          /\ \A mark \in Marks : WriterOK(Advanced(t, mark))
  BY <1>1, NextIsByte, AdvanceTypes
<1>8. \A t \in Threads : w[t].mark \in Marks  BY <1>1 DEF Writer
<1>9. ASSUME NEW t \in Threads, NEW p \in Packets, Begin(t, p)
      PROVE  /\ w' \in [Threads -> Writer] /\ \A u \in Threads : WriterOK(w'[u])
             /\ ReaderOK(rx') /\ settled' \in 0..Recovery /\ damage' \in 0..MaxDamage
  <2>1. WriterOK([Idle EXCEPT !.packet = p])  BY WriterTypes
  <2>2. w' = [w EXCEPT ![t] = [Idle EXCEPT !.packet = p]]
        /\ rx' = rx /\ settled' = settled /\ damage' = damage  BY <1>9 DEF Begin
  <2>. QED  BY <1>1, <1>4, <2>1, <2>2
<1>10. ASSUME NEW t \in Threads, PutByte(t)
       PROVE  /\ w' \in [Threads -> Writer] /\ \A u \in Threads : WriterOK(w'[u])
              /\ ReaderOK(rx') /\ settled' \in 0..Recovery /\ damage' \in 0..MaxDamage
  <2>1. w' = [w EXCEPT ![t] = Advanced(t, w[t].mark)] /\ Receive(NextByte(t))
        /\ settled' = Settled(t, w[t].mark) /\ damage' = damage /\ w[t].packet # NoPacket
    BY <1>10 DEF PutByte
  <2>2. settled' \in 0..Recovery  BY <1>1, <2>1, SettledTypes
  <2>. QED  BY <1>1, <1>4, <1>6, <1>7, <1>8, <2>1, <2>2
<1>11. ASSUME NEW t \in Threads, PutByteInside(t)
       PROVE  /\ w' \in [Threads -> Writer] /\ \A u \in Threads : WriterOK(w'[u])
              /\ ReaderOK(rx') /\ settled' \in 0..Recovery /\ damage' \in 0..MaxDamage
  <2> DEFINE ws == [w EXCEPT ![t] = Advanced(t, "damaged")]
  <2>1. w' = Marked(ws) /\ Receive(NextByte(t))
        /\ settled' = 0 /\ Fault /\ w[t].packet # NoPacket
    BY <1>11 DEF PutByteInside
  <2>2. WriterOK(Advanced(t, "damaged"))  BY <1>7, <2>1 DEF Marks
  <2>3. ws \in [Threads -> Writer] /\ \A u \in Threads : WriterOK(ws[u])
    BY <1>1, <2>2 DEF WriterOK
  <2>. HIDE DEF ws
  <2>. QED  BY <1>2, <1>3, <1>5, <1>6, <1>7, <2>1, <2>3
<1>12. ASSUME NEW t \in Threads, ByteLost(t) \/ Abandon(t)
       PROVE  /\ w' \in [Threads -> Writer] /\ \A u \in Threads : WriterOK(w'[u])
              /\ ReaderOK(rx') /\ settled' \in 0..Recovery /\ damage' \in 0..MaxDamage
  <2>1. PICK v : WriterOK(v) /\ w' = [w EXCEPT ![t] = v]
    <3>1. CASE ByteLost(t)
      <4>1. WriterOK(Advanced(t, "damaged"))  BY <1>7, <3>1 DEF ByteLost, Marks
      <4>. QED  BY <3>1, <4>1 DEF ByteLost
    <3>2. CASE Abandon(t)  BY <3>2, WriterTypes DEF Abandon
    <3>. QED  BY <1>12, <3>1, <3>2
  <2>2. rx' = rx /\ settled' = 0 /\ Fault  BY <1>12 DEF ByteLost, Abandon
  <2>. QED  BY <1>1, <1>2, <1>3, <1>4, <2>1, <2>2
<1>13. ASSUME NEW t \in Threads, NEW b \in Noise, ByteChanged(t, b)
       PROVE  /\ w' \in [Threads -> Writer] /\ \A u \in Threads : WriterOK(w'[u])
              /\ ReaderOK(rx') /\ settled' \in 0..Recovery /\ damage' \in 0..MaxDamage
  <2> DEFINE mark == IF w[t].mark = "whole" /\ w[t].sent \notin {0, 1, 3, 4}
                     THEN "spoiled" ELSE "damaged"
  <2>1. w' = [w EXCEPT ![t] = Advanced(t, mark)] /\ settled' = Settled(t, mark)
        /\ Receive(b) /\ Fault /\ w[t].packet # NoPacket
    BY <1>13 DEF ByteChanged
  <2>2. mark \in Marks /\ b \in Byte  BY NoiseBytes DEF Marks
  <2>. HIDE DEF mark
  <2>3. settled' \in 0..Recovery  BY <1>1, <2>1, SettledTypes
  <2>. QED  BY <1>3, <1>4, <1>6, <1>7, <2>1, <2>2, <2>3
<1>14. ASSUME ParserRestarts
       PROVE  /\ w' \in [Threads -> Writer] /\ \A u \in Threads : WriterOK(w'[u])
              /\ ReaderOK(rx') /\ settled' \in 0..Recovery /\ damage' \in 0..MaxDamage
  <2>1. rx' = To(rx, "WAIT_SYNC0") /\ w' = Marked(w) /\ settled' = 0 /\ Fault
    BY <1>14 DEF ParserRestarts
  <2>2. ReaderOK(rx')  BY <1>1, <2>1 DEF ReaderOK, Reader, To, States
  <2>. QED  BY <1>1, <1>2, <1>3, <1>5, <2>1, <2>2
<1>15. CASE UNCHANGED vars  BY <1>1, <1>15 DEF vars
<1>. QED  BY <1>9, <1>10, <1>11, <1>12, <1>13, <1>14, <1>15 DEF Next

\* The parser starts with its types.
LEMMA TypeInit == Init => TypeOK
<1>. SUFFICES ASSUME Init  PROVE TypeOK  OBVIOUS
<1>1. MAX_PAYLOAD \in Nat  BY PayloadBound, Widths
<1>2. Recovery \in 0..Recovery  BY RecoveryIs
<1>3. w \in [Threads -> Writer] /\ \A t \in Threads : WriterOK(w[t])
  BY WriterTypes DEF Init, WriterOK
<1>4. ReaderOK(rx)
  <2>1. 0 \in Byte /\ 0 \in Word /\ <<>> \in Seq(Byte) /\ Len(<<>>) = 0  BY Widths
  <2>. QED  BY <1>1, <2>1 DEF Init, ReaderOK, Reader, States
<1>5. settled \in 0..Recovery /\ damage \in 0..MaxDamage  BY <1>2, NoiseBytes DEF Init
<1>. QED  BY <1>3, <1>4, <1>5, TypeParts

\* For any threads, packets and faults: every variable keeps its type, and the parser never
\* writes past payload_buf nor past the length it was told (process_byte, _reader_loop).
THEOREM TypeCorrect == Spec => []TypeOK
<1>. QED  BY TypeInit, TypeStep, PTL DEF Spec

---------------------------------------------------------------------------
(* A parser that follows a packet one byte of which was changed.           *)

\* Two parsers at the same place of the same frame, with different checksums.
Twins(r, q) ==
    /\ r.pstate = q.pstate /\ r.pkt_len = q.pkt_len /\ r.running_xor # q.running_xor
    /\ Len(r.payload_buf) = Len(q.payload_buf)

\* The parser follows the packet: with its bytes, or with one of them changed.
Follows(x, r) ==
    IF x.mark = "whole" THEN InStep(x, r)
    ELSE x.sent >= 3 /\ \E q \in Reader : ReaderOK(q) /\ InStep(x, q) /\ Twins(r, q)

\* Different bytes, or the same byte upon different sums, make different sums.
LEMMA XorDiffers ==
    ASSUME NEW a \in Byte, NEW b \in Byte, NEW c \in Byte, a # b
    PROVE  ByteXor(a, c) # ByteXor(b, c) /\ ByteXor(c, a) # ByteXor(c, b)
<1>1. /\ ByteXor(ByteXor(a, c), c) = a /\ ByteXor(ByteXor(b, c), c) = b
      /\ ByteXor(c, a) = ByteXor(a, c) /\ ByteXor(c, b) = ByteXor(b, c)
  BY XorOfBytes
<1>. QED  BY <1>1

\* Twins stay twins on the same bytes.
LEMMA TwinsStay ==
    ASSUME NEW r \in Reader, NEW q \in Reader, Twins(r, q), NEW b \in Byte,
           q.pstate \in {"READ_LEN0", "READ_LEN1", "READ_PAYLOAD"}
    PROVE  Twins(process_byte(r, b), process_byte(q, b)) /\ Handled(r, b) = NoPacket
<1>1. /\ r.pstate = q.pstate /\ r.pkt_len = q.pkt_len
      /\ Len(r.payload_buf) = Len(q.payload_buf)
      /\ r.payload_buf \in Seq(Byte) /\ q.payload_buf \in Seq(Byte)
      /\ r.running_xor \in Byte /\ q.running_xor \in Byte /\ r.running_xor # q.running_xor
  BY DEF Twins, Reader
<1>2. ByteXor(r.running_xor, b) # ByteXor(q.running_xor, b)  BY <1>1, XorDiffers
<1>3. Handled(r, b) = NoPacket  BY <1>1, ParserSteps
<1>4. CASE q.pstate = "READ_LEN0"
  <2>1. /\ process_byte(r, b) = [r EXCEPT !.pstate = "READ_LEN1", !.pkt_len = b,
                                          !.running_xor = ByteXor(r.running_xor, b)]
        /\ process_byte(q, b) = [q EXCEPT !.pstate = "READ_LEN1", !.pkt_len = b,
                                          !.running_xor = ByteXor(q.running_xor, b)]
    BY <1>1, <1>4 DEF process_byte
  <2>. QED  BY <1>1, <1>2, <1>3, <2>1 DEF Twins, Reader
<1>5. CASE q.pstate = "READ_LEN1"
  <2>1. PICK len : len = r.pkt_len + 256 * b  OBVIOUS
  <2>2. len = q.pkt_len + 256 * b  BY <1>1, <2>1
  <2>3. LET x == process_byte(r, b) IN
        /\ x.pstate = AfterLength(len) /\ x.pkt_len = len
        /\ x.running_xor = ByteXor(r.running_xor, b) /\ x.payload_buf = <<>>
    BY <1>1, <1>5, <2>1, ParserSteps
  <2>4. LET x == process_byte(q, b) IN
        /\ x.pstate = AfterLength(len) /\ x.pkt_len = len
        /\ x.running_xor = ByteXor(q.running_xor, b) /\ x.payload_buf = <<>>
    BY <1>1, <1>5, <2>2, ParserSteps
  <2>. QED  BY <1>2, <1>3, <2>3, <2>4 DEF Twins
<1>6. CASE q.pstate = "READ_PAYLOAD"
  <2>1. LET x == process_byte(r, b) IN
        /\ x.pstate = IF Len(r.payload_buf) + 1 >= r.pkt_len
                      THEN "READ_CHECKSUM" ELSE "READ_PAYLOAD"
        /\ x.pkt_len = r.pkt_len /\ x.running_xor = ByteXor(r.running_xor, b)
        /\ x.payload_buf = Append(r.payload_buf, b)
    BY <1>1, <1>6, ParserSteps
  <2>2. LET x == process_byte(q, b) IN
        /\ x.pstate = IF Len(q.payload_buf) + 1 >= q.pkt_len
                      THEN "READ_CHECKSUM" ELSE "READ_PAYLOAD"
        /\ x.pkt_len = q.pkt_len /\ x.running_xor = ByteXor(q.running_xor, b)
        /\ x.payload_buf = Append(q.payload_buf, b)
    BY <1>1, <1>6, ParserSteps
  <2>3. Len(Append(r.payload_buf, b)) = Len(Append(q.payload_buf, b))  BY <1>1
  <2>. QED  BY <1>1, <1>2, <1>3, <2>1, <2>2, <2>3 DEF Twins
<1>. QED  BY <1>4, <1>5, <1>6

\* A type or a byte of the payload that is changed makes twins.
LEMMA TwinsBegin ==
    ASSUME NEW q \in Reader, NEW b \in Byte, NEW c \in Byte, b # c,
           q.pstate \in {"READ_TYPE", "READ_PAYLOAD"}
    PROVE  Twins(process_byte(q, b), process_byte(q, c)) /\ Handled(q, b) = NoPacket
<1>1. q.payload_buf \in Seq(Byte) /\ q.running_xor \in Byte  BY DEF Reader
<1>2. Handled(q, b) = NoPacket  BY ParserSteps
<1>3. CASE q.pstate = "READ_TYPE"
  <2>1. /\ process_byte(q, b) =
             [q EXCEPT !.pstate = "READ_LEN0", !.pkt_type = b, !.running_xor = b]
        /\ process_byte(q, c) =
             [q EXCEPT !.pstate = "READ_LEN0", !.pkt_type = c, !.running_xor = c]
    BY <1>3 DEF process_byte
  <2>. QED  BY <1>2, <2>1 DEF Twins, Reader
<1>4. CASE q.pstate = "READ_PAYLOAD"
  <2>1. LET x == process_byte(q, b) IN
        /\ x.pstate = IF Len(q.payload_buf) + 1 >= q.pkt_len
                      THEN "READ_CHECKSUM" ELSE "READ_PAYLOAD"
        /\ x.pkt_len = q.pkt_len /\ x.running_xor = ByteXor(q.running_xor, b)
        /\ x.payload_buf = Append(q.payload_buf, b)
    BY <1>4, ParserSteps
  <2>2. LET x == process_byte(q, c) IN
        /\ x.pstate = IF Len(q.payload_buf) + 1 >= q.pkt_len
                      THEN "READ_CHECKSUM" ELSE "READ_PAYLOAD"
        /\ x.pkt_len = q.pkt_len /\ x.running_xor = ByteXor(q.running_xor, c)
        /\ x.payload_buf = Append(q.payload_buf, c)
    BY <1>4, ParserSteps
  <2>3. Len(Append(q.payload_buf, b)) = Len(Append(q.payload_buf, c))  BY <1>1
  <2>4. ByteXor(q.running_xor, b) # ByteXor(q.running_xor, c)  BY <1>1, XorDiffers
  <2>. QED  BY <1>2, <2>1, <2>2, <2>3, <2>4 DEF Twins
<1>. QED  BY <1>3, <1>4

\* Where the parser is after three bytes or more, before the last.
LEMMA LaterPlace ==
    ASSUME NEW n \in Nat, NEW len \in Nat, n >= 3
    PROVE  /\ n < 5 + len => Place(n, len) \in {"READ_LEN0", "READ_LEN1", "READ_PAYLOAD"}
           /\ 5 <= n /\ n < 5 + len => Place(n, len) = "READ_PAYLOAD"
           /\ n = 5 + len => Place(n, len) = "READ_CHECKSUM"
BY DEF Place

\* What is known of the packet of a thread and of what it has put.
LEMMA PacketFacts ==
    ASSUME NEW t \in Threads, w \in [Threads -> Writer], WriterOK(w[t]), w[t].packet # NoPacket
    PROVE  /\ w[t] \in Writer /\ w[t].packet \in Packets
           /\ w[t].packet \in [type : Byte, payload : Seq(Byte)]
           /\ Len(w[t].packet.payload) \in Nat /\ w[t].sent \in Nat
           /\ IsLast(t) <=> w[t].sent = 5 + Len(w[t].packet.payload)
           /\ ~IsLast(t) <=> w[t].sent < 5 + Len(w[t].packet.payload)
           /\ ~IsLast(t) => \A mark : /\ Advanced(t, mark).sent = w[t].sent + 1
                                      /\ Advanced(t, mark).packet = w[t].packet
                                      /\ Advanced(t, mark).mark = mark
           /\ IsLast(t) => \A mark : Advanced(t, mark) = Idle
           /\ IsLast(t) => NextByte(t) = w[t].sum
<1>1. /\ w[t] \in Writer /\ w[t].packet \in Packets /\ w[t].sent \in Nat
      /\ w[t].packet \in [type : Byte, payload : Seq(Byte)]
      /\ Len(w[t].packet.payload) \in Nat /\ w[t].sent < Len(w[t].packet.payload) + 6
  BY PacketsFit DEF WriterOK, Writer, FrameLen
<1>2. /\ IsLast(t) <=> w[t].sent = 5 + Len(w[t].packet.payload)
      /\ ~IsLast(t) <=> w[t].sent < 5 + Len(w[t].packet.payload)
  BY <1>1 DEF IsLast, FrameLen
<1>3. ~IsLast(t) => \A mark : /\ Advanced(t, mark).sent = w[t].sent + 1
                              /\ Advanced(t, mark).packet = w[t].packet
                              /\ Advanced(t, mark).mark = mark
  BY <1>1 DEF Advanced, Writer
<1>4. IsLast(t) => \A mark : Advanced(t, mark) = Idle  BY DEF Advanced
<1>5. IsLast(t) => NextByte(t) = w[t].sum  BY <1>1, <1>2 DEF NextByte, FrameByte
<1>. QED  BY <1>1, <1>2, <1>3, <1>4, <1>5

\* A parser that follows a packet goes on following it; at the last byte it hands it over
\* if it is whole, drops it if not, and waits for the next one.
LEMMA FollowsByte ==
    ASSUME NEW t \in Threads, w \in [Threads -> Writer], WriterOK(w[t]), w[t].packet # NoPacket,
           ReaderOK(rx), w[t].mark # "damaged", Follows(w[t], rx)
    PROVE  /\ ~IsLast(t) => /\ Follows(Advanced(t, w[t].mark), process_byte(rx, NextByte(t)))
                            /\ Handled(rx, NextByte(t)) = NoPacket
           /\ IsLast(t) => /\ process_byte(rx, NextByte(t)).pstate = "WAIT_SYNC0"
                           /\ Handled(rx, NextByte(t)) = IF w[t].mark = "whole"
                                                         THEN w[t].packet ELSE NoPacket
<1>1. w[t].mark \in Marks  BY PacketFacts DEF Writer
<1>2. CASE w[t].mark = "whole"
  <2>1. InStep(w[t], rx)  BY <1>2 DEF Follows
  <2>2. ASSUME ~IsLast(t)
        PROVE  /\ Follows(Advanced(t, w[t].mark), process_byte(rx, NextByte(t)))
               /\ Handled(rx, NextByte(t)) = NoPacket
    <3>1. Advanced(t, w[t].mark).mark = "whole"  BY <1>2, <2>2, PacketFacts
    <3>. QED  BY <1>1, <2>1, <2>2, <3>1, StaysInStep DEF Follows
  <2>. QED  BY <1>2, <2>1, <2>2, LastByteDelivers
<1>3. CASE w[t].mark # "whole"
  <2> DEFINE n == w[t].sent
             len == Len(w[t].packet.payload)
             b == NextByte(t)
  <2>1. PICK q \in Reader : ReaderOK(q) /\ InStep(w[t], q) /\ Twins(rx, q)
    BY <1>3 DEF Follows
  <2>2. n \in Nat /\ len \in Nat /\ n >= 3 /\ q.pstate = Place(n, len) /\ rx \in Reader
    BY <1>3, <2>1, PacketFacts DEF Follows, InStep, ReaderOK
  <2>3. b \in Byte  BY NextIsByte
  <2>4. ASSUME ~IsLast(t)
        PROVE  Follows(Advanced(t, w[t].mark), process_byte(rx, b)) /\ Handled(rx, b) = NoPacket
    <3>1. n < 5 + len  BY <2>4, PacketFacts
    <3>2. q.pstate \in {"READ_LEN0", "READ_LEN1", "READ_PAYLOAD"}  BY <2>2, <3>1, LaterPlace
    <3>3. Twins(process_byte(rx, b), process_byte(q, b)) /\ Handled(rx, b) = NoPacket
      BY <2>1, <2>2, <2>3, <3>2, TwinsStay
    <3>4. InStep(Advanced(t, w[t].mark), process_byte(q, b))
      BY <1>1, <2>1, <2>4, StaysInStep
    <3>5. ReaderOK(process_byte(q, b)) /\ process_byte(q, b) \in Reader
      BY <2>1, <2>3, ParserTypes DEF ReaderOK
    <3>6. /\ Advanced(t, w[t].mark).mark = w[t].mark
          /\ Advanced(t, w[t].mark).sent = n + 1 /\ n + 1 >= 3
      BY <2>2, <2>4, PacketFacts
    <3>. QED  BY <1>3, <3>3, <3>4, <3>5, <3>6 DEF Follows
  <2>5. ASSUME IsLast(t)
        PROVE  process_byte(rx, b).pstate = "WAIT_SYNC0" /\ Handled(rx, b) = NoPacket
    <3>1. n = 5 + len /\ b = w[t].sum  BY <2>5, PacketFacts
    <3>2. q.pstate = "READ_CHECKSUM"  BY <2>2, <3>1, LaterPlace
    <3>3. q.running_xor = w[t].sum  BY <2>1, <2>2 DEF InStep
    <3>4. rx.pstate = "READ_CHECKSUM" /\ rx.running_xor # b
      BY <2>1, <3>1, <3>2, <3>3 DEF Twins
    <3>. QED  BY <2>2, <2>3, <3>4, ParserSteps DEF Handled
  <2>. QED  BY <1>3, <2>4, <2>5
<1>. QED  BY <1>2, <1>3

\* So does one that gets a changed byte that is neither a sync byte nor of the length.
LEMMA FollowsChanged ==
    ASSUME NEW t \in Threads, w \in [Threads -> Writer], WriterOK(w[t]), w[t].packet # NoPacket,
           ReaderOK(rx), w[t].mark = "whole", w[t].sent \notin {0, 1, 3, 4},
           Follows(w[t], rx), NEW b \in Byte, b # NextByte(t)
    PROVE  /\ Handled(rx, b) = NoPacket
           /\ ~IsLast(t) => Follows(Advanced(t, "spoiled"), process_byte(rx, b))
           /\ IsLast(t) => process_byte(rx, b).pstate = "WAIT_SYNC0"
<1> DEFINE n == w[t].sent
           len == Len(w[t].packet.payload)
           c == NextByte(t)
<1>1. InStep(w[t], rx)  BY DEF Follows
<1>2. /\ n \in Nat /\ len \in Nat /\ (n = 2 \/ n >= 5) /\ rx.pstate = Place(n, len)
      /\ rx \in Reader
  BY <1>1, PacketFacts DEF InStep, ReaderOK
<1>3. c \in Byte  BY NextIsByte
<1>4. CASE ~IsLast(t)
  <2>1. n < 5 + len  BY <1>4, PacketFacts
  <2>2. rx.pstate \in {"READ_TYPE", "READ_PAYLOAD"}
    <3>1. CASE n = 2  BY <1>2, <3>1 DEF Place
    <3>2. CASE n >= 5
      <4>1. n >= 3  BY <1>2, <3>2
      <4>. QED  BY <1>2, <2>1, <3>2, <4>1, LaterPlace
    <3>. QED  BY <1>2, <3>1, <3>2
  <2>3. Twins(process_byte(rx, b), process_byte(rx, c)) /\ Handled(rx, b) = NoPacket
    BY <1>2, <1>3, <2>2, TwinsBegin
  <2>4. InStep(Advanced(t, "spoiled"), process_byte(rx, c))
    <3>1. "spoiled" \in Marks  BY DEF Marks
    <3>. QED  BY <1>1, <1>4, <3>1, StaysInStep
  <2>5. ReaderOK(process_byte(rx, c)) /\ process_byte(rx, c) \in Reader
    BY <1>3, ParserTypes DEF ReaderOK
  <2>6. /\ Advanced(t, "spoiled").mark = "spoiled" /\ Advanced(t, "spoiled").sent = n + 1
        /\ n + 1 >= 3
    BY <1>2, <1>4, PacketFacts
  <2>7. Follows(Advanced(t, "spoiled"), process_byte(rx, b))
    BY <2>3, <2>4, <2>5, <2>6 DEF Follows
  <2>. QED  BY <1>4, <2>3, <2>7
<1>5. CASE IsLast(t)
  <2>1. n = 5 + len /\ c = w[t].sum  BY <1>5, PacketFacts
  <2>2. rx.pstate = "READ_CHECKSUM"
    <3>1. n >= 3  BY <1>2, <2>1
    <3>. QED  BY <1>2, <2>1, <3>1, LaterPlace
  <2>3. rx.running_xor = c
    <3>1. n >= 3  BY <1>2, <2>1
    <3>. QED  BY <1>1, <2>1, <3>1 DEF InStep
  <2>. QED  BY <1>2, <1>5, <2>2, <2>3, ParserSteps DEF Handled
<1>. QED  BY <1>4, <1>5

---------------------------------------------------------------------------
(* A parser that is out of step.                                           *)

\* Bytes that the parser can still take before it waits for a frame again.
Left(r) ==
    CASE r.pstate = "WAIT_SYNC0" -> 0
      [] r.pstate = "WAIT_SYNC1" -> 1
      [] r.pstate = "READ_TYPE" -> MAX_PAYLOAD + 4
      [] r.pstate = "READ_LEN0" -> MAX_PAYLOAD + 3
      [] r.pstate = "READ_LEN1" -> MAX_PAYLOAD + 2
      [] r.pstate = "READ_PAYLOAD" -> r.pkt_len - Len(r.payload_buf) + 1
      [] OTHER -> 1

\* After n bytes of a packet and s packets of at least 6 bytes it has so many fewer left.
Behind(r, n, s) == Left(r) + n + 6 * s <= MAX_PAYLOAD + 4

\* No byte of the packet between its sync bytes and its checksum is SYNC_0.
QuietPacket(p) ==
    /\ p.type # SYNC_0 /\ Low(Len(p.payload)) # SYNC_0 /\ High(Len(p.payload)) # SYNC_0
    /\ \A i \in 1..Len(p.payload) : p.payload[i] # SYNC_0

\* The parser does not follow the packet.  If the packet is quiet, either it takes each of
\* its bytes for something else, or it waits for the next frame already.
OutOfStep(x, r, s) ==
    /\ s < Recovery
    /\ x.mark = "whole" /\ QuietPacket(x.packet) =>
          /\ s + 1 < Recovery
          /\ \/ r.pstate = "WAIT_SYNC0" /\ x.sent > 0
             \/ /\ r.pstate # "WAIT_SYNC0" /\ (r.pstate = "WAIT_SYNC1" => x.sent = 0)
                /\ Behind(r, x.sent, s)

\* What the parser is like between two packets.
Ready(r, s) == r.pstate = "WAIT_SYNC0" \/ Behind(r, 0, s)

\* Left, state by state.
LEMMA LeftIs ==
    ASSUME NEW r
    PROVE  /\ r.pstate = "WAIT_SYNC0" => Left(r) = 0
           /\ r.pstate = "WAIT_SYNC1" => Left(r) = 1
           /\ r.pstate = "READ_TYPE" => Left(r) = MAX_PAYLOAD + 4
           /\ r.pstate = "READ_LEN0" => Left(r) = MAX_PAYLOAD + 3
           /\ r.pstate = "READ_LEN1" => Left(r) = MAX_PAYLOAD + 2
           /\ r.pstate = "READ_PAYLOAD" => Left(r) = r.pkt_len - Len(r.payload_buf) + 1
           /\ r.pstate = "READ_CHECKSUM" => Left(r) = 1
BY DEF Left

\* It is never more than the rest of a header, a payload and a checksum.
LEMMA LeftBound ==
    ASSUME NEW r, ReaderOK(r)
    PROVE  /\ Left(r) \in Nat /\ Left(r) <= MAX_PAYLOAD + 4
           /\ r.pstate # "WAIT_SYNC0" => Left(r) >= 1
<1>1. /\ MAX_PAYLOAD \in Nat /\ r.pstate \in States /\ Len(r.payload_buf) \in Nat
      /\ r.pkt_len \in Nat
  BY RecoveryIs, Widths DEF ReaderOK, Reader
<1>2. CASE r.pstate = "READ_PAYLOAD"
  <2>1. r.pkt_len <= MAX_PAYLOAD /\ Len(r.payload_buf) < r.pkt_len  BY <1>2 DEF ReaderOK
  <2>. QED  BY <1>1, <1>2, <2>1, LeftIs
<1>3. CASE r.pstate # "READ_PAYLOAD"  BY <1>1, <1>3, LeftIs DEF States
<1>. QED  BY <1>2, <1>3

\* Each byte is one of them, and none but SYNC_0 makes the parser begin another frame.
LEMMA Swallows ==
    ASSUME NEW r, ReaderOK(r), NEW b \in Byte
    PROVE  LET q == process_byte(r, b) IN
           /\ r.pstate = "WAIT_SYNC0" /\ b # SYNC_0 => q.pstate = "WAIT_SYNC0"
           /\ r.pstate = "WAIT_SYNC1" /\ b # SYNC_1 => q.pstate = "WAIT_SYNC0"
           /\ r.pstate \notin {"WAIT_SYNC0", "WAIT_SYNC1"} =>
                 Left(q) + 1 <= Left(r) /\ q.pstate # "WAIT_SYNC1"
<1> DEFINE q == process_byte(r, b)
<1>1. /\ MAX_PAYLOAD \in Nat /\ r \in Reader /\ r.pstate \in States
      /\ Len(r.payload_buf) \in Nat /\ r.pkt_len \in Nat /\ r.payload_buf \in Seq(Byte)
  BY RecoveryIs, Widths DEF ReaderOK, Reader
<1>2. /\ r.pstate = "WAIT_SYNC0" /\ b # SYNC_0 => q.pstate = "WAIT_SYNC0"
      /\ r.pstate = "WAIT_SYNC1" /\ b # SYNC_1 => q.pstate = "WAIT_SYNC0"
  BY <1>1 DEF process_byte, To, Reader
<1>3. ReaderOK(q)  BY ParserTypes
<1>4. CASE r.pstate = "READ_TYPE"
  <2>1. q.pstate = "READ_LEN0"  BY <1>1, <1>4, ParserSteps
  <2>. HIDE DEF q
  <2>. QED  BY <1>1, <1>2, <1>4, <2>1, LeftIs DEF q
<1>5. CASE r.pstate = "READ_LEN0"
  <2>1. q.pstate = "READ_LEN1"  BY <1>1, <1>5, ParserSteps
  <2>. HIDE DEF q
  <2>. QED  BY <1>1, <1>2, <1>5, <2>1, LeftIs DEF q
<1>6. CASE r.pstate = "READ_LEN1"
  <2>1. PICK len : len = r.pkt_len + 256 * b  OBVIOUS
  <2>2. q.pstate = AfterLength(len) /\ q.pkt_len = len /\ q.payload_buf = <<>>
    BY <1>1, <1>6, <2>1, ParserSteps
  <2>3. len \in Nat
    <3>1. b \in Nat  BY Widths
    <3>. QED  BY <1>1, <2>1, <3>1
  <2>. HIDE DEF q
  <2>4. \/ q.pstate = "READ_CHECKSUM" \/ q.pstate = "WAIT_SYNC0"
        \/ q.pstate = "READ_PAYLOAD" /\ len <= MAX_PAYLOAD
    BY <2>2 DEF AfterLength
  <2>5. Left(q) <= MAX_PAYLOAD + 1
    <3>1. Len(q.payload_buf) = 0  BY <2>2
    <3>. QED  BY <1>1, <2>2, <2>3, <2>4, <3>1, LeftIs
  <2>6. Left(r) = MAX_PAYLOAD + 2 /\ Left(q) \in Nat /\ q.pstate # "WAIT_SYNC1"
    BY <1>3, <1>6, <2>4, LeftIs, LeftBound
  <2>. QED  BY <1>1, <1>2, <1>6, <2>5, <2>6 DEF q
<1>7. CASE r.pstate = "READ_PAYLOAD"
  <2>1. /\ q.pstate = IF Len(r.payload_buf) + 1 >= r.pkt_len
                      THEN "READ_CHECKSUM" ELSE "READ_PAYLOAD"
        /\ q.pkt_len = r.pkt_len /\ q.payload_buf = Append(r.payload_buf, b)
    BY <1>1, <1>7, ParserSteps
  <2>2. Len(Append(r.payload_buf, b)) = Len(r.payload_buf) + 1  BY <1>1
  <2>3. Len(r.payload_buf) < r.pkt_len /\ Left(r) = r.pkt_len - Len(r.payload_buf) + 1
    BY <1>7, LeftIs DEF ReaderOK
  <2>. HIDE DEF q
  <2>4. Left(q) + 1 <= Left(r)
    <3>1. CASE q.pstate = "READ_CHECKSUM"
      <4>1. Left(q) = 1  BY <3>1, LeftIs
      <4>. QED  BY <1>1, <2>3, <4>1
    <3>2. CASE q.pstate = "READ_PAYLOAD"
      <4>1. Left(q) = q.pkt_len - Len(q.payload_buf) + 1  BY <3>2, LeftIs
      <4>. QED  BY <1>1, <2>1, <2>2, <2>3, <4>1
    <3>. QED  BY <2>1, <3>1, <3>2
  <2>5. q.pstate # "WAIT_SYNC1"  BY <2>1
  <2>. QED  BY <1>2, <1>7, <2>4, <2>5 DEF q
<1>8. CASE r.pstate = "READ_CHECKSUM"
  <2>1. q.pstate = "WAIT_SYNC0"  BY <1>1, <1>8, ParserSteps
  <2>. HIDE DEF q
  <2>. QED  BY <1>1, <1>2, <1>8, <2>1, LeftIs DEF q
<1>9. CASE r.pstate \in {"WAIT_SYNC0", "WAIT_SYNC1"}  BY <1>2, <1>9
<1>. QED  BY <1>1, <1>4, <1>5, <1>6, <1>7, <1>8, <1>9 DEF States

\* The bytes of a quiet packet after the first.
LEMMA QuietBytes ==
    ASSUME NEW t \in Threads, w \in [Threads -> Writer], WriterOK(w[t]), w[t].packet # NoPacket
    PROVE  /\ w[t].sent = 0 => NextByte(t) = SYNC_0
           /\ QuietPacket(w[t].packet) /\ w[t].sent > 0 /\ ~IsLast(t) => NextByte(t) # SYNC_0
           /\ QuietPacket(w[t].packet) /\ w[t].sum # SYNC_0 => Quiet(t)
           /\ Quiet(t) => QuietPacket(w[t].packet) /\ w[t].sum # SYNC_0
<1> DEFINE n == w[t].sent
           p == w[t].packet
           len == Len(p.payload)
<1>1. n \in Nat /\ len \in Nat /\ (~IsLast(t) => n < 5 + len)  BY PacketFacts
<1>2. n = 0 => NextByte(t) = SYNC_0  BY <1>1 DEF NextByte, FrameByte
<1>3. ASSUME QuietPacket(p), n > 0, ~IsLast(t)  PROVE NextByte(t) # SYNC_0
  <2>1. CASE n = 1
    <3>1. NextByte(t) = SYNC_1  BY <1>1, <2>1 DEF NextByte, FrameByte
    <3>. QED  BY <3>1, SyncBytes
  <2>2. CASE n = 2
    <3>1. NextByte(t) = p.type  BY <1>1, <2>2 DEF NextByte, FrameByte
    <3>. QED  BY <1>3, <3>1 DEF QuietPacket
  <2>3. CASE n = 3
    <3>1. NextByte(t) = Low(len)  BY <1>1, <2>3 DEF NextByte, FrameByte
    <3>. QED  BY <1>3, <3>1 DEF QuietPacket
  <2>4. CASE n = 4
    <3>1. NextByte(t) = High(len)  BY <1>1, <2>4 DEF NextByte, FrameByte
    <3>. QED  BY <1>3, <3>1 DEF QuietPacket
  <2>5. CASE n >= 5
    <3>1. n + 1 \in 6..(5 + len) /\ (n + 1) - 5 \in 1..len  BY <1>1, <1>3, <2>5
    <3>2. NextByte(t) = FrameByte(p, n + 1, w[t].sum)  BY DEF NextByte
    <3>3. NextByte(t) = p.payload[(n + 1) - 5]  BY <1>1, <2>5, <3>1, <3>2 DEF FrameByte
    <3>. QED  BY <1>3, <3>1, <3>3 DEF QuietPacket
  <2>. QED  BY <1>1, <1>3, <2>1, <2>2, <2>3, <2>4, <2>5
<1>. QED  BY <1>2, <1>3 DEF Quiet, QuietPacket

\* A parser that is out of step stays so until the last byte.
LEMMA OutOfStepByte ==
    ASSUME NEW t \in Threads, w \in [Threads -> Writer], WriterOK(w[t]), w[t].packet # NoPacket,
           ReaderOK(rx), NEW s \in Nat, OutOfStep(w[t], rx, s), ~IsLast(t)
    PROVE  OutOfStep(Advanced(t, w[t].mark), process_byte(rx, NextByte(t)), s)
<1> DEFINE n == w[t].sent
           b == NextByte(t)
           q == process_byte(rx, b)
           x == Advanced(t, w[t].mark)
<1>1. n \in Nat /\ x.sent = n + 1 /\ x.packet = w[t].packet /\ x.mark = w[t].mark
  BY PacketFacts
<1>2. b \in Byte  BY NextIsByte
<1>3. ReaderOK(q)  BY <1>2, ParserTypes
<1>4. /\ Left(rx) \in Nat /\ Left(q) \in Nat /\ MAX_PAYLOAD \in Nat
  BY <1>3, LeftBound, RecoveryIs
<1>5. s < Recovery  BY DEF OutOfStep
<1>. SUFFICES ASSUME w[t].mark = "whole", QuietPacket(w[t].packet)
              PROVE  /\ s + 1 < Recovery
                     /\ \/ q.pstate = "WAIT_SYNC0" /\ x.sent > 0
                        \/ /\ q.pstate # "WAIT_SYNC0" /\ (q.pstate = "WAIT_SYNC1" => x.sent = 0)
                           /\ Behind(q, x.sent, s)
  BY <1>1, <1>5 DEF OutOfStep
<1>6. s + 1 < Recovery  BY DEF OutOfStep
<1>7. x.sent > 0  BY <1>1
<1>. HIDE DEF q, x, b
<1>8. CASE rx.pstate = "WAIT_SYNC0"
  <2>1. n > 0  BY <1>8 DEF OutOfStep
  <2>2. b # SYNC_0  BY <2>1, QuietBytes DEF b
  <2>3. q.pstate = "WAIT_SYNC0"  BY <1>2, <1>8, <2>2, Swallows DEF q
  <2>. QED  BY <1>6, <1>7, <2>3
<1>9. CASE rx.pstate = "WAIT_SYNC1"
  <2>1. n = 0  BY <1>9 DEF OutOfStep
  <2>2. b # SYNC_1  BY <2>1, QuietBytes, SyncBytes DEF b
  <2>3. q.pstate = "WAIT_SYNC0"  BY <1>2, <1>9, <2>2, Swallows DEF q
  <2>. QED  BY <1>6, <1>7, <2>3
<1>10. CASE rx.pstate \notin {"WAIT_SYNC0", "WAIT_SYNC1"}
  <2>1. Left(q) + 1 <= Left(rx) /\ q.pstate # "WAIT_SYNC1"  BY <1>2, <1>10, Swallows DEF q
  <2>2. Left(rx) + n + 6 * s <= MAX_PAYLOAD + 4  BY <1>10 DEF OutOfStep, Behind
  <2>3. Left(q) + (n + 1) + 6 * s <= MAX_PAYLOAD + 4  BY <1>1, <1>4, <2>1, <2>2
  <2>. QED  BY <1>1, <1>6, <1>7, <2>1, <2>3 DEF Behind
<1>. QED  BY <1>8, <1>9, <1>10

\* At the last byte of a quiet packet it is one packet further on.
LEMMA OutOfStepLast ==
    ASSUME NEW t \in Threads, w \in [Threads -> Writer], WriterOK(w[t]), w[t].packet # NoPacket,
           ReaderOK(rx), NEW s \in Nat, OutOfStep(w[t], rx, s), IsLast(t),
           w[t].mark = "whole", Quiet(t)
    PROVE  s + 1 < Recovery /\ Ready(process_byte(rx, NextByte(t)), s + 1)
<1> DEFINE n == w[t].sent
           b == NextByte(t)
           q == process_byte(rx, b)
<1>1. n \in Nat /\ n >= 5 /\ b = w[t].sum
  <2>1. n \in Nat /\ Len(w[t].packet.payload) \in Nat /\ n = 5 + Len(w[t].packet.payload)
        /\ b = w[t].sum
    BY PacketFacts
  <2>. QED  BY <2>1
<1>2. b \in Byte /\ b # SYNC_0 /\ QuietPacket(w[t].packet)
  BY <1>1, NextIsByte, QuietBytes
<1>3. ReaderOK(q)  BY <1>2, ParserTypes
<1>4. Left(rx) \in Nat /\ Left(q) \in Nat /\ MAX_PAYLOAD \in Nat
  BY <1>3, LeftBound, RecoveryIs
<1>5. s + 1 < Recovery  BY <1>2 DEF OutOfStep
<1>. HIDE DEF q, b
<1>6. CASE rx.pstate = "WAIT_SYNC0"
  <2>1. q.pstate = "WAIT_SYNC0"  BY <1>2, <1>6, Swallows DEF q
  <2>. QED  BY <1>5, <2>1 DEF Ready, q, b
<1>7. CASE rx.pstate # "WAIT_SYNC0"
  <2>1. rx.pstate # "WAIT_SYNC1" /\ Left(rx) + n + 6 * s <= MAX_PAYLOAD + 4
    BY <1>1, <1>2, <1>7 DEF OutOfStep, Behind
  <2>2. Left(q) + 1 <= Left(rx)  BY <1>2, <1>7, <2>1, Swallows DEF q
  <2>3. Left(q) + 0 + 6 * (s + 1) <= MAX_PAYLOAD + 4  BY <1>1, <1>4, <2>1, <2>2
  <2>. QED  BY <1>5, <2>3 DEF Ready, Behind, q, b
<1>. QED  BY <1>6, <1>7

\* Between packets the parser follows the next one from its first byte, or is out of step.
LEMMA NextFollows ==
    ASSUME NEW t \in Threads, w \in [Threads -> Writer], WriterOK(w[t]), w[t].packet # NoPacket,
           ReaderOK(rx), NEW s \in Nat, Ready(rx, s),
           w[t].sent = 0, w[t].sum = 0, w[t].mark = "whole"
    PROVE  Follows(w[t], rx) \/ OutOfStep(w[t], rx, s)
<1>1. Len(w[t].packet.payload) \in Nat  BY PacketFacts
<1>2. CASE rx.pstate = "WAIT_SYNC0"  BY <1>1, <1>2 DEF Follows, InStep, Place
<1>3. CASE rx.pstate # "WAIT_SYNC0"
  <2>1. Left(rx) + 0 + 6 * s <= MAX_PAYLOAD + 4  BY <1>3 DEF Ready, Behind
  <2>2. Left(rx) \in Nat /\ Left(rx) >= 1 /\ MAX_PAYLOAD \in Nat /\ Recovery \in Nat
    BY <1>3, LeftBound, RecoveryIs
  <2>3. 6 * s <= MAX_PAYLOAD + 3  BY <2>1, <2>2
  <2>4. s + 1 < Recovery  BY <2>3, RecoveryIs
  <2>5. s < Recovery  BY <2>2, <2>4
  <2>. QED  BY <1>3, <2>1, <2>4, <2>5 DEF OutOfStep, Behind
<1>. QED  BY <1>2, <1>3

---------------------------------------------------------------------------
(* The line.                                                               *)

\* At most one packet is on its way unless all that are on their way are damaged; the parser
\* follows an undamaged one, or is out of step by what settled allows; and nothing of this
\* happens on a line that had no fault.
LineInv ==
    /\ \A t \in Threads : ~InFrame(t) => w[t].sum = 0 /\ w[t].mark = "whole"
    /\ \A t, u \in Threads : InFrame(t) /\ InFrame(u) /\ t # u => w[t].mark = "damaged"
    /\ \A t \in Threads : InFrame(t) =>
          IF w[t].mark = "damaged" THEN settled = 0
          ELSE Follows(w[t], rx) \/ OutOfStep(w[t], rx, settled)
    /\ (\A t \in Threads : ~InFrame(t)) => Ready(rx, settled)
    /\ damage = 0 => settled = Recovery /\ \A t \in Threads : w[t].mark = "whole"
    /\ Exact

\* After a fault that damages all that is on its way, nothing is known of the parser.
LEMMA DamagedStep ==
    ASSUME ReaderOK(rx'), settled' = 0, damage' # 0,
           \A t \in Threads : IF InFrame(t)' THEN w'[t].mark = "damaged"
                              ELSE w'[t].sum = 0 /\ w'[t].mark = "whole"
    PROVE  LineInv'
<1>1. Ready(rx', settled')
  <2>1. Left(rx') \in Nat /\ Left(rx') <= MAX_PAYLOAD + 4 /\ MAX_PAYLOAD \in Nat
    BY LeftBound, RecoveryIs
  <2>2. Left(rx') + 0 + 6 * settled' <= MAX_PAYLOAD + 4  BY <2>1
  <2>. QED  BY <2>2 DEF Ready, Behind
<1>2. Exact'
  <2>1. settled' # Recovery  BY RecoveryIs
  <2>. QED  BY <2>1 DEF Exact
<1>3. \A t \in Threads : ~InFrame(t)' => w'[t].sum = 0 /\ w'[t].mark = "whole"  OBVIOUS
<1>4. \A t \in Threads : InFrame(t)' => w'[t].mark = "damaged"  OBVIOUS
<1>. QED  BY <1>1, <1>2, <1>3, <1>4 DEF LineInv

\* Whoever puts a byte without intruding is alone, unless its packet is damaged.
LEMMA Alone ==
    ASSUME TypeOK, LineInv, NEW t \in Threads, ~Intrudes(t), w[t].mark # "damaged"
    PROVE  \A u \in Threads \ {t} : ~InFrame(u)
BY DEF LineInv, Intrudes

\* A byte of a packet that is alone and undamaged.
LEMMA AloneStep ==
    ASSUME NEW t \in Threads, w \in [Threads -> Writer], NEW v,
           w' = [w EXCEPT ![t] = v], \A u \in Threads \ {t} : ~InFrame(u),
           \A u \in Threads : ~InFrame(u) => w[u].sum = 0 /\ w[u].mark = "whole",
           IF v.sent > 0 THEN v.mark # "damaged" /\ (Follows(v, rx') \/ OutOfStep(v, rx', settled'))
           ELSE v.sum = 0 /\ v.mark = "whole" /\ Ready(rx', settled'),
           damage' = 0 => settled' = Recovery /\ v.mark = "whole", Exact'
    PROVE  LineInv'
<1>1. w'[t] = v /\ \A u \in Threads \ {t} : w'[u] = w[u]  OBVIOUS
<1>2. \A u \in Threads \ {t} : ~InFrame(u)' /\ w'[u].sum = 0 /\ w'[u].mark = "whole"
  BY <1>1 DEF InFrame
<1>3. InFrame(t)' <=> v.sent > 0  BY <1>1 DEF InFrame
<1>4. \A u \in Threads : ~InFrame(u)' => w'[u].sum = 0 /\ w'[u].mark = "whole"
  BY <1>1, <1>2, <1>3
<1>5. \A u \in Threads : InFrame(u)' => u = t  BY <1>2
<1>6. \A u \in Threads : InFrame(u)' =>
          IF w'[u].mark = "damaged" THEN settled' = 0
          ELSE Follows(w'[u], rx') \/ OutOfStep(w'[u], rx', settled')
  BY <1>1, <1>3, <1>5
<1>7. (\A u \in Threads : ~InFrame(u)') => Ready(rx', settled')  BY <1>3
<1>8. damage' = 0 => settled' = Recovery /\ \A u \in Threads : w'[u].mark = "whole"
  BY <1>1, <1>2
<1>. QED  BY <1>4, <1>5, <1>6, <1>7, <1>8 DEF LineInv

\* What is left after a fault to one packet, when no other undamaged one is on its way.
LEMMA DamagedOne ==
    ASSUME TypeOK, LineInv, NEW t \in Threads, NEW v, w' = [w EXCEPT ![t] = v],
           IF v.sent > 0 THEN v.mark = "damaged" ELSE v.sum = 0 /\ v.mark = "whole",
           \A u \in Threads \ {t} : InFrame(u) => w[u].mark = "damaged"
    PROVE  \A u \in Threads : IF InFrame(u)' THEN w'[u].mark = "damaged"
                              ELSE w'[u].sum = 0 /\ w'[u].mark = "whole"
<1>1. w'[t] = v /\ \A u \in Threads \ {t} : w'[u] = w[u]  BY DEF TypeOK
<1>2. InFrame(t)' <=> v.sent > 0  BY <1>1 DEF InFrame
<1>3. \A u \in Threads \ {t} : InFrame(u)' <=> InFrame(u)  BY <1>1 DEF InFrame
<1>4. \A u \in Threads : ~InFrame(u) => w[u].sum = 0 /\ w[u].mark = "whole"  BY DEF LineInv
<1>. QED  BY <1>1, <1>2, <1>3, <1>4

\* The same when all that is on its way is marked.
LEMMA DamagedAll ==
    ASSUME NEW ws, w' = Marked(ws),
           \A u \in Threads : ~(ws[u].sent > 0) => ws[u].sum = 0 /\ ws[u].mark = "whole",
           \A u \in Threads : ws[u] \in Writer
    PROVE  \A u \in Threads : IF InFrame(u)' THEN w'[u].mark = "damaged"
                              ELSE w'[u].sum = 0 /\ w'[u].mark = "whole"
<1> TAKE u \in Threads
<1>1. CASE ws[u].sent > 0
  <2>1. w'[u] = [ws[u] EXCEPT !.mark = "damaged"]  BY <1>1 DEF Marked
  <2>2. w'[u].sent = ws[u].sent /\ w'[u].mark = "damaged"  BY <2>1 DEF Writer
  <2>. QED  BY <1>1, <2>2 DEF InFrame
<1>2. CASE ~(ws[u].sent > 0)
  <2>1. w'[u] = ws[u]  BY <1>2 DEF Marked
  <2>. QED  BY <1>2, <2>1 DEF InFrame
<1>. QED  BY <1>1, <1>2

\* A thread that has put a byte is in the middle of its packet, or idle again.
LEMMA AdvancedIs ==
    ASSUME NEW t \in Threads, w \in [Threads -> Writer], WriterOK(w[t]), w[t].packet # NoPacket,
           NEW mark
    PROVE  /\ ~IsLast(t) => Advanced(t, mark).sent > 0 /\ Advanced(t, mark).mark = mark
           /\ IsLast(t) => /\ Advanced(t, mark) = Idle /\ ~(Idle.sent > 0)
                           /\ Idle.sum = 0 /\ Idle.mark = "whole"
<1>1. w[t].sent \in Nat  BY PacketFacts
<1>2. ~IsLast(t) => /\ Advanced(t, mark).sent = w[t].sent + 1
                    /\ Advanced(t, mark).mark = mark
  BY PacketFacts
<1>3. IsLast(t) => Advanced(t, mark) = Idle  BY PacketFacts
<1>. QED  BY <1>1, <1>2, <1>3 DEF Idle

\* The parser follows the packet of whoever puts a byte without intruding, or is out of step.
LEMMA FollowsOrNot ==
    ASSUME TypeOK, LineInv, NEW t \in Threads, w[t].packet # NoPacket, ~Intrudes(t),
           w[t].mark # "damaged"
    PROVE  Follows(w[t], rx) \/ OutOfStep(w[t], rx, settled)
<1>1. /\ w \in [Threads -> Writer] /\ WriterOK(w[t]) /\ ReaderOK(rx) /\ settled \in Nat
      /\ w[t].sent \in Nat
  BY TypeParts, RecoveryIs, PacketFacts
<1>2. CASE InFrame(t)  BY <1>2 DEF LineInv
<1>3. CASE ~InFrame(t)
  <2>1. w[t].sent = 0  BY <1>1, <1>3 DEF InFrame
  <2>2. w[t].sum = 0 /\ w[t].mark = "whole"  BY <1>3 DEF LineInv
  <2>3. \A u \in Threads : ~InFrame(u)  BY <1>3, Alone
  <2>4. Ready(rx, settled)  BY <2>3 DEF LineInv
  <2>. QED  BY <1>1, <2>1, <2>2, <2>4, NextFollows
<1>. QED  BY <1>2, <1>3

\* A byte that arrives as it is.
LEMMA PutByteLine == ASSUME TypeOK, LineInv, NEW t \in Threads, PutByte(t)  PROVE LineInv'
<1>1. /\ w[t].packet # NoPacket /\ ~Intrudes(t)
      /\ rx' = process_byte(rx, NextByte(t)) /\ out' = Handled(rx, NextByte(t))
      /\ w' = [w EXCEPT ![t] = Advanced(t, w[t].mark)]
      /\ wrote' = Wrote(t, w[t].mark) /\ settled' = Settled(t, w[t].mark) /\ damage' = damage
  BY DEF PutByte, Receive
<1>2. /\ w \in [Threads -> Writer] /\ WriterOK(w[t]) /\ ReaderOK(rx) /\ settled \in 0..Recovery
      /\ settled \in Nat /\ Recovery \in Nat /\ Recovery >= 2
  BY TypeParts, RecoveryIs
<1>3. ReaderOK(rx')  BY <1>1, <1>2, NextIsByte, ParserTypes
<1>4. CASE w[t].mark = "damaged"
  <2>1. InFrame(t)  BY <1>4 DEF LineInv
  <2>2. damage' # 0  BY <1>1, <1>4 DEF LineInv
  <2>3. settled' = 0  BY <1>1, <1>4 DEF Settled
  <2>4. \A u \in Threads \ {t} : InFrame(u) => w[u].mark = "damaged"  BY <2>1 DEF LineInv
  <2>5. IF Advanced(t, w[t].mark).sent > 0 THEN Advanced(t, w[t].mark).mark = "damaged"
        ELSE Advanced(t, w[t].mark).sum = 0 /\ Advanced(t, w[t].mark).mark = "whole"
    BY <1>1, <1>2, <1>4, AdvancedIs
  <2>. QED  BY <1>1, <1>3, <2>2, <2>3, <2>4, <2>5, DamagedOne, DamagedStep
<1>5. CASE w[t].mark # "damaged"
  <2> DEFINE v == Advanced(t, w[t].mark)
  <2>1. \A u \in Threads \ {t} : ~InFrame(u)  BY <1>1, <1>5, Alone
  <2>2. \A u \in Threads : ~InFrame(u) => w[u].sum = 0 /\ w[u].mark = "whole"  BY DEF LineInv
  <2>3. Follows(w[t], rx) \/ OutOfStep(w[t], rx, settled)  BY <1>1, <1>5, FollowsOrNot
  <2>4. settled = Recovery => settled' = Recovery  BY <1>1, <1>2, <1>5 DEF Settled
  <2>5. /\ ~IsLast(t) => v.sent > 0 /\ v.mark = w[t].mark
        /\ IsLast(t) => v = Idle /\ ~(v.sent > 0) /\ v.sum = 0 /\ v.mark = "whole"
    BY <1>1, <1>2, AdvancedIs
  <2>6. damage' = 0 => settled' = Recovery /\ v.mark = "whole"
    BY <1>1, <2>4, <2>5 DEF LineInv
  <2>7. CASE Follows(w[t], rx)
    <3>1. CASE ~IsLast(t)
      <4>1. Follows(v, rx') /\ out' = NoPacket  BY <1>1, <1>2, <1>5, <2>7, <3>1, FollowsByte
      <4>2. wrote' = NoPacket  BY <1>1, <3>1 DEF Wrote
      <4>3. Exact'  BY <4>1, <4>2 DEF Exact
      <4>. QED  BY <1>1, <1>2, <1>5, <2>1, <2>2, <2>5, <2>6, <3>1, <4>1, <4>3, AloneStep
    <3>2. CASE IsLast(t)
      <4>1. /\ rx'.pstate = "WAIT_SYNC0"
            /\ out' = IF w[t].mark = "whole" THEN w[t].packet ELSE NoPacket
        BY <1>1, <1>2, <1>5, <2>7, <3>2, FollowsByte
      <4>2. wrote' = IF w[t].mark = "whole" THEN w[t].packet ELSE NoPacket
        BY <1>1, <3>2 DEF Wrote
      <4>3. Exact' /\ Ready(rx', settled')  BY <4>1, <4>2 DEF Exact, Ready
      <4>. QED  BY <1>1, <1>2, <2>1, <2>2, <2>5, <2>6, <3>2, <4>3, AloneStep
    <3>. QED  BY <3>1, <3>2
  <2>8. CASE OutOfStep(w[t], rx, settled)
    <3>1. settled < Recovery  BY <2>8 DEF OutOfStep
    <3>2. CASE ~IsLast(t)
      <4>1. settled' = settled  BY <1>1, <1>5, <3>2 DEF Settled
      <4>2. OutOfStep(v, rx', settled')
        BY <1>1, <1>2, <2>8, <3>2, <4>1, OutOfStepByte
      <4>3. Exact'  BY <1>2, <3>1, <4>1 DEF Exact
      <4>. QED  BY <1>1, <1>2, <1>5, <2>1, <2>2, <2>5, <2>6, <3>2, <4>2, <4>3, AloneStep
    <3>3. CASE IsLast(t)
      <4>1. Ready(rx', settled') /\ settled' # Recovery
        <5>1. CASE w[t].mark = "whole" /\ Quiet(t)
          <6>1. settled' = settled + 1  BY <1>1, <1>2, <1>5, <3>1, <3>3, <5>1 DEF Settled
          <6>2. settled + 1 < Recovery /\ Ready(process_byte(rx, NextByte(t)), settled + 1)
            BY <1>1, <1>2, <2>8, <3>3, <5>1, OutOfStepLast
          <6>. QED  BY <1>1, <1>2, <6>1, <6>2
        <5>2. CASE ~(w[t].mark = "whole" /\ Quiet(t))
          <6>1. settled' = 0  BY <1>1, <1>2, <1>5, <3>1, <3>3, <5>2 DEF Settled
          <6>2. Left(rx') \in Nat /\ Left(rx') <= MAX_PAYLOAD + 4 /\ MAX_PAYLOAD \in Nat
            BY <1>3, LeftBound, RecoveryIs
          <6>3. Left(rx') + 0 + 6 * settled' <= MAX_PAYLOAD + 4  BY <6>1, <6>2
          <6>. QED  BY <1>2, <6>1, <6>3 DEF Ready, Behind
        <5>. QED  BY <5>1, <5>2
      <4>2. Exact'  BY <4>1 DEF Exact
      <4>. QED  BY <1>1, <1>2, <2>1, <2>2, <2>5, <2>6, <3>3, <4>1, <4>2, AloneStep
    <3>. QED  BY <3>2, <3>3
  <2>. QED  BY <2>3, <2>7, <2>8
<1>. QED  BY <1>4, <1>5

\* A byte that the line changes.
LEMMA ByteChangedLine ==
    ASSUME TypeOK, LineInv, NEW t \in Threads, NEW b \in Noise, ByteChanged(t, b)
    PROVE  LineInv'
<1> DEFINE spoils == w[t].mark = "whole" /\ w[t].sent \notin {0, 1, 3, 4}
           mark == IF spoils THEN "spoiled" ELSE "damaged"
           v == Advanced(t, mark)
<1>1. /\ w[t].packet # NoPacket /\ ~Intrudes(t) /\ b # NextByte(t) /\ b \in Byte
      /\ rx' = process_byte(rx, b) /\ out' = Handled(rx, b)
      /\ w' = [w EXCEPT ![t] = v]
      /\ wrote' = NoPacket /\ settled' = Settled(t, mark) /\ damage' = damage + 1
  BY NoiseBytes DEF ByteChanged, Receive, Fault
<1>2. /\ w \in [Threads -> Writer] /\ WriterOK(w[t]) /\ ReaderOK(rx) /\ settled \in 0..Recovery
      /\ settled \in Nat /\ Recovery \in Nat /\ Recovery >= 2
  BY TypeParts, RecoveryIs
<1>3. ReaderOK(rx')  BY <1>1, <1>2, ParserTypes
<1>4. damage' # 0
  <2>1. damage \in 0..MaxDamage /\ MaxDamage \in Nat  BY NoiseBytes DEF TypeOK
  <2>. QED  BY <1>1, <2>1
<1>5. /\ ~IsLast(t) => v.sent > 0 /\ v.mark = mark
      /\ IsLast(t) => v = Idle /\ ~(v.sent > 0) /\ v.sum = 0 /\ v.mark = "whole"
  BY <1>1, <1>2, AdvancedIs
<1>. HIDE DEF v
<1>6. CASE ~spoils
  <2>1. mark = "damaged"  BY <1>6
  <2>2. settled' = 0  BY <1>1, <2>1 DEF Settled
  <2>3. \A u \in Threads \ {t} : InFrame(u) => w[u].mark = "damaged"
    BY <1>1 DEF LineInv, Intrudes
  <2>4. IF v.sent > 0 THEN v.mark = "damaged" ELSE v.sum = 0 /\ v.mark = "whole"
    BY <1>5, <2>1
  <2>. QED  BY <1>1, <1>3, <1>4, <2>2, <2>3, <2>4, DamagedOne, DamagedStep
<1>7. CASE spoils
  <2>0. mark = "spoiled" /\ w[t].mark = "whole" /\ w[t].sent \notin {0, 1, 3, 4}  BY <1>7
  <2>1. \A u \in Threads \ {t} : ~InFrame(u)
    <3>1. w[t].mark # "damaged"  BY <2>0
    <3>. QED  BY <1>1, <3>1, Alone
  <2>2. \A u \in Threads : ~InFrame(u) => w[u].sum = 0 /\ w[u].mark = "whole"  BY DEF LineInv
  <2>3. Follows(w[t], rx) \/ OutOfStep(w[t], rx, settled)
    <3>1. w[t].mark # "damaged"  BY <2>0
    <3>. QED  BY <1>1, <3>1, FollowsOrNot
  <2>4. CASE Follows(w[t], rx)
    <3>1. /\ out' = NoPacket
          /\ ~IsLast(t) => Follows(v, rx')
          /\ IsLast(t) => rx'.pstate = "WAIT_SYNC0"
      BY <1>1, <1>2, <2>0, <2>4, FollowsChanged DEF v
    <3>2. Exact'  BY <1>1, <3>1 DEF Exact
    <3>3. CASE ~IsLast(t)
      <4>1. v.sent > 0 /\ v.mark # "damaged" /\ Follows(v, rx')  BY <1>5, <2>0, <3>1, <3>3
      <4>. QED  BY <1>1, <1>2, <1>4, <2>1, <2>2, <3>2, <4>1, AloneStep
    <3>4. CASE IsLast(t)
      <4>1. Ready(rx', settled')  BY <3>1, <3>4 DEF Ready
      <4>. QED  BY <1>1, <1>2, <1>4, <1>5, <2>1, <2>2, <3>2, <3>4, <4>1, AloneStep
    <3>. QED  BY <3>3, <3>4
  <2>5. CASE OutOfStep(w[t], rx, settled)
    <3>1. settled < Recovery  BY <2>5 DEF OutOfStep
    <3>2. CASE ~IsLast(t)
      <4>1. settled' = settled  BY <1>1, <2>0, <3>2 DEF Settled
      <4>2. v.sent > 0 /\ v.mark = "spoiled"  BY <1>5, <2>0, <3>2
      <4>3. OutOfStep(v, rx', settled')  BY <3>1, <4>1, <4>2 DEF OutOfStep
      <4>4. Exact'  BY <1>2, <3>1, <4>1 DEF Exact
      <4>. QED  BY <1>1, <1>2, <1>4, <2>1, <2>2, <4>2, <4>3, <4>4, AloneStep
    <3>3. CASE IsLast(t)
      <4>1. settled' = 0  BY <1>1, <1>2, <2>0, <3>1, <3>3 DEF Settled
      <4>2. \A u \in Threads \ {t} : InFrame(u) => w[u].mark = "damaged"  BY <2>1
      <4>3. IF v.sent > 0 THEN v.mark = "damaged" ELSE v.sum = 0 /\ v.mark = "whole"
        BY <1>5, <3>3
      <4>. QED  BY <1>1, <1>3, <1>4, <4>1, <4>2, <4>3, DamagedOne, DamagedStep
    <3>. QED  BY <3>2, <3>3
  <2>. QED  BY <2>3, <2>4, <2>5
<1>. QED  BY <1>6, <1>7

\* The faults that damage what is on its way.
LEMMA FaultLine ==
    ASSUME TypeOK, TypeOK', LineInv,
           ParserRestarts \/ \E t \in Threads : PutByteInside(t) \/ ByteLost(t) \/ Abandon(t)
    PROVE  LineInv'
<1>1. /\ w \in [Threads -> Writer] /\ \A u \in Threads : WriterOK(w[u])
      /\ ReaderOK(rx') /\ damage \in Nat
  <2>1. ReaderOK(rx')  BY DEF TypeOK, ReaderOK, Reader
  <2>2. damage \in 0..MaxDamage  BY DEF TypeOK
  <2>. QED  BY <2>1, <2>2, TypeParts, NoiseBytes
<1>2. settled' = 0 /\ damage' # 0
  <2>1. settled' = 0 /\ damage' = damage + 1
    BY DEF ParserRestarts, PutByteInside, ByteLost, Abandon, Fault
  <2>. QED  BY <1>1, <2>1
<1>3. \A u \in Threads : ~(w[u].sent > 0) => w[u].sum = 0 /\ w[u].mark = "whole"
  BY DEF LineInv, InFrame
<1>4. ~(Idle.sent > 0) /\ Idle.sum = 0 /\ Idle.mark = "whole"  BY DEF Idle
<1>5. CASE ParserRestarts
  <2>1. w' = Marked(w)  BY <1>5 DEF ParserRestarts
  <2>. QED  BY <1>1, <1>2, <1>3, <2>1, DamagedAll, DamagedStep
<1>6. ASSUME NEW t \in Threads, PutByteInside(t)  PROVE LineInv'
  <2> DEFINE v == Advanced(t, "damaged")
             ws == [w EXCEPT ![t] = v]
  <2>1. w[t].packet # NoPacket /\ w' = Marked(ws)  BY <1>6 DEF PutByteInside
  <2>2. ~(v.sent > 0) => v.sum = 0 /\ v.mark = "whole"  BY <1>1, <1>4, <2>1, AdvancedIs
  <2>3. WriterOK(v)
    <3>1. "damaged" \in Marks  BY DEF Marks
    <3>. QED  BY <1>1, <2>1, <3>1, AdvanceTypes
  <2>4. ws[t] = v /\ \A u \in Threads \ {t} : ws[u] = w[u]  BY <1>1
  <2>. HIDE DEF v, ws
  <2>5. \A u \in Threads : /\ ~(ws[u].sent > 0) => ws[u].sum = 0 /\ ws[u].mark = "whole"
                           /\ ws[u] \in Writer
    BY <1>1, <1>3, <2>2, <2>3, <2>4 DEF WriterOK
  <2>. QED  BY <1>1, <1>2, <2>1, <2>5, DamagedAll, DamagedStep
<1>7. ASSUME NEW t \in Threads, ByteLost(t)  PROVE LineInv'
  <2> DEFINE v == Advanced(t, "damaged")
  <2>1. w[t].packet # NoPacket /\ ~Intrudes(t) /\ w' = [w EXCEPT ![t] = v]
    BY <1>7 DEF ByteLost
  <2>2. IF v.sent > 0 THEN v.mark = "damaged" ELSE v.sum = 0 /\ v.mark = "whole"
    BY <1>1, <1>4, <2>1, AdvancedIs
  <2>3. \A u \in Threads \ {t} : InFrame(u) => w[u].mark = "damaged"
    BY <2>1 DEF LineInv, Intrudes
  <2>. HIDE DEF v
  <2>. QED  BY <1>1, <1>2, <2>1, <2>2, <2>3, DamagedOne, DamagedStep
<1>8. ASSUME NEW t \in Threads, Abandon(t)  PROVE LineInv'
  <2>1. InFrame(t) /\ w' = [w EXCEPT ![t] = Idle]  BY <1>8 DEF Abandon
  <2>2. IF Idle.sent > 0 THEN Idle.mark = "damaged" ELSE Idle.sum = 0 /\ Idle.mark = "whole"
    BY <1>4
  <2>3. \A u \in Threads \ {t} : InFrame(u) => w[u].mark = "damaged"  BY <2>1 DEF LineInv
  <2>. QED  BY <1>1, <1>2, <2>1, <2>2, <2>3, DamagedOne, DamagedStep
<1>. QED  BY <1>5, <1>6, <1>7, <1>8

\* A thread that takes up a packet has put nothing of it.
LEMMA BeginLine ==
    ASSUME TypeOK, LineInv, NEW t \in Threads, NEW p \in Packets, Begin(t, p)
    PROVE  LineInv'
<1> DEFINE v == [Idle EXCEPT !.packet = p]
<1>1. /\ w[t].packet = NoPacket /\ w' = [w EXCEPT ![t] = v]
      /\ UNCHANGED <<rx, settled, damage>> /\ out' = NoPacket /\ wrote' = NoPacket
  BY DEF Begin
<1>2. v.sent = 0 /\ v.sum = 0 /\ v.mark = "whole"  BY DEF Idle
<1>. HIDE DEF v
<1>3. w'[t] = v /\ \A u \in Threads \ {t} : w'[u] = w[u]  BY <1>1 DEF TypeOK
<1>4. ~InFrame(t) /\ ~InFrame(t)'
  <2>1. w[t].sent = 0  BY <1>1 DEF TypeOK
  <2>. QED  BY <1>2, <1>3, <2>1 DEF InFrame
<1>5. \A u \in Threads \ {t} : InFrame(u)' <=> InFrame(u)  BY <1>3 DEF InFrame
<1>6. \A u \in Threads : ~InFrame(u)' => w'[u].sum = 0 /\ w'[u].mark = "whole"
  BY <1>2, <1>3, <1>4, <1>5 DEF LineInv
<1>7. \A u \in Threads : InFrame(u)' => InFrame(u) /\ w'[u] = w[u]
  BY <1>3, <1>4, <1>5
<1>8. \A u, s \in Threads : InFrame(u)' /\ InFrame(s)' /\ u # s => w'[u].mark = "damaged"
  BY <1>7 DEF LineInv
<1>9. \A u \in Threads : InFrame(u)' =>
          IF w'[u].mark = "damaged" THEN settled' = 0
          ELSE Follows(w'[u], rx') \/ OutOfStep(w'[u], rx', settled')
  BY <1>1, <1>7 DEF LineInv
<1>10. (\A u \in Threads : ~InFrame(u)') => Ready(rx', settled')
  BY <1>1, <1>4, <1>5 DEF LineInv
<1>11. damage' = 0 => settled' = Recovery /\ \A u \in Threads : w'[u].mark = "whole"
  BY <1>1, <1>2, <1>3 DEF LineInv
<1>12. Exact'  BY <1>1 DEF Exact
<1>. QED  BY <1>6, <1>8, <1>9, <1>10, <1>11, <1>12 DEF LineInv

\* Every step keeps the invariant.
LEMMA LineStep == TypeOK /\ TypeOK' /\ LineInv /\ [Next]_vars => LineInv'
<1>. SUFFICES ASSUME TypeOK, TypeOK', LineInv, [Next]_vars  PROVE LineInv'  OBVIOUS
<1>1. CASE UNCHANGED vars
  <2>1. UNCHANGED <<w, rx, out, damage, wrote, settled>>  BY <1>1 DEF vars
  <2>. QED  BY <2>1 DEF LineInv, InFrame, Exact
<1>2. ASSUME NEW t \in Threads, NEW p \in Packets, Begin(t, p)  PROVE LineInv'
  BY <1>2, BeginLine
<1>3. ASSUME NEW t \in Threads, PutByte(t)  PROVE LineInv'  BY <1>3, PutByteLine
<1>4. ASSUME NEW t \in Threads, NEW b \in Noise, ByteChanged(t, b)  PROVE LineInv'
  BY <1>4, ByteChangedLine
<1>5. CASE ParserRestarts \/ \E t \in Threads : PutByteInside(t) \/ ByteLost(t) \/ Abandon(t)
  BY <1>5, FaultLine
<1>. QED  BY <1>1, <1>2, <1>3, <1>4, <1>5 DEF Next

\* It holds in the beginning.
LEMMA LineInit == Init => LineInv
<1>. SUFFICES ASSUME Init  PROVE LineInv  OBVIOUS
<1>1. \A t \in Threads : w[t].sum = 0 /\ w[t].mark = "whole" /\ ~InFrame(t)
  <2>1. \A t \in Threads : w[t] = Idle  BY DEF Init
  <2>2. Idle.sum = 0 /\ Idle.mark = "whole" /\ ~(Idle.sent > 0)  BY DEF Idle
  <2>. QED  BY <2>1, <2>2 DEF InFrame
<1>2. rx.pstate = "WAIT_SYNC0" /\ settled = Recovery /\ out = wrote  BY DEF Init
<1>. QED  BY <1>1, <1>2 DEF LineInv, Ready, Exact

LEMMA LineAlways == Spec => []LineInv
<1>. QED  BY TypeInit, TypeStep, LineInit, LineStep, PTL DEF Spec

\* For any threads, packets, payload lengths, sync bytes and faults: without faults, or once
\* Recovery quiet packets have come since the last one, the handler is given exactly the
\* packets that were written, each with its last byte, and a packet one byte of which is
\* changed is dropped without harm to its neighbours (process_byte, _reader_loop).
THEOREM ExactLine == Spec => []Exact
<1>1. LineInv => Exact  BY DEF LineInv
<1>. QED  BY <1>1, LineAlways, PTL

\* The first part of it, for a line that never had a fault.
THEOREM CleanLine == Spec => []CleanLineExact
<1>1. LineInv => CleanLineExact  BY DEF LineInv, Exact, CleanLineExact
<1>. QED  BY <1>1, LineAlways, PTL

=============================================================================

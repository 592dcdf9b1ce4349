---------------------------- MODULE EspAudioProofs ----------------------------
(***************************************************************************)
(* Theorems about EspAudio, for every size of the ring and of the packets, *)
(* every limit, set of rates and number of faults: its types and flags,    *)
(* what it tells the server, that the speaker's ring is the queue of       *)
(* AudioQueue, and that with packets of whole samples the speaker never    *)
(* loses the beginning of a sample.                                        *)
(***************************************************************************)
EXTENDS EspAudio, SequenceTheorems, TLAPS

---------------------------------------------------------------------------
(* Arithmetic of the ring.                                                 *)

\* An index that has moved at most once round.
LEMMA Wrap ==
    ASSUME NEW R \in Nat \ {0}, NEW x \in 0..(2 * R - 1)
    PROVE  x % R = IF x < R THEN x ELSE x - R
<1>1. CASE x < R
    BY <1>1
<1>2. CASE x >= R
    <2>1. x \in Nat /\ R <= x /\ x < 2 * R
        BY <1>2
    <2>2. x % R = x - R
        BY <2>1
    <2> QED BY <1>2, <2>2
<1> QED BY <1>1, <1>2

LEMMA Moved ==
    ASSUME NEW R \in Nat \ {0}, NEW h \in 0..(R - 1), NEW a \in 0..(R - 1)
    PROVE  /\ (h + a) % R = IF h + a < R THEN h + a ELSE h + a - R
           /\ (h + a) % R \in 0..(R - 1)
<1> DEFINE x == h + a
<1>1. x \in 0..(2 * R - 1)
    OBVIOUS
<1> HIDE DEF x
<1>2. x % R = IF x < R THEN x ELSE x - R
    BY <1>1, Wrap
<1>3. x % R \in 0..(R - 1)
    BY <1>1, <1>2
<1> QED BY <1>2, <1>3 DEF x

LEMMA Remainder ==
    ASSUME NEW R \in Nat \ {0}, NEW x \in Int
    PROVE  x % R \in 0..(R - 1)
OBVIOUS

\* How far head is from tail, going up and round.
Distance(head, tail) == (head - tail + RingSize) % RingSize

LEMMA DistanceIs ==
    ASSUME NEW h \in 0..(RingSize - 1), NEW t \in 0..(RingSize - 1)
    PROVE  /\ Distance(h, t) = IF h < t THEN h - t + RingSize ELSE h - t
           /\ Distance(h, t) \in 0..(RingSize - 1)
<1> DEFINE x == h - t + RingSize
<1>1. RingSize \in Nat \ {0} /\ x \in 0..(2 * RingSize - 1)
    BY RingSizes
<1> HIDE DEF x
<1>2. x % RingSize = IF x < RingSize THEN x ELSE x - RingSize
    BY <1>1, Wrap
<1>3. x = h - t + RingSize
    BY DEF x
<1> QED BY <1>1, <1>2, <1>3 DEF Distance

\* The head moves on, by no more than there is room for.
LEMMA HeadMoves ==
    ASSUME NEW h \in 0..(RingSize - 1), NEW t \in 0..(RingSize - 1), NEW a \in Nat,
           Distance(h, t) + a < RingSize
    PROVE  /\ (h + a) % RingSize \in 0..(RingSize - 1)
           /\ Distance((h + a) % RingSize, t) = Distance(h, t) + a
<1> DEFINE hh == (h + a) % RingSize
<1>1. RingSize \in Nat \ {0} /\ Distance(h, t) \in 0..(RingSize - 1)
    BY RingSizes, DistanceIs
<1>2. a \in 0..(RingSize - 1)
    BY <1>1
<1>3. hh = (IF h + a < RingSize THEN h + a ELSE h + a - RingSize) /\ hh \in 0..(RingSize - 1)
    BY <1>1, <1>2, Moved
<1> HIDE DEF hh
<1>4. Distance(h, t) = IF h < t THEN h - t + RingSize ELSE h - t
    BY DistanceIs
<1>5. Distance(hh, t) = IF hh < t THEN hh - t + RingSize ELSE hh - t
    BY <1>3, DistanceIs
<1>6. Distance(hh, t) = Distance(h, t) + a
    BY <1>1, <1>3, <1>4, <1>5
<1> QED BY <1>3, <1>6 DEF hh

\* The tail moves on, by no more than there is.
LEMMA TailMoves ==
    ASSUME NEW h \in 0..(RingSize - 1), NEW t \in 0..(RingSize - 1), NEW b \in Nat,
           b <= Distance(h, t)
    PROVE  /\ (t + b) % RingSize \in 0..(RingSize - 1)
           /\ Distance(h, (t + b) % RingSize) = Distance(h, t) - b
<1> DEFINE tt == (t + b) % RingSize
<1>1. RingSize \in Nat \ {0} /\ Distance(h, t) \in 0..(RingSize - 1)
    BY RingSizes, DistanceIs
<1>2. b \in 0..(RingSize - 1)
    BY <1>1
<1>3. tt = (IF t + b < RingSize THEN t + b ELSE t + b - RingSize) /\ tt \in 0..(RingSize - 1)
    BY <1>1, <1>2, Moved
<1> HIDE DEF tt
<1>4. Distance(h, t) = IF h < t THEN h - t + RingSize ELSE h - t
    BY DistanceIs
<1>5. Distance(h, tt) = IF h < tt THEN h - tt + RingSize ELSE h - tt
    BY <1>3, DistanceIs
<1>6. Distance(h, tt) = Distance(h, t) - b
    BY <1>1, <1>3, <1>4, <1>5
<1> QED BY <1>3, <1>6 DEF tt

---------------------------------------------------------------------------
(* The ring between steps.                                                 *)

\* The type of the ring and its indices.
RingType == /\ ring \in [0..(RingSize - 1) -> 0..(Tags - 1)]
            /\ ring_head \in 0..(RingSize - 1) /\ ring_tail \in 0..(RingSize - 1)

LEMMA UsedIs ==
    ASSUME RingType
    PROVE  /\ ring_used = Distance(ring_head, ring_tail)
           /\ ring_used \in 0..(RingSize - 1)
BY DistanceIs DEF RingType, ring_used, Distance

\* What ring_write leaves in the ring.
LEMMA Written ==
    ASSUME RingType, next_tag \in 0..(Tags - 1), NEW len, ring_write(len)
    PROVE  ring' \in [0..(RingSize - 1) -> 0..(Tags - 1)]
<1> DEFINE place(i) == (i - ring_head + RingSize) % RingSize
           new(i) == IF place(i) < len THEN (next_tag + place(i)) % Tags ELSE ring[i]
<1>1. ring' = [i \in 0..(RingSize - 1) |-> new(i)]
    BY DEF ring_write
<1>2. ASSUME NEW i \in 0..(RingSize - 1) PROVE new(i) \in 0..(Tags - 1)
    <2>1. place(i) \in Int
        BY RingSizes DEF RingType
    <2> HIDE DEF place
    <2>2. (next_tag + place(i)) % Tags \in 0..(Tags - 1)
        BY <2>1, TagsEven
    <2>3. ring[i] \in 0..(Tags - 1)
        BY DEF RingType
    <2> QED BY <2>2, <2>3
<1> HIDE DEF new
<1> QED BY <1>1, <1>2

\* A chunk for which there is room.
LEMMA Stored ==
    ASSUME RingType, next_tag \in 0..(Tags - 1), NEW len \in PacketLens,
           call_mode \in BOOLEAN,
           ring_free >= len, ring_write(len), UNCHANGED ring_tail
    PROVE  RingType' /\ ring_used' = ring_used + len /\ ring_used + len < RingSize
<1>1. len \in 1..CallLimit /\ CallLimit < RingSize /\ RingSize \in Nat \ {0} /\ CallLimit \in Nat
    BY LensBounded, RingSizes
<1>2. ring_used = Distance(ring_head, ring_tail) /\ ring_used \in 0..(RingSize - 1)
    BY UsedIs
<1>3. ring_used + len < RingSize
    BY <1>1, <1>2 DEF ring_free
<1>4. ring_head' = (ring_head + len) % RingSize /\ ring_tail' = ring_tail
    BY DEF ring_write
<1>5. ring_head' \in 0..(RingSize - 1) /\ Distance(ring_head', ring_tail) = ring_used + len
    BY <1>1, <1>2, <1>3, <1>4, HeadMoves DEF RingType
<1>6. RingType'
    BY <1>4, <1>5, Written DEF RingType
<1>7. ring_used' = Distance(ring_head', ring_tail')
    BY DEF ring_used, Distance
<1> QED BY <1>3, <1>4, <1>5, <1>6, <1>7

\* A chunk of a call for which the oldest bytes make room.
LEMMA Discarded ==
    ASSUME RingType, next_tag \in 0..(Tags - 1), NEW len \in PacketLens,
           call_mode, ring_used <= CallLimit, ring_free < len,
           ring_tail' = (ring_tail + (len - ring_free)) % RingSize, ring_write(len)
    PROVE  /\ RingType' /\ ring_used' = CallLimit
           /\ len - ring_free \in Nat /\ len - ring_free <= ring_used
           /\ ring_used + len - (len - ring_free) = CallLimit
<1> DEFINE b == len - ring_free
<1>1. len \in 1..CallLimit /\ CallLimit < RingSize /\ RingSize \in Nat \ {0} /\ CallLimit \in Nat
    BY LensBounded, RingSizes
<1>2. ring_used = Distance(ring_head, ring_tail) /\ ring_used \in 0..(RingSize - 1)
    BY UsedIs
<1>3. ring_free = CallLimit - ring_used
    BY <1>1, <1>2 DEF ring_free
<1>4. b \in Nat /\ b <= ring_used /\ ring_used + len - b = CallLimit
    BY <1>1, <1>2, <1>3
<1>5. ring_head' = (ring_head + len) % RingSize /\ ring_tail' = (ring_tail + b) % RingSize
    BY DEF ring_write
<1> HIDE DEF b
<1>6. ring_tail' \in 0..(RingSize - 1) /\ Distance(ring_head, ring_tail') = ring_used - b
    BY <1>2, <1>4, <1>5, TailMoves DEF RingType
<1>7. Distance(ring_head, ring_tail') + len < RingSize /\ len \in Nat
    BY <1>1, <1>2, <1>4, <1>6
<1>8. /\ ring_head' \in 0..(RingSize - 1)
      /\ Distance(ring_head', ring_tail') = Distance(ring_head, ring_tail') + len
    BY <1>5, <1>6, <1>7, HeadMoves DEF RingType
<1>9. RingType'
    BY <1>6, <1>8, Written DEF RingType
<1>10. ring_used' = Distance(ring_head', ring_tail')
    BY DEF ring_used, Distance
<1>11. ring_used' = CallLimit
    BY <1>1, <1>2, <1>4, <1>6, <1>8, <1>10
<1> QED BY <1>4, <1>9, <1>11 DEF b

\* The speaker takes n bytes.
LEMMA Taken ==
    ASSUME RingType, NEW n \in Nat, n <= ring_used,
           ring_tail' = (ring_tail + n) % RingSize, UNCHANGED <<ring, ring_head>>
    PROVE  RingType' /\ ring_used' = ring_used - n
<1>1. ring_used = Distance(ring_head, ring_tail) /\ ring_used \in 0..(RingSize - 1)
    BY UsedIs
<1>2. ring_tail' \in 0..(RingSize - 1) /\ Distance(ring_head, ring_tail') = ring_used - n
    BY <1>1, TailMoves DEF RingType
<1>3. ring_used' = Distance(ring_head', ring_tail')
    BY DEF ring_used, Distance
<1> QED BY <1>2, <1>3 DEF RingType

---------------------------------------------------------------------------
(* Types.                                                                  *)

\* A packet to the LuckFox.
UpPacket == [kind : Kinds, rate : Rates \cup {0}]

UplinkType == uplink \in Seq(UpPacket) /\ Len(uplink) <= MaxUp

\* One or two packets more on the wire.
LEMMA OneSent ==
    ASSUME UplinkType, NEW p \in UpPacket, SendPackets(<<p>>)
    PROVE  UplinkType'
BY BoundsNat DEF UplinkType, SendPackets

LEMMA TwoSent ==
    ASSUME UplinkType, NEW p \in UpPacket, NEW q \in UpPacket,
           SendPackets(<<p, q>>)
    PROVE  UplinkType'
BY BoundsNat DEF UplinkType, SendPackets

LEMMA PacketTypes ==
    /\ \A r \in Rates \cup {0} : /\ Packet("MIC_START", r) \in UpPacket
                                 /\ Packet("MIC_DATA", r) \in UpPacket
    /\ Packet("MIC_STOP", 0) \in UpPacket
    /\ Packet("ACK", 0) \in UpPacket
    /\ Packet("NACK", 0) \in UpPacket
    /\ Packet("STATUS", 0) \in UpPacket
BY RatesKnown DEF Packet, Kinds, UpPacket

\* What the speaker is given.
LEMMA SpokenType ==
    ASSUME RingType, NEW m \in 0..ring_used
    PROVE  /\ Contents \in Seq(0..(Tags - 1)) /\ Len(Contents) = ring_used
           /\ SubSeq(Contents, 1, m) \in Seq(0..(Tags - 1))
<1>1. ring_used \in 0..(RingSize - 1) /\ RingSize \in Nat \ {0}
    BY UsedIs, RingSizes
<1>2. ASSUME NEW i \in 1..ring_used PROVE ring[(ring_tail + i - 1) % RingSize] \in 0..(Tags - 1)
    <2>1. ring_tail + i - 1 \in Int
        BY <1>1 DEF RingType
    <2>2. (ring_tail + i - 1) % RingSize \in 0..(RingSize - 1)
        BY <1>1, <2>1
    <2> QED BY <2>2 DEF RingType
<1>3. Contents \in Seq(0..(Tags - 1)) /\ Len(Contents) = ring_used
    BY <1>1, <1>2 DEF Contents
<1> HIDE DEF Contents
<1>4. \A i \in 1..m : i \in 1..Len(Contents)
    BY <1>1, <1>3
<1>5. \A i \in 1..m : Contents[i] \in 0..(Tags - 1)
    BY <1>3, <1>4, ElementOfSeq
<1>6. SubSeq(Contents, 1, m) \in Seq(0..(Tags - 1))
    BY <1>1, <1>5, SubSeqProperties
<1> QED BY <1>3, <1>6

\* How much the speaker takes in a round.
LEMMA DrainTakes ==
    ASSUME RingType
    PROVE  LET n == IF ring_used < DrainMax THEN ring_used ELSE DrainMax IN
              n \in 0..ring_used /\ n - (n % 2) \in 0..ring_used
<1>1. ring_used \in Nat /\ DrainMax \in Nat
    BY UsedIs, RingSizes
<1> QED BY <1>1

\* TypeOK by its parts.
LEMMA TypeParts ==
    TypeOK <=> /\ RingType /\ UplinkType
               /\ call_mode \in BOOLEAN /\ streaming \in BOOLEAN /\ mic_active \in BOOLEAN
               /\ i2s_running \in BOOLEAN /\ i2s_cur_rate \in Rates \cup {0}
               /\ i2s_installed \in BOOLEAN
               /\ oled_state \in {"IDLE", "PLAYING", "RECORDING", "PLAY_REC", "CALL"}
               /\ phase \in {"parse", "drain", "capture", "show"}
               /\ announced \in Rates \cup {0} /\ missed \in BOOLEAN
               /\ next_tag \in 0..(Tags - 1)
               /\ spoken \in Seq(0..(Tags - 1))
               /\ faults \in 0..MaxFaults
BY DEF TypeOK, RingType, UplinkType, UpPacket

\* The inductive invariant: types, the flags and the budget of a call.
IInv == TypeOK /\ FlagsAgree /\ CallBudget

LEMMA InvInit == Init => IInv
<1> SUFFICES ASSUME Init PROVE IInv
    OBVIOUS
<1>1. RingType
    BY RingSizes, TagsEven DEF Init, RingType
<1>2. UplinkType
    BY BoundsNat DEF Init, UplinkType
<1>3. 0 \in 0..(Tags - 1) /\ 0 \in 0..MaxFaults /\ DefaultRate \in Rates \cup {0}
    BY RatesKnown, TagsEven, BoundsNat
<1>4. spoken \in Seq(0..(Tags - 1))
    BY DEF Init
<1>5. TypeOK
    BY <1>1, <1>2, <1>3, <1>4 DEF TypeOK, RingType, UplinkType, UpPacket, Init
<1>6. FlagsAgree /\ CallBudget
    BY DEF Init, FlagsAgree, CallBudget
<1> QED BY <1>5, <1>6 DEF IInv

\* The count of faults stays in its bound.
LEMMA FaultStep ==
    ASSUME faults \in 0..MaxFaults, Fault PROVE faults' \in 0..MaxFaults
BY BoundsNat DEF Fault

\* The driver keeps its type, whether it can be installed or not.
LEMMA DriverStep ==
    ASSUME i2s_running \in BOOLEAN, i2s_cur_rate \in Rates \cup {0}, i2s_installed \in BOOLEAN,
           faults \in 0..MaxFaults, NEW rate \in Rates, setup_i2s(rate)
    PROVE  /\ i2s_running' \in BOOLEAN /\ i2s_cur_rate' \in Rates \cup {0}
           /\ i2s_installed' \in BOOLEAN /\ faults' \in 0..MaxFaults
<1>1. CASE UNCHANGED <<driver, faults>>
    BY <1>1 DEF driver
<1>2. CASE i2s_running' = TRUE /\ i2s_cur_rate' = rate /\ i2s_installed' = TRUE /\ UNCHANGED faults
    BY <1>2
<1>3. CASE i2s_running' = FALSE /\ i2s_installed' \in BOOLEAN /\ UNCHANGED i2s_cur_rate /\ Fault
    <2>1. faults' \in 0..MaxFaults
        BY <1>3, FaultStep
    <2> QED BY <1>3, <2>1
<1> QED BY <1>1, <1>2, <1>3 DEF setup_i2s

\* A step that leaves the ring and the mode alone keeps what is said of them.
LEMMA RingKept ==
    ASSUME RingType, CallBudget, UNCHANGED <<ring, ring_head, ring_tail, call_mode>>
    PROVE  RingType' /\ CallBudget'
BY DEF RingType, CallBudget, ring_used

\* The ring of a session that begins.
LEMMA RingEmptied ==
    ASSUME ring' \in [0..(RingSize - 1) -> 0..(Tags - 1)], ring_head' = 0, ring_tail' = 0
    PROVE  RingType' /\ ring_used' = 0
<1>1. RingSize \in Nat \ {0}
    BY RingSizes
<1>2. RingType'
    BY <1>1 DEF RingType
<1>3. Distance(0, 0) = 0
    BY <1>1, DistanceIs
<1>4. ring_used' = Distance(ring_head', ring_tail')
    BY DEF ring_used, Distance
<1> QED BY <1>2, <1>3, <1>4

LEMMA StartInv ==
    ASSUME IInv, NEW rate \in Rates, NEW is_call \in BOOLEAN, StartPacket(rate, is_call)
    PROVE  IInv'
<1> USE DEF StartPacket, start_session, heard
<1>1. RingType /\ UplinkType
    BY TypeParts DEF IInv
<1>2. RingType' /\ ring_used' = 0
    BY <1>1, RingEmptied DEF RingType
<1>3. UplinkType'
    BY <1>1, TwoSent, PacketTypes
<1>4. /\ i2s_running' \in BOOLEAN /\ i2s_cur_rate' \in Rates \cup {0}
      /\ i2s_installed' \in BOOLEAN /\ faults' \in 0..MaxFaults
    BY DriverStep, TypeParts DEF IInv
<1>5. TypeOK'
    BY <1>2, <1>3, <1>4, TagsEven DEF TypeOK, RingType, UplinkType, UpPacket, IInv
<1>6. FlagsAgree'
    BY DEF IInv, FlagsAgree
<1>7. CallBudget'
    BY <1>2, RingSizes DEF CallBudget
<1> QED BY <1>5, <1>6, <1>7 DEF IInv

LEMMA StopInv == ASSUME IInv, StopPacket PROVE IInv'
<1> USE DEF StopPacket, buffer, driver, heard
<1>1. RingType /\ UplinkType
    BY TypeParts DEF IInv
<1>2. RingType'
    BY <1>1 DEF RingType
<1>3. UplinkType'
    BY <1>1, TwoSent, PacketTypes
<1>4. TypeOK'
    BY <1>2, <1>3 DEF TypeOK, RingType, UplinkType, UpPacket, IInv
<1>5. FlagsAgree' /\ CallBudget'
    BY DEF IInv, FlagsAgree, CallBudget
<1> QED BY <1>4, <1>5 DEF IInv

LEMMA SentType ==
    ASSUME next_tag \in 0..(Tags - 1), NEW len \in PacketLens, Sent(len)
    PROVE  next_tag' \in 0..(Tags - 1)
<1>1. next_tag + len \in Int
    BY LensBounded, RingSizes, TagsEven
<1>2. (next_tag + len) % Tags \in 0..(Tags - 1)
    BY <1>1, TagsEven
<1> QED BY <1>2 DEF Sent

LEMMA DataInv == ASSUME IInv, NEW len \in PacketLens, AudioData(len) PROVE IInv'
<1>1. /\ RingType /\ UplinkType /\ CallBudget /\ FlagsAgree /\ next_tag \in 0..(Tags - 1)
      /\ call_mode \in BOOLEAN /\ faults \in 0..MaxFaults /\ TypeOK
    BY  DEF TypeOK, RingType, UplinkType, UpPacket, IInv
<1>2. CASE DataStored(len)
    <2> USE <1>2 DEF DataStored, session, driver, heard
    <2>1. next_tag' \in 0..(Tags - 1)
        BY <1>1, SentType
    <2>2. RingType' /\ ring_used' = ring_used + len
        BY <1>1, Stored
    <2>3. TypeOK'
        BY <1>1, <2>1, <2>2 DEF TypeOK, RingType, UplinkType, UpPacket
    <2>4. FlagsAgree'
        BY <1>1 DEF FlagsAgree
    <2>5. ASSUME call_mode PROVE ring_used + len <= CallLimit
        <3>1. ring_used \in Nat /\ len \in 1..CallLimit /\ CallLimit \in Nat
            BY <1>1, UsedIs, LensBounded, RingSizes
        <3> QED BY <1>1, <2>5, <3>1 DEF ring_free, CallBudget
    <2>6. CallBudget'
        BY <2>2, <2>5 DEF CallBudget
    <2> QED BY <2>3, <2>4, <2>6 DEF IInv
<1>3. CASE DataDiscardsOldest(len)
    <2> USE <1>3 DEF DataDiscardsOldest, session, driver, heard
    <2>1. next_tag' \in 0..(Tags - 1)
        BY <1>1, SentType
    <2>2. RingType' /\ ring_used' = CallLimit
        BY <1>1, Discarded DEF CallBudget
    <2>3. TypeOK'
        BY <1>1, <2>1, <2>2 DEF TypeOK, RingType, UplinkType, UpPacket
    <2>4. FlagsAgree'
        BY <1>1 DEF FlagsAgree
    <2>5. CallBudget'
        BY <2>2, RingSizes DEF CallBudget
    <2> QED BY <2>3, <2>4, <2>5 DEF IInv
<1>4. CASE DataRefused(len)
    <2> USE <1>4 DEF DataRefused, session, driver, buffer, heard
    <2>1. next_tag' \in 0..(Tags - 1)
        BY <1>1, SentType
    <2>2. RingType' /\ CallBudget'
        BY <1>1, RingKept
    <2>3. UplinkType'
        BY <1>1, OneSent, PacketTypes
    <2>4. TypeOK'
        BY <1>1, <2>1, <2>2, <2>3 DEF TypeOK, RingType, UplinkType, UpPacket
    <2>5. FlagsAgree'
        BY <1>1 DEF FlagsAgree
    <2> QED BY <2>2, <2>4, <2>5 DEF IInv
<1>5. CASE DataDropped(len)
    <2> USE <1>5 DEF DataDropped, session, driver, buffer, heard
    <2>1. next_tag' \in 0..(Tags - 1)
        BY <1>1, SentType
    <2>2. RingType' /\ CallBudget'
        BY <1>1, RingKept
    <2>3. faults' \in 0..MaxFaults
        BY <1>1, FaultStep
    <2>4. TypeOK'
        BY <1>1, <2>1, <2>2, <2>3 DEF TypeOK, RingType, UplinkType, UpPacket
    <2>5. FlagsAgree'
        BY <1>1 DEF FlagsAgree
    <2> QED BY <2>2, <2>4, <2>5 DEF IInv
<1> QED BY <1>2, <1>3, <1>4, <1>5 DEF AudioData

LEMMA DrainInv == ASSUME IInv, Drain PROVE IInv'
<1> DEFINE n == IF ring_used < DrainMax THEN ring_used ELSE DrainMax
<1>1. RingType /\ TypeOK /\ CallBudget /\ FlagsAgree
    BY TypeParts DEF IInv
<1>2. n \in 0..ring_used /\ n - (n % 2) \in 0..ring_used /\ ring_used \in Nat
    BY <1>1, DrainTakes, UsedIs
<1>3. CASE i2s_running /\ (streaming \/ ring_used > 0)
    <2>1. ring_tail' = (ring_tail + n) % RingSize /\ spoken' = SubSeq(Contents, 1, n - (n % 2))
          /\ UNCHANGED <<ring, ring_head>>
        BY <1>3 DEF Drain
    <2> HIDE DEF n
    <2>2. RingType' /\ ring_used' = ring_used - n
        BY <1>1, <1>2, <2>1, Taken
    <2>3. spoken' \in Seq(0..(Tags - 1))
        BY <1>1, <1>2, <2>1, SpokenType
    <2>4. TypeOK'
        BY <1>1, <2>2, <2>3 DEF TypeOK, RingType, UplinkType, UpPacket, Drain, session, driver, heard
    <2>5. CallBudget'
        BY <1>1, <1>2, <2>2, RingSizes DEF CallBudget, Drain, session
    <2>6. FlagsAgree'
        BY <1>1 DEF FlagsAgree, Drain, session
    <2> QED BY <2>4, <2>5, <2>6 DEF IInv
<1>4. CASE ~(i2s_running /\ (streaming \/ ring_used > 0))
    <2>1. UNCHANGED <<ring, ring_head, ring_tail, call_mode>> /\ spoken' = <<>>
        BY <1>4 DEF Drain, session
    <2>2. RingType' /\ CallBudget'
        BY <1>1, <2>1, RingKept
    <2>3. TypeOK'
        BY <1>1, <2>1, <2>2 DEF TypeOK, RingType, UplinkType, UpPacket, Drain, session, driver, heard
    <2>4. FlagsAgree'
        BY <1>1 DEF FlagsAgree, Drain, session
    <2> QED BY <2>2, <2>3, <2>4 DEF IInv
<1> QED BY <1>3, <1>4

LEMMA CaptureInv == ASSUME IInv, Capture PROVE IInv'
<1> USE DEF Capture, session, driver, buffer, heard
<1>1. RingType /\ UplinkType /\ TypeOK /\ CallBudget /\ FlagsAgree /\ i2s_cur_rate \in Rates \cup {0}
    BY TypeParts DEF IInv
<1>2. RingType' /\ CallBudget'
    BY <1>1, RingKept
<1>3. UplinkType'
    BY <1>1, OneSent, PacketTypes DEF UplinkType
<1>4. TypeOK'
    BY <1>1, <1>2, <1>3 DEF TypeOK, RingType, UplinkType, UpPacket
<1>5. FlagsAgree'
    BY <1>1 DEF FlagsAgree
<1> QED BY <1>2, <1>4, <1>5 DEF IInv

LEMMA ShowInv == ASSUME IInv, Show PROVE IInv'
<1> USE DEF Show, session, driver, buffer, heard
<1>1. RingType /\ UplinkType /\ TypeOK /\ CallBudget /\ FlagsAgree
      /\ call_mode \in BOOLEAN /\ streaming \in BOOLEAN /\ mic_active \in BOOLEAN
    BY TypeParts DEF IInv
<1>2. RingType' /\ CallBudget'
    BY <1>1, RingKept
<1>3. UplinkType'
    BY <1>1, OneSent, PacketTypes DEF UplinkType
<1>4. Desired \in {"CALL", "PLAY_REC", "IDLE"}
    <2>1. CASE call_mode
        BY <2>1 DEF Desired
    <2>2. CASE ~call_mode /\ streaming
        BY <1>1, <2>2 DEF FlagsAgree, Desired
    <2>3. CASE ~call_mode /\ ~streaming
        BY <1>1, <2>3 DEF FlagsAgree, Desired
    <2> QED BY <1>1, <2>1, <2>2, <2>3
<1>5. TypeOK'
    BY <1>1, <1>2, <1>3, <1>4 DEF TypeOK, RingType, UplinkType, UpPacket
<1>6. FlagsAgree'
    BY <1>1, <1>4 DEF FlagsAgree
<1> QED BY <1>2, <1>5, <1>6 DEF IInv

LEMMA ReadInv == ASSUME IInv, LuckfoxReads PROVE IInv'
<1> USE DEF LuckfoxReads, session, driver, buffer, heard
<1>1. RingType /\ UplinkType /\ TypeOK /\ CallBudget /\ FlagsAgree
    BY TypeParts DEF IInv
<1>2. RingType' /\ CallBudget'
    BY <1>1, RingKept
<1>3. UplinkType'
    BY <1>1, BoundsNat DEF UplinkType
<1>4. announced' \in Rates \cup {0} /\ missed' \in BOOLEAN
    <2>1. /\ Head(uplink).rate \in Rates \cup {0} /\ announced \in Rates \cup {0}
          /\ missed \in BOOLEAN
        <3>1. Head(uplink) \in UpPacket
            BY <1>1, HeadTailProperties DEF UplinkType
        <3> QED BY <1>1, <3>1 DEF TypeOK, UpPacket
    <2>2. CASE Tells(Head(uplink))
        BY <2>1, <2>2
    <2>3. CASE ~Tells(Head(uplink))
        BY <2>1, <2>3
    <2> QED BY <2>2, <2>3
<1>5. TypeOK'
    BY <1>1, <1>2, <1>3, <1>4 DEF TypeOK, RingType, UplinkType, UpPacket
<1>6. FlagsAgree'
    BY <1>1 DEF FlagsAgree
<1> QED BY <1>2, <1>5, <1>6 DEF IInv

LEMMA DropInv == ASSUME IInv, LuckfoxDrops PROVE IInv'
<1> USE DEF LuckfoxDrops, session, driver, buffer
<1>1. RingType /\ UplinkType /\ TypeOK /\ CallBudget /\ FlagsAgree /\ missed \in BOOLEAN
    BY TypeParts DEF IInv
<1>2. RingType' /\ CallBudget'
    BY <1>1, RingKept
<1>3. UplinkType'
    BY <1>1, BoundsNat DEF UplinkType
<1>4. missed' \in BOOLEAN
    BY <1>1 DEF Tells
<1>5. faults' \in 0..MaxFaults
    BY <1>1, FaultStep DEF TypeOK
<1>6. TypeOK'
    BY <1>1, <1>2, <1>3, <1>4, <1>5 DEF TypeOK, RingType, UplinkType, UpPacket
<1>7. FlagsAgree'
    BY <1>1 DEF FlagsAgree
<1> QED BY <1>2, <1>6, <1>7 DEF IInv

LEMMA RebootInv == ASSUME IInv, NEW ok \in BOOLEAN, Reboot(ok) PROVE IInv'
<1> USE DEF Reboot
<1>1. TypeOK
    BY DEF IInv
<1>2. ring' \in [0..(RingSize - 1) -> 0..(Tags - 1)]
    BY TagsEven
<1>3. RingType' /\ ring_used' = 0
    BY <1>2, RingEmptied
<1>4. faults' \in 0..MaxFaults /\ i2s_cur_rate' \in Rates \cup {0} /\ i2s_running' \in BOOLEAN
      /\ i2s_installed' \in BOOLEAN
    BY <1>1, FaultStep, RatesKnown DEF TypeOK
<1>5. TypeOK'
    <2>1. spoken' \in Seq(0..(Tags - 1)) /\ UplinkType'
        BY <1>1 DEF TypeOK, UplinkType, UpPacket
    <2>2. /\ call_mode' \in BOOLEAN /\ streaming' \in BOOLEAN /\ mic_active' \in BOOLEAN
          /\ phase' \in {"parse", "drain", "capture", "show"}
          /\ oled_state' \in {"IDLE", "PLAYING", "RECORDING", "PLAY_REC", "CALL"}
          /\ announced' \in Rates \cup {0} /\ missed' \in BOOLEAN /\ next_tag' \in 0..(Tags - 1)
        BY <1>1 DEF TypeOK, heard
    <2> QED BY <1>3, <1>4, <2>1, <2>2 DEF TypeOK, RingType, UplinkType, UpPacket
<1>6. FlagsAgree' /\ CallBudget'
    BY DEF FlagsAgree, CallBudget
<1> QED BY <1>5, <1>6 DEF IInv

\* The steps that touch neither the session, the ring nor the wire.
LEMMA OtherInv == ASSUME IInv, Parsed \/ NewStream \/ UNCHANGED vars PROVE IInv'
<1> USE DEF Parsed, NewStream, vars, session, driver, buffer, heard
<1>1. RingType /\ TypeOK /\ CallBudget /\ FlagsAgree
    BY TypeParts DEF IInv
<1>2. RingType' /\ CallBudget'
    BY <1>1, RingKept
<1>3. TypeOK'
    BY <1>1, <1>2, TagsEven DEF TypeOK, RingType, UplinkType, UpPacket
<1>4. FlagsAgree'
    BY <1>1 DEF FlagsAgree
<1> QED BY <1>2, <1>3, <1>4 DEF IInv

LEMMA InvStep == IInv /\ [Next]_vars => IInv'
BY StartInv, StopInv, DataInv, DrainInv, CaptureInv, ShowInv, ReadInv, DropInv, RebootInv, OtherInv
   DEF Next

LEMMA Invariant == Spec => []IInv
<1>1. Init => IInv
    BY InvInit
<1>2. IInv /\ [Next]_vars => IInv'
    BY InvStep
<1> QED BY <1>1, <1>2, PTL DEF Spec

\* Every variable of the firmware keeps its type: the indices of the ring stay in it, and the
\* wire in its bound, for every size of ring, packets and rounds.
THEOREM TypeCorrect == Spec => []TypeOK
<1>1. IInv => TypeOK
    BY DEF IInv
<1> QED BY <1>1, Invariant, PTL

\* The three session flags of start_session, stop_session and setup() describe one of three
\* sessions, and only three of the displays are ever shown.
THEOREM OneSession == Spec => []FlagsAgree
<1>1. IInv => FlagsAgree
    BY DEF IInv
<1> QED BY <1>1, Invariant, PTL

\* A call never has more than CALL_RING_LIMIT bytes waiting for the speaker, whatever the
\* lengths of its packets and of what was in the ring before.
THEOREM CallsInBudget == Spec => []CallBudget
<1>1. IInv => CallBudget
    BY DEF IInv
<1> QED BY <1>1, Invariant, PTL

---------------------------------------------------------------------------
(* The rate the LuckFox is told.                                           *)

\* What the last announcement before the wire may have been.
Told == {announced} \cup IF missed THEN Rates \cup {0} ELSE {}

\* r is what is told last before packet i of ps, or one of told when they tell nothing.
LastTold(ps, told, i, r) ==
    \/ r \in told /\ \A k \in 1..(i - 1) : ~Tells(ps[k])
    \/ \E k \in 1..(i - 1) : /\ Tells(ps[k]) /\ ps[k].rate = r
                             /\ \A m \in (k + 1)..(i - 1) : ~Tells(ps[m])

\* What is on the wire was told, and what the microphone would send next as well.
RateInv ==
    /\ \A i \in 1..Len(uplink) :
          /\ uplink[i].kind = "MIC_DATA" => LastTold(uplink, Told, i, uplink[i].rate)
          /\ uplink[i].kind = "MIC_STOP" => uplink[i].rate = 0
    /\ mic_active /\ i2s_running => LastTold(uplink, Told, Len(uplink) + 1, i2s_cur_rate)

\* The last packet that tells is the one that ToldBefore chooses.
LEMMA ToldIsLast ==
    ASSUME NEW i \in Nat, NEW r, LastTold(uplink, Told, i, r)
    PROVE  ToldBefore(i) = r \/ (missed /\ TellsBefore(i) = {})
<1>1. ToldBefore(i) = IF TellsBefore(i) = {} THEN announced
                      ELSE uplink[CHOOSE k \in TellsBefore(i) :
                                      \A m \in TellsBefore(i) : m <= k].rate
    BY DEF ToldBefore
<1>2. CASE r \in Told /\ \A k \in 1..(i - 1) : ~Tells(uplink[k])
    <2>1. TellsBefore(i) = {}
        BY <1>2 DEF TellsBefore
    <2>2. r = announced \/ missed
        BY <1>2 DEF Told
    <2> QED BY <1>1, <2>1, <2>2
<1>3. CASE \E k \in 1..(i - 1) : /\ Tells(uplink[k]) /\ uplink[k].rate = r
                                 /\ \A m \in (k + 1)..(i - 1) : ~Tells(uplink[m])
    <2>1. PICK k \in 1..(i - 1) : /\ Tells(uplink[k]) /\ uplink[k].rate = r
                                  /\ \A m \in (k + 1)..(i - 1) : ~Tells(uplink[m])
        BY <1>3
    <2>2. k \in TellsBefore(i) /\ \A m \in TellsBefore(i) : m <= k
        BY <2>1 DEF TellsBefore
    <2>3. \A j \in TellsBefore(i) : (\A m \in TellsBefore(i) : m <= j) => j = k
        BY <2>2 DEF TellsBefore
    <2>4. (CHOOSE j \in TellsBefore(i) : \A m \in TellsBefore(i) : m <= j) = k
        BY <2>2, <2>3
    <2> QED BY <1>1, <2>1, <2>2, <2>4
<1> QED BY <1>2, <1>3 DEF LastTold

\* What was told before a packet does not change by what follows it.
LEMMA ToldKept ==
    ASSUME NEW ps, NEW qs, NEW told, NEW i \in Nat, NEW r, LastTold(ps, told, i, r),
           \A k \in 1..(i - 1) : qs[k] = ps[k]
    PROVE  LastTold(qs, told, i, r)
BY DEF LastTold

\* Packet i tells nothing, or the news.
LEMMA ToldOn ==
    ASSUME NEW ps, NEW told, NEW i \in Nat \ {0}, NEW r
    PROVE  /\ LastTold(ps, told, i, r) /\ ~Tells(ps[i]) => LastTold(ps, told, i + 1, r)
           /\ Tells(ps[i]) /\ ps[i].rate = r => LastTold(ps, told, i + 1, r)
<1>1. ASSUME r \in told, \A k \in 1..(i - 1) : ~Tells(ps[k]), ~Tells(ps[i])
      PROVE  LastTold(ps, told, i + 1, r)
    <2>1. \A k \in 1..((i + 1) - 1) : ~Tells(ps[k])
        BY <1>1
    <2> QED BY <1>1, <2>1 DEF LastTold
<1>2. ASSUME NEW k \in 1..(i - 1), Tells(ps[k]), ps[k].rate = r,
             \A m \in (k + 1)..(i - 1) : ~Tells(ps[m]), ~Tells(ps[i])
      PROVE  LastTold(ps, told, i + 1, r)
    <2>1. k \in 1..((i + 1) - 1) /\ \A m \in (k + 1)..((i + 1) - 1) : ~Tells(ps[m])
        BY <1>2
    <2> QED BY <1>2, <2>1 DEF LastTold
<1>3. ASSUME Tells(ps[i]), ps[i].rate = r
      PROVE  LastTold(ps, told, i + 1, r)
    <2>1. i \in 1..((i + 1) - 1) /\ \A m \in (i + 1)..((i + 1) - 1) : ~Tells(ps[m])
        OBVIOUS
    <2> QED BY <1>3, <2>1 DEF LastTold
<1> QED BY <1>1, <1>2, <1>3 DEF LastTold

\* What is told on the wire stays so when packets are appended to it.
LEMMA OldToldKept ==
    ASSUME UplinkType, RateInv, NEW ps \in Seq(UpPacket), uplink' = uplink \o ps,
           Told' = Told
    PROVE  /\ Len(uplink) \in Nat /\ Len(uplink') = Len(uplink) + Len(ps)
           /\ \A i \in 1..Len(ps) : uplink'[Len(uplink) + i] = ps[i]
           /\ \A i \in 1..Len(uplink) :
                 /\ uplink'[i].kind = "MIC_DATA" => LastTold(uplink', Told', i, uplink'[i].rate)
                 /\ uplink'[i].kind = "MIC_STOP" => uplink'[i].rate = 0
           /\ \A r : LastTold(uplink, Told, Len(uplink) + 1, r)
                        => LastTold(uplink', Told', Len(uplink) + 1, r)
<1>1. /\ Len(uplink) \in Nat /\ Len(uplink') = Len(uplink) + Len(ps)
      /\ \A i \in 1..Len(uplink) : uplink'[i] = uplink[i]
      /\ \A i \in 1..Len(ps) : uplink'[Len(uplink) + i] = ps[i]
    BY DEF UplinkType
<1>2. ASSUME NEW i \in 1..(Len(uplink) + 1), NEW r, LastTold(uplink, Told, i, r)
      PROVE  LastTold(uplink', Told', i, r)
    <2>1. i \in Nat /\ \A k \in 1..(i - 1) : uplink'[k] = uplink[k]
        BY <1>1
    <2>2. LastTold(uplink', Told, i, r)
        BY <1>2, <2>1, ToldKept
    <2> QED BY <2>2
<1>3. ASSUME NEW i \in 1..Len(uplink)
      PROVE  /\ uplink'[i].kind = "MIC_DATA" => LastTold(uplink', Told', i, uplink'[i].rate)
             /\ uplink'[i].kind = "MIC_STOP" => uplink'[i].rate = 0
    BY <1>1, <1>2 DEF RateInv
<1> QED BY <1>1, <1>2, <1>3

\* A packet that tells nothing is appended.
LEMMA QuietAppend ==
    ASSUME UplinkType, RateInv, NEW p \in UpPacket, uplink' = uplink \o <<p>>,
           Told' = Told, UNCHANGED <<mic_active, i2s_running, i2s_cur_rate>>,
           ~Tells(p),
           p.kind = "MIC_DATA" => mic_active /\ i2s_running /\ p.rate = i2s_cur_rate
    PROVE  RateInv'
<1> DEFINE n == Len(uplink)
<1>1. PICK ps \in Seq(UpPacket) : ps = <<p>> /\ Len(ps) = 1 /\ ps[1] = p
    <2>1. <<p>> \in Seq(UpPacket) /\ Len(<<p>>) = 1 /\ <<p>>[1] = p
        OBVIOUS
    <2> QED BY <2>1
<1>2. /\ n \in Nat /\ Len(uplink') = n + 1 /\ uplink'[n + 1] = p
      /\ \A i \in 1..n :
            /\ uplink'[i].kind = "MIC_DATA" => LastTold(uplink', Told', i, uplink'[i].rate)
            /\ uplink'[i].kind = "MIC_STOP" => uplink'[i].rate = 0
      /\ \A r : LastTold(uplink, Told, n + 1, r) => LastTold(uplink', Told', n + 1, r)
    <2>1. uplink' = uplink \o ps
        BY <1>1
    <2>2. /\ Len(uplink) \in Nat /\ Len(uplink') = Len(uplink) + Len(ps)
          /\ \A i \in 1..Len(ps) : uplink'[Len(uplink) + i] = ps[i]
          /\ \A i \in 1..Len(uplink) :
                /\ uplink'[i].kind = "MIC_DATA" => LastTold(uplink', Told', i, uplink'[i].rate)
                /\ uplink'[i].kind = "MIC_STOP" => uplink'[i].rate = 0
          /\ \A r : LastTold(uplink, Told, Len(uplink) + 1, r)
                       => LastTold(uplink', Told', Len(uplink) + 1, r)
        BY <2>1, OldToldKept
    <2> QED BY <1>1, <2>2
<1>3. mic_active /\ i2s_running => /\ LastTold(uplink', Told', n + 1, i2s_cur_rate')
                                   /\ LastTold(uplink', Told', (n + 1) + 1, i2s_cur_rate')
    <2>1. n + 1 \in Nat \ {0} /\ ~Tells(uplink'[n + 1])
        BY <1>2
    <2> QED BY <1>2, <2>1, ToldOn DEF RateInv
<1> HIDE DEF n
<1>4. ASSUME NEW i \in 1..(n + 1)
      PROVE  /\ uplink'[i].kind = "MIC_DATA" => LastTold(uplink', Told', i, uplink'[i].rate)
             /\ uplink'[i].kind = "MIC_STOP" => uplink'[i].rate = 0
    <2>1. CASE i \in 1..n
        BY <1>2, <2>1
    <2>2. CASE i = n + 1
        BY <1>2, <1>3, <2>2 DEF Tells
    <2> QED BY <1>2, <2>1, <2>2
<1> QED BY <1>2, <1>3, <1>4 DEF RateInv

\* A start or a stop, and the acknowledgement, are appended.
LEMMA NewsAppend ==
    ASSUME UplinkType, RateInv, NEW p \in UpPacket, NEW q \in UpPacket,
           uplink' = uplink \o <<p, q>>, Told' = Told,
           Tells(p), q.kind = "ACK", p.kind = "MIC_STOP" => p.rate = 0,
           mic_active' /\ i2s_running' => p.rate = i2s_cur_rate'
    PROVE  RateInv'
<1> DEFINE n == Len(uplink)
<1>1. PICK ps \in Seq(UpPacket) : ps = <<p, q>> /\ Len(ps) = 2 /\ ps[1] = p /\ ps[2] = q
    <2>1. <<p, q>> \in Seq(UpPacket) /\ Len(<<p, q>>) = 2 /\ <<p, q>>[1] = p /\ <<p, q>>[2] = q
        OBVIOUS
    <2> QED BY <2>1
<1>2. /\ n \in Nat /\ Len(uplink') = n + 2 /\ uplink'[n + 1] = p /\ uplink'[n + 2] = q
      /\ \A i \in 1..n :
            /\ uplink'[i].kind = "MIC_DATA" => LastTold(uplink', Told', i, uplink'[i].rate)
            /\ uplink'[i].kind = "MIC_STOP" => uplink'[i].rate = 0
    <2>1. uplink' = uplink \o ps
        BY <1>1
    <2>2. /\ Len(uplink) \in Nat /\ Len(uplink') = Len(uplink) + Len(ps)
          /\ \A i \in 1..Len(ps) : uplink'[Len(uplink) + i] = ps[i]
          /\ \A i \in 1..Len(uplink) :
                /\ uplink'[i].kind = "MIC_DATA" => LastTold(uplink', Told', i, uplink'[i].rate)
                /\ uplink'[i].kind = "MIC_STOP" => uplink'[i].rate = 0
          /\ \A r : LastTold(uplink, Told, Len(uplink) + 1, r)
                       => LastTold(uplink', Told', Len(uplink) + 1, r)
        BY <2>1, OldToldKept
    <2>3. 1 \in 1..Len(ps) /\ 2 \in 1..Len(ps)
        BY <1>1
    <2>4. uplink'[n + 1] = p /\ uplink'[n + 2] = q
        BY <1>1, <2>2, <2>3
    <2>5. n \in Nat /\ Len(uplink') = n + 2
        BY <1>1, <2>2
    <2> HIDE DEF n
    <2>6. n = Len(uplink)
        BY DEF n
    <2> QED BY <2>2, <2>4, <2>5, <2>6
<1>3. LastTold(uplink', Told', (n + 1) + 1, p.rate)
    <2>1. n + 1 \in Nat \ {0} /\ Tells(uplink'[n + 1]) /\ uplink'[n + 1].rate = p.rate
        BY <1>2
    <2> QED BY <2>1, ToldOn
<1>4. (n + 1) + 1 = n + 2 /\ n + 2 \in Nat \ {0} /\ ~Tells(uplink'[n + 2])
    BY <1>2 DEF Tells
<1>5. LastTold(uplink', Told', (n + 2) + 1, p.rate)
    BY <1>3, <1>4, ToldOn
<1> HIDE DEF n
<1>6. ASSUME NEW i \in 1..(n + 2)
      PROVE  /\ uplink'[i].kind = "MIC_DATA" => LastTold(uplink', Told', i, uplink'[i].rate)
             /\ uplink'[i].kind = "MIC_STOP" => uplink'[i].rate = 0
    <2>1. CASE i \in 1..n
        BY <1>2, <2>1
    <2>2. CASE i = n + 1 \/ i = n + 2
        BY <1>2, <2>2 DEF Tells
    <2> QED BY <1>2, <2>1, <2>2
<1> QED BY <1>2, <1>5, <1>6 DEF RateInv

\* The first packet of the wire is read, and what it tells is kept.
LEMMA ToldOnRead ==
    ASSUME NEW ps, NEW qs, NEW told, NEW i \in Nat \ {0}, NEW r,
           \A k \in 1..(i - 1) : qs[k] = ps[k + 1], LastTold(ps, told, i + 1, r)
    PROVE  LastTold(qs, IF Tells(ps[1]) THEN {ps[1].rate} ELSE told, i, r)
<1> DEFINE new == IF Tells(ps[1]) THEN {ps[1].rate} ELSE told
<1>1. CASE r \in told /\ \A k \in 1..((i + 1) - 1) : ~Tells(ps[k])
    <2>1. \A k \in 1..i : ~Tells(ps[k])
        BY <1>1
    <2>2. r \in new /\ \A k \in 1..(i - 1) : ~Tells(qs[k])
        BY <1>1, <2>1
    <2> QED BY <2>2 DEF LastTold
<1>2. CASE \E k \in 1..((i + 1) - 1) : /\ Tells(ps[k]) /\ ps[k].rate = r
                                       /\ \A m \in (k + 1)..((i + 1) - 1) : ~Tells(ps[m])
    <2>1. PICK k \in 1..i : Tells(ps[k]) /\ ps[k].rate = r /\ \A m \in (k + 1)..i : ~Tells(ps[m])
        BY <1>2
    <2>2. CASE k = 1
        <3>1. r \in new /\ \A m \in 1..(i - 1) : ~Tells(qs[m])
            BY <2>1, <2>2
        <3> QED BY <3>1 DEF LastTold
    <2>3. CASE k # 1
        <3>1. /\ k - 1 \in 1..(i - 1) /\ Tells(qs[k - 1]) /\ qs[k - 1].rate = r
              /\ \A m \in ((k - 1) + 1)..(i - 1) : ~Tells(qs[m])
            BY <2>1, <2>3
        <3> QED BY <3>1 DEF LastTold
    <2> QED BY <2>2, <2>3
<1> QED BY <1>1, <1>2 DEF LastTold

\* More may have been told before.
LEMMA ToldMore ==
    ASSUME NEW ps, NEW told, NEW more, told \subseteq more, NEW i, NEW r, LastTold(ps, told, i, r)
    PROVE  LastTold(ps, more, i, r)
BY DEF LastTold

\* The first packet leaves the wire, whether it is read or lost.
LEMMA LeaveRates ==
    ASSUME UplinkType, RateInv, uplink # <<>>, uplink' = Tail(uplink),
           UNCHANGED <<mic_active, i2s_running, i2s_cur_rate>>,
           (IF Tells(uplink[1]) THEN {uplink[1].rate} ELSE Told) \subseteq Told'
    PROVE  RateInv'
<1> DEFINE n == Len(uplink)
<1>1. /\ n \in Nat \ {0} /\ Len(uplink') = n - 1
      /\ \A k \in 1..(n - 1) : uplink'[k] = uplink[k + 1]
    BY HeadTailProperties DEF UplinkType
<1>3. ASSUME NEW i \in 1..n, NEW r, LastTold(uplink, Told, i + 1, r)
      PROVE  LastTold(uplink', Told', i, r)
    <2>1. i \in Nat \ {0} /\ \A k \in 1..(i - 1) : uplink'[k] = uplink[k + 1]
        BY <1>1
    <2>2. LastTold(uplink', IF Tells(uplink[1]) THEN {uplink[1].rate} ELSE Told, i, r)
        BY <1>3, <2>1, ToldOnRead
    <2> QED BY <2>2, ToldMore
<1>4. ASSUME NEW i \in 1..(n - 1)
      PROVE  /\ uplink'[i].kind = "MIC_DATA" => LastTold(uplink', Told', i, uplink'[i].rate)
             /\ uplink'[i].kind = "MIC_STOP" => uplink'[i].rate = 0
    <2>1. i \in 1..n /\ i + 1 \in 1..n /\ uplink'[i] = uplink[i + 1]
        BY <1>1
    <2> QED BY <1>3, <2>1 DEF RateInv
<1>5. ASSUME mic_active', i2s_running' PROVE LastTold(uplink', Told', n, i2s_cur_rate')
    <2>1. mic_active /\ i2s_running /\ i2s_cur_rate' = i2s_cur_rate
        BY <1>5
    <2>2. LastTold(uplink, Told, n + 1, i2s_cur_rate) /\ n \in 1..n
        BY <1>1, <2>1 DEF RateInv
    <2> QED BY <1>3, <2>1, <2>2
<1>6. (Len(uplink) - 1) + 1 = n
    BY <1>1
<1> HIDE DEF n
<1> QED BY <1>1, <1>4, <1>5, <1>6 DEF RateInv

LEMMA ReadRates ==
    ASSUME UplinkType, RateInv, LuckfoxReads PROVE RateInv'
<1>1. Head(uplink) = uplink[1]
    BY HeadTailProperties DEF UplinkType, LuckfoxReads
<1>2. (IF Tells(uplink[1]) THEN {uplink[1].rate} ELSE Told) \subseteq Told'
    <2>1. CASE Tells(uplink[1])
        BY <1>1, <2>1 DEF LuckfoxReads, Told
    <2>2. CASE ~Tells(uplink[1])
        BY <1>1, <2>2 DEF LuckfoxReads, Told, heard
    <2> QED BY <2>1, <2>2
<1> QED BY <1>2, LeaveRates DEF LuckfoxReads, session, driver

LEMMA DropRates ==
    ASSUME UplinkType, missed \in BOOLEAN, RateInv, LuckfoxDrops PROVE RateInv'
<1>1. Head(uplink) = uplink[1] /\ uplink[1] \in UpPacket
    BY HeadTailProperties DEF UplinkType, LuckfoxDrops
<1>2. (IF Tells(uplink[1]) THEN {uplink[1].rate} ELSE Told) \subseteq Told'
    <2>1. CASE Tells(uplink[1])
        <3>1. missed' /\ uplink[1].rate \in Rates \cup {0}
            BY <1>1, <2>1 DEF LuckfoxDrops, UpPacket
        <3> QED BY <2>1, <3>1 DEF Told
    <2>2. CASE ~Tells(uplink[1])
        <3>1. announced' = announced /\ (missed => missed')
            BY DEF LuckfoxDrops
        <3> QED BY <2>2, <3>1 DEF Told
    <2> QED BY <2>1, <2>2
<1> QED BY <1>2, LeaveRates DEF LuckfoxDrops, session, driver

LEMMA RateStep ==
    ASSUME IInv, RateInv, [Next]_vars PROVE RateInv'
<1>1. UplinkType /\ TypeOK /\ i2s_cur_rate \in Rates \cup {0} /\ i2s_running \in BOOLEAN
      /\ missed \in BOOLEAN
    BY TypeParts DEF IInv
\* Nothing of the wire, the driver or the microphone changes.
<1>2. ASSUME Told' = Told, UNCHANGED <<uplink, mic_active, i2s_running, i2s_cur_rate>>
      PROVE  RateInv'
    BY <1>2 DEF RateInv
<1>3. ASSUME NEW rate \in Rates, NEW is_call \in BOOLEAN, StartPacket(rate, is_call)
      PROVE  RateInv'
    <2>1. uplink' = uplink \o <<Packet("MIC_START", rate), Packet("ACK", 0)>>
        BY <1>3 DEF StartPacket, start_session, SendPackets
    <2>2. i2s_running' => i2s_cur_rate' = rate
        BY <1>3 DEF StartPacket, start_session, setup_i2s, driver
    <2>3. /\ Packet("MIC_START", rate) \in UpPacket /\ Packet("ACK", 0) \in UpPacket
          /\ Packet("MIC_START", rate).rate = rate /\ Tells(Packet("MIC_START", rate))
          /\ Packet("MIC_START", rate).kind # "MIC_STOP" /\ Packet("ACK", 0).kind = "ACK"
        BY PacketTypes DEF Packet, Tells
    <2>4. Told' = Told
        BY <1>3 DEF StartPacket, heard, Told
    <2> QED BY <1>1, <2>1, <2>2, <2>3, <2>4, NewsAppend
<1>4. ASSUME StopPacket PROVE RateInv'
    <2>1. uplink' = uplink \o <<Packet("MIC_STOP", 0), Packet("ACK", 0)>>
        BY <1>4 DEF StopPacket, SendPackets
    <2>2. mic_active' = FALSE /\ Told' = Told
        BY <1>4 DEF StopPacket, heard, Told
    <2>3. /\ Packet("MIC_STOP", 0) \in UpPacket /\ Packet("ACK", 0) \in UpPacket
          /\ Packet("MIC_STOP", 0).rate = 0 /\ Tells(Packet("MIC_STOP", 0))
          /\ Packet("ACK", 0).kind = "ACK"
        BY PacketTypes DEF Packet, Tells
    <2> QED BY <1>1, <2>1, <2>2, <2>3, NewsAppend
<1>5. ASSUME NEW len \in PacketLens, AudioData(len) PROVE RateInv'
    <2>1. Told' = Told /\ UNCHANGED <<mic_active, i2s_running, i2s_cur_rate>>
        BY <1>5 DEF AudioData, DataStored, DataDiscardsOldest, DataRefused, DataDropped,
                    session, driver, heard, Told
    <2>2. CASE DataRefused(len)
        <3>1. uplink' = uplink \o <<Packet("NACK", 0)>>
            BY <2>2 DEF DataRefused, SendPackets
        <3>2. /\ Packet("NACK", 0) \in UpPacket /\ ~Tells(Packet("NACK", 0))
              /\ Packet("NACK", 0).kind # "MIC_DATA"
            BY PacketTypes DEF Packet, Tells
        <3> QED BY <1>1, <2>1, <3>1, <3>2, QuietAppend
    <2>3. CASE DataStored(len) \/ DataDiscardsOldest(len) \/ DataDropped(len)
        <3>1. uplink' = uplink
            BY <2>3 DEF DataStored, DataDiscardsOldest, DataDropped
        <3> QED BY <1>2, <2>1, <3>1
    <2> QED BY <1>5, <2>2, <2>3 DEF AudioData
<1>6. ASSUME Capture PROVE RateInv'
    <2>1. Told' = Told /\ UNCHANGED <<mic_active, i2s_running, i2s_cur_rate>>
        BY <1>6 DEF Capture, session, driver, heard, Told
    <2>2. CASE mic_active /\ i2s_running /\ SendPackets(<<Packet("MIC_DATA", i2s_cur_rate)>>)
        <3>1. uplink' = uplink \o <<Packet("MIC_DATA", i2s_cur_rate)>>
            BY <2>2 DEF SendPackets
        <3>2. /\ Packet("MIC_DATA", i2s_cur_rate) \in UpPacket
              /\ ~Tells(Packet("MIC_DATA", i2s_cur_rate))
              /\ Packet("MIC_DATA", i2s_cur_rate).rate = i2s_cur_rate
            BY <1>1, PacketTypes DEF Packet, Tells
        <3> QED BY <1>1, <2>1, <2>2, <3>1, <3>2, QuietAppend
    <2>3. CASE UNCHANGED uplink
        BY <1>2, <2>1, <2>3
    <2> QED BY <1>6, <2>2, <2>3 DEF Capture
<1>7. ASSUME Show PROVE RateInv'
    <2>1. Told' = Told /\ UNCHANGED <<mic_active, i2s_running, i2s_cur_rate>>
        BY <1>7 DEF Show, session, driver, heard, Told
    <2>2. CASE SendPackets(<<Packet("STATUS", 0)>>)
        <3>1. uplink' = uplink \o <<Packet("STATUS", 0)>>
            BY <2>2 DEF SendPackets
        <3>2. /\ Packet("STATUS", 0) \in UpPacket /\ ~Tells(Packet("STATUS", 0))
              /\ Packet("STATUS", 0).kind # "MIC_DATA"
            BY PacketTypes DEF Packet, Tells
        <3> QED BY <1>1, <2>1, <3>1, <3>2, QuietAppend
    <2>3. CASE UNCHANGED uplink
        BY <1>2, <2>1, <2>3
    <2> QED BY <1>7, <2>2, <2>3 DEF Show
<1>8. ASSUME NEW ok \in BOOLEAN, Reboot(ok) PROVE RateInv'
    BY <1>8 DEF Reboot, RateInv, heard, Told
<1>9. ASSUME Parsed \/ Drain \/ NewStream \/ UNCHANGED vars PROVE RateInv'
    <2>1. Told' = Told /\ UNCHANGED <<uplink, mic_active, i2s_running, i2s_cur_rate>>
        BY <1>9 DEF Parsed, Drain, NewStream, vars, session, driver, heard, Told
    <2> QED BY <1>2, <2>1
<1>10. ASSUME LuckfoxReads PROVE RateInv'
    BY <1>1, <1>10, ReadRates
<1>11. ASSUME LuckfoxDrops PROVE RateInv'
    BY <1>1, <1>11, DropRates
<1> QED BY <1>3, <1>4, <1>5, <1>6, <1>7, <1>8, <1>9, <1>10, <1>11 DEF Next

\* Microphone data reaches the LuckFox with the rate that the last PKT_MIC_START announced,
\* unless that packet was lost itself, however sessions, rates, failures of the driver and
\* reboots follow each other and however many packets the wire holds.
THEOREM RateAnnounced == Spec => []MicAtAnnouncedRate
<1>1. Init => RateInv
    BY DEF Init, RateInv
<1>2. IInv /\ RateInv /\ [Next]_vars => RateInv'
    BY RateStep
<1>3. RateInv => MicAtAnnouncedRate
    <2> SUFFICES ASSUME RateInv, NEW i \in 1..Len(uplink), uplink[i].kind = "MIC_DATA"
                 PROVE  uplink[i].rate = ToldBefore(i) \/ (missed /\ TellsBefore(i) = {})
        BY DEF MicAtAnnouncedRate
    <2>1. LastTold(uplink, Told, i, uplink[i].rate) /\ i \in Nat
        BY DEF RateInv
    <2> QED BY <2>1, ToldIsLast
<1> QED BY <1>1, <1>2, <1>3, Invariant, PTL DEF Spec

---------------------------------------------------------------------------
(* What is in the ring after it has moved.                                 *)

\* The j-th place after the tail is a place before the head, or the one that far behind it.
LEMMA Place ==
    ASSUME NEW h \in 0..(RingSize - 1), NEW t \in 0..(RingSize - 1), NEW j \in 0..(RingSize - 1)
    PROVE  /\ (t + j) % RingSize \in 0..(RingSize - 1)
           /\ Distance((t + j) % RingSize, h)
                = IF j < Distance(h, t) THEN j - Distance(h, t) + RingSize ELSE j - Distance(h, t)
<1> DEFINE k == (t + j) % RingSize
<1>1. RingSize \in Nat \ {0}
    BY RingSizes
<1>2. k = (IF t + j < RingSize THEN t + j ELSE t + j - RingSize) /\ k \in 0..(RingSize - 1)
    BY <1>1, Moved
<1> HIDE DEF k
<1>3. Distance(h, t) = IF h < t THEN h - t + RingSize ELSE h - t
    BY DistanceIs
<1>4. Distance(k, h) = IF k < h THEN k - h + RingSize ELSE k - h
    BY <1>2, DistanceIs
<1>5. Distance(k, h) = IF j < Distance(h, t) THEN j - Distance(h, t) + RingSize
                       ELSE j - Distance(h, t)
    BY <1>1, <1>2, <1>3, <1>4
<1> QED BY <1>2, <1>5 DEF k

\* Two moves of a tail are one.
LEMMA MovedTwice ==
    ASSUME NEW t \in 0..(RingSize - 1), NEW b \in Nat, NEW j \in Nat, b + j < RingSize
    PROVE  (((t + b) % RingSize) + j) % RingSize = (t + (b + j)) % RingSize
<1> DEFINE tt == (t + b) % RingSize
           c == b + j
<1>1. RingSize \in Nat \ {0} /\ b \in 0..(RingSize - 1) /\ j \in 0..(RingSize - 1)
      /\ c \in 0..(RingSize - 1)
    BY RingSizes
<1>2. tt = (IF t + b < RingSize THEN t + b ELSE t + b - RingSize) /\ tt \in 0..(RingSize - 1)
    BY <1>1, Moved
<1>3. c = b + j
    OBVIOUS
<1> HIDE DEF tt, c
<1>4. (tt + j) % RingSize = IF tt + j < RingSize THEN tt + j ELSE tt + j - RingSize
    BY <1>1, <1>2, Moved
<1>5. (t + c) % RingSize = IF t + c < RingSize THEN t + c ELSE t + c - RingSize
    BY <1>1, Moved
<1>6. (tt + j) % RingSize = (t + c) % RingSize
    BY <1>1, <1>2, <1>3, <1>4, <1>5
<1> QED BY <1>6 DEF tt, c

\* b bytes leave at the tail and len come in at the head.
LEMMA ContentsMove ==
    ASSUME RingType, RingType', next_tag \in 0..(Tags - 1), NEW len \in Nat, NEW b \in Nat,
           b <= ring_used, ring_used + len - b < RingSize,
           ring_used' = ring_used + len - b,
           ring_tail' = (ring_tail + b) % RingSize, ring_write(len)
    PROVE  Contents' = [i \in 1..(ring_used + len - b) |->
                          IF b + i <= ring_used THEN Contents[b + i]
                          ELSE (next_tag + (b + i - ring_used) - 1) % Tags]
<1>1. RingSize \in Nat \ {0} /\ ring_used = Distance(ring_head, ring_tail)
      /\ ring_used \in 0..(RingSize - 1)
    BY UsedIs, RingSizes
<1>2. ring_tail' \in 0..(RingSize - 1) /\ Distance(ring_head, ring_tail') = ring_used - b
    BY <1>1, TailMoves DEF RingType
<1>3. ASSUME NEW i \in 1..(ring_used + len - b)
      PROVE  ring'[(ring_tail' + i - 1) % RingSize]
                = IF b + i <= ring_used THEN Contents[b + i]
                  ELSE (next_tag + (b + i - ring_used) - 1) % Tags
    <2>0. PICK j : j = i - 1
        OBVIOUS
    <2> DEFINE k == (ring_tail' + j) % RingSize
    <2>1. j \in 0..(RingSize - 1) /\ ring_tail' + i - 1 = ring_tail' + j
        BY <1>1, <1>2, <2>0
    <2>2. k \in 0..(RingSize - 1)
          /\ Distance(k, ring_head)
                = IF j < ring_used - b THEN j - (ring_used - b) + RingSize ELSE j - (ring_used - b)
        <3>1. /\ (ring_tail' + j) % RingSize \in 0..(RingSize - 1)
              /\ Distance((ring_tail' + j) % RingSize, ring_head)
                    = IF j < Distance(ring_head, ring_tail')
                      THEN j - Distance(ring_head, ring_tail') + RingSize
                      ELSE j - Distance(ring_head, ring_tail')
            BY <1>2, <2>1, Place DEF RingType
        <3> QED BY <1>2, <3>1
    <2>3. ring'[k] = IF Distance(k, ring_head) < len
                     THEN (next_tag + Distance(k, ring_head)) % Tags ELSE ring[k]
        BY <2>2 DEF ring_write, Distance
    <2>4. CASE b + i <= ring_used
        <3>1. ~(Distance(k, ring_head) < len)
            BY <1>1, <2>0, <2>1, <2>2, <2>4
        <3>2. ring'[k] = ring[k]
            BY <2>3, <3>1
        <3>3. k = (ring_tail + (b + j)) % RingSize
            <4>1. b + j < RingSize /\ j \in Nat
                BY <1>1, <2>0, <2>1, <2>4
            <4>2. (((ring_tail + b) % RingSize) + j) % RingSize = (ring_tail + (b + j)) % RingSize
                BY <4>1, MovedTwice DEF RingType
            <4> QED BY <4>2
        <3>4. ring_tail + (b + j) = ring_tail + (b + i) - 1 /\ b + i \in 1..ring_used
            BY <1>1, <2>0, <2>4 DEF RingType
        <3>5. Contents[b + i] = ring[(ring_tail + (b + i) - 1) % RingSize]
            BY <3>4 DEF Contents
        <3> HIDE DEF k
        <3> QED BY <2>1, <2>4, <3>2, <3>3, <3>4, <3>5 DEF k
    <2>5. CASE ~(b + i <= ring_used)
        <3>1. Distance(k, ring_head) = j - (ring_used - b) /\ Distance(k, ring_head) < len
            BY <1>1, <2>0, <2>1, <2>2, <2>5
        <3>2. ring'[k] = (next_tag + (j - (ring_used - b))) % Tags
            BY <2>3, <3>1
        <3>3. next_tag + (j - (ring_used - b)) = next_tag + (b + i - ring_used) - 1
            BY <1>1, <2>0, TagsEven
        <3> QED BY <2>1, <2>5, <3>2, <3>3
    <2> QED BY <2>4, <2>5
<1>4. Contents' = [i \in 1..ring_used' |-> ring'[(ring_tail' + i - 1) % RingSize]]
    BY DEF Contents
<1> QED BY <1>3, <1>4

---------------------------------------------------------------------------
(* Every step of the ring is one of the queue.                             *)

\* The end of one sequence followed by another.
LEMMA Window ==
    ASSUME NEW S, NEW q \in Seq(S), NEW c \in Seq(S), NEW b \in 0..Len(q),
           NEW s, s = [i \in 1..(Len(q) + Len(c) - b) |->
                         IF b + i <= Len(q) THEN q[b + i] ELSE c[b + i - Len(q)]]
    PROVE  /\ Len(q \o c) = Len(q) + Len(c)
           /\ s = SubSeq(q \o c, b + 1, Len(q \o c))
<1>1. /\ q \o c \in Seq(S) /\ Len(q \o c) = Len(q) + Len(c)
      /\ \A i \in 1..(Len(q) + Len(c)) :
            (q \o c)[i] = IF i <= Len(q) THEN q[i] ELSE c[i - Len(q)]
    BY ConcatProperties
<1>2. Len(q) \in Nat /\ Len(c) \in Nat
    OBVIOUS
<1> DEFINE n == Len(q) + Len(c)
           x == q \o c
<1>3. SubSeq(x, b + 1, n) = [i \in 1..(n - b) |-> x[b + i]]
    <2>1. SubSeq(x, b + 1, n) = [i \in 1..(n - (b + 1) + 1) |-> x[(b + 1) + i - 1]]
        BY <1>1, <1>2
    <2>2. n - (b + 1) + 1 = n - b /\ \A i \in 1..(n - b) : (b + 1) + i - 1 = b + i
        BY <1>2
    <2> QED BY <2>1, <2>2
<1>4. ASSUME NEW i \in 1..(n - b) PROVE s[i] = x[b + i]
    <2>1. b + i \in 1..n
        BY <1>2
    <2> QED BY <1>1, <2>1
<1>5. s = [i \in 1..(n - b) |-> x[b + i]]
    <2>1. PICK y : y = x
        OBVIOUS
    <2>2. s = [i \in 1..(n - b) |-> s[i]]
        OBVIOUS
    <2>3. \A i \in 1..(n - b) : s[i] = y[b + i]
        BY <1>4, <2>1
    <2> HIDE DEF x, n
    <2>4. s = [i \in 1..(n - b) |-> y[b + i]]
        BY <2>2, <2>3
    <2> QED BY <2>1, <2>4
<1>6. Len(x) = n
    BY <1>1
<1> QED
    <2>1. s = SubSeq(x, b + 1, n)
        BY <1>3, <1>5
    <2> QED BY <1>1, <2>1

\* The bytes of a packet.
LEMMA ChunkIs ==
    ASSUME next_tag \in 0..(Tags - 1), NEW len \in Nat
    PROVE  /\ Queue!Chunk(len) \in Seq(0..(Tags - 1)) /\ Len(Queue!Chunk(len)) = len
           /\ \A i \in 1..len : Queue!Chunk(len)[i] = (next_tag + i - 1) % Tags
<1>1. ASSUME NEW i \in 1..len PROVE (next_tag + i - 1) % Tags \in 0..(Tags - 1)
    BY TagsEven
<1> QED BY <1>1 DEF Queue!Chunk

LEMMA StoredQueue ==
    ASSUME RingType, next_tag \in 0..(Tags - 1), NEW len \in PacketLens,
           call_mode \in BOOLEAN,
           ring_free >= len, ring_write(len), UNCHANGED ring_tail
    PROVE  /\ Contents' = Contents \o Queue!Chunk(len)
           /\ Len(Contents \o Queue!Chunk(len)) = ring_used + len
<1>1. RingType' /\ ring_used' = ring_used + len /\ ring_used + len < RingSize
    BY Stored
<1>2. ring_used \in 0..(RingSize - 1) /\ RingSize \in Nat \ {0} /\ len \in Nat
    BY UsedIs, RingSizes, LensBounded
<1>3. PICK b \in Nat : b = 0
    OBVIOUS
<1>4. ring_tail' = (ring_tail + b) % RingSize
    <2>1. PICK x : x = ring_tail + b
        OBVIOUS
    <2>2. x \in 0..(RingSize - 1) /\ x = ring_tail
        BY <1>3, <2>1 DEF RingType
    <2>3. x % RingSize = x
        BY <1>2, <2>2
    <2> QED BY <2>1, <2>2, <2>3
<1>5. Contents' = [i \in 1..(ring_used + len - b) |->
                          IF b + i <= ring_used THEN Contents[b + i]
                          ELSE (next_tag + (b + i - ring_used) - 1) % Tags]
    BY <1>1, <1>2, <1>3, <1>4, ContentsMove
<1>6. Contents \in Seq(0..(Tags - 1)) /\ Len(Contents) = ring_used
    BY <1>2, SpokenType
<1>7. /\ Queue!Chunk(len) \in Seq(0..(Tags - 1)) /\ Len(Queue!Chunk(len)) = len
      /\ \A i \in 1..len : Queue!Chunk(len)[i] = (next_tag + i - 1) % Tags
    BY <1>2, ChunkIs
<1>8. Contents' = [i \in 1..(Len(Contents) + Len(Queue!Chunk(len)) - b) |->
                      IF b + i <= Len(Contents) THEN Contents[b + i]
                      ELSE Queue!Chunk(len)[b + i - Len(Contents)]]
    BY <1>2, <1>3, <1>5, <1>6, <1>7
<1>9. /\ Len(Contents \o Queue!Chunk(len)) = ring_used + len
      /\ Contents' = SubSeq(Contents \o Queue!Chunk(len), b + 1, Len(Contents \o Queue!Chunk(len)))
    <2>1. b \in 0..Len(Contents)
        BY <1>2, <1>3, <1>6
    <2> QED BY <1>6, <1>7, <1>8, <2>1, Window
<1>10. Contents \o Queue!Chunk(len) \in Seq(0..(Tags - 1))
    BY <1>6, <1>7
<1> QED BY <1>3, <1>9, <1>10, SubSeqFull

LEMMA DiscardedQueue ==
    ASSUME RingType, next_tag \in 0..(Tags - 1), NEW len \in PacketLens,
           call_mode, ring_used <= CallLimit, ring_free < len,
           ring_tail' = (ring_tail + (len - ring_free)) % RingSize, ring_write(len)
    PROVE  Contents' = Queue!Newest(Contents \o Queue!Chunk(len), CallLimit)
<1>1. PICK b : b = len - ring_free
    OBVIOUS
<1>2. /\ RingType' /\ ring_used' = CallLimit
      /\ b \in Nat /\ b <= ring_used /\ ring_used + len - b = CallLimit
    BY <1>1, Discarded
<1>3. /\ ring_used \in 0..(RingSize - 1) /\ RingSize \in Nat \ {0} /\ len \in Nat
      /\ CallLimit \in Nat /\ CallLimit < RingSize
    BY UsedIs, RingSizes, LensBounded
<1>4. b >= 1
    BY <1>1, <1>2, <1>3 DEF ring_free
<1>5. Contents' = [i \in 1..(ring_used + len - b) |->
                          IF b + i <= ring_used THEN Contents[b + i]
                          ELSE (next_tag + (b + i - ring_used) - 1) % Tags]
    BY <1>1, <1>2, <1>3, ContentsMove
<1>6. Contents \in Seq(0..(Tags - 1)) /\ Len(Contents) = ring_used
    BY <1>3, SpokenType
<1>7. /\ Queue!Chunk(len) \in Seq(0..(Tags - 1)) /\ Len(Queue!Chunk(len)) = len
      /\ \A i \in 1..len : Queue!Chunk(len)[i] = (next_tag + i - 1) % Tags
    BY <1>3, ChunkIs
<1>8. Contents' = [i \in 1..(Len(Contents) + Len(Queue!Chunk(len)) - b) |->
                      IF b + i <= Len(Contents) THEN Contents[b + i]
                      ELSE Queue!Chunk(len)[b + i - Len(Contents)]]
    BY <1>2, <1>3, <1>5, <1>6, <1>7
<1>9. /\ Len(Contents \o Queue!Chunk(len)) = ring_used + len
      /\ Contents' = SubSeq(Contents \o Queue!Chunk(len), b + 1, Len(Contents \o Queue!Chunk(len)))
    <2>1. b \in 0..Len(Contents)
        BY <1>2, <1>3, <1>6
    <2> QED BY <1>6, <1>7, <1>8, <2>1, Window
<1>10. ~(Len(Contents \o Queue!Chunk(len)) <= CallLimit)
       /\ Len(Contents \o Queue!Chunk(len)) - CallLimit + 1 = b + 1
    BY <1>2, <1>3, <1>4, <1>9
<1> QED BY <1>9, <1>10 DEF Queue!Newest

\* The speaker takes n bytes from the front.
LEMMA TakenQueue ==
    ASSUME RingType, NEW n \in Nat, n <= ring_used,
           ring_tail' = (ring_tail + n) % RingSize, UNCHANGED <<ring, ring_head>>
    PROVE  Contents' = SubSeq(Contents, n + 1, Len(Contents))
<1>1. RingType' /\ ring_used' = ring_used - n
    BY Taken
<1>2. ring_used \in 0..(RingSize - 1) /\ RingSize \in Nat \ {0}
    BY UsedIs, RingSizes
<1>3. Contents \in Seq(0..(Tags - 1)) /\ Len(Contents) = ring_used
    BY <1>2, SpokenType
<1>4. ASSUME NEW i \in 1..(ring_used - n)
      PROVE  ring'[(ring_tail' + i - 1) % RingSize] = Contents[n + i]
    <2>1. PICK j \in Nat : j = i - 1
        BY <1>2
    <2>2. n + j < RingSize
        BY <1>2, <2>1
    <2>3. (((ring_tail + n) % RingSize) + j) % RingSize = (ring_tail + (n + j)) % RingSize
        BY <2>2, MovedTwice DEF RingType
    <2>4. ring_tail' + i - 1 = ring_tail' + j /\ ring_tail + (n + i) - 1 = ring_tail + (n + j)
          /\ n + i \in 1..ring_used
        BY <1>1, <1>2, <2>1 DEF RingType
    <2>5. Contents[n + i] = ring[(ring_tail + (n + i) - 1) % RingSize]
        BY <2>4 DEF Contents
    <2> QED BY <2>3, <2>4, <2>5
<1>5. Contents' = [i \in 1..ring_used' |-> ring'[(ring_tail' + i - 1) % RingSize]]
    BY DEF Contents
<1>6. SubSeq(Contents, n + 1, ring_used) = [i \in 1..(ring_used - n) |-> Contents[n + i]]
    <2>1. SubSeq(Contents, n + 1, ring_used)
            = [i \in 1..(ring_used - (n + 1) + 1) |-> Contents[(n + 1) + i - 1]]
        BY <1>2, <1>3
    <2>2. ring_used - (n + 1) + 1 = ring_used - n
          /\ \A i \in 1..(ring_used - n) : (n + 1) + i - 1 = n + i
        BY <1>2
    <2> QED BY <2>1, <2>2
<1> QED BY <1>1, <1>3, <1>4, <1>5, <1>6

\* The queue as it is seen, when the ring and the mode are left alone.
LEMMA SameQueue ==
    ASSUME UNCHANGED <<ring, ring_head, ring_tail>> PROVE Contents' = Contents
BY DEF Contents, ring_used

LEMMA EmptyQueue == ASSUME RingType, ring_used = 0 PROVE Contents = <<>>
<1>1. Contents \in Seq(0..(Tags - 1)) /\ Len(Contents) = 0
    BY SpokenType
<1> HIDE DEF Contents
<1> QED BY <1>1, EmptySeq

LEMMA QueueInit == Init => Queue!Init
<1> SUFFICES ASSUME Init PROVE Queue!Init
    OBVIOUS
<1>1. RingType /\ ring_used = 0
    <2>1. RingType
        BY RingSizes, TagsEven DEF Init, RingType
    <2> QED BY <2>1, UsedIs, DistanceIs, RingSizes DEF Init
<1>2. Contents = <<>>
    BY <1>1, EmptyQueue
<1> QED BY <1>2 DEF Init, Queue!Init

LEMMA QueueStep == IInv /\ IInv' /\ [Next]_vars => [Queue!Next]_(Queue!vars)
<1> SUFFICES ASSUME IInv, IInv', [Next]_vars PROVE Queue!Next \/ UNCHANGED Queue!vars
    OBVIOUS
<1>1. /\ RingType /\ UplinkType /\ CallBudget /\ FlagsAgree /\ next_tag \in 0..(Tags - 1)
      /\ call_mode \in BOOLEAN /\ streaming \in BOOLEAN /\ spoken \in Seq(0..(Tags - 1))
    BY TypeParts DEF IInv
<1>2. RingType'
    BY DEF IInv, TypeOK, RingType
<1>3. ring_used \in Nat /\ Contents \in Seq(0..(Tags - 1)) /\ Len(Contents) = ring_used
    BY <1>1, UsedIs, SpokenType
<1>4. ASSUME NEW rate \in Rates, NEW is_call \in BOOLEAN, StartPacket(rate, is_call)
      PROVE  Queue!Next
    <2>1. Contents' = <<>>
        <3>1. ring_used' = 0
            BY <1>1, <1>4, RingEmptied DEF StartPacket, start_session, RingType
        <3>2. Contents' = [i \in 1..0 |-> ring'[(ring_tail' + i - 1) % RingSize]]
            BY <3>1 DEF Contents
        <3> QED BY <3>2
    <2>2. faults' \in {faults, faults + 1}
        BY <1>4 DEF StartPacket, start_session, setup_i2s, Fault
    <2>3. Queue!Open
        BY <1>4, <2>1, <2>2 DEF Queue!Open, StartPacket, start_session
    <2> QED BY <2>3 DEF Queue!Next
<1>5. ASSUME StopPacket PROVE Queue!Next
    <2>1. Contents' = Contents
        BY <1>5, SameQueue DEF StopPacket, buffer
    <2>2. Queue!Close
        BY <1>5, <2>1 DEF Queue!Close, StopPacket
    <2> QED BY <2>2 DEF Queue!Next
<1>6. ASSUME NEW len \in PacketLens, AudioData(len) PROVE Queue!Next
    <2>1. /\ next_tag' = (next_tag + len) % Tags /\ spoken' = spoken
          /\ call_mode' = call_mode /\ streaming' = streaming
        BY <1>6 DEF AudioData, DataStored, DataDiscardsOldest, DataRefused, DataDropped, Sent,
                    session
    <2>2. Len(Queue!Chunk(len)) = len
        BY <1>1, LensBounded, RingSizes, ChunkIs
    <2>3. ASSUME faults' = faults, Contents' = Queue!Stored(Queue!Chunk(len)) PROVE Queue!Next
        <3>1. Queue!Offer(len)
            BY <2>1, <2>3 DEF Queue!Offer
        <3> QED BY <3>1 DEF Queue!Next
    <2>4. CASE DataStored(len)
        <3>1. /\ Contents' = Contents \o Queue!Chunk(len)
              /\ Len(Contents \o Queue!Chunk(len)) = ring_used + len
            BY <1>1, <2>4, StoredQueue DEF DataStored
        <3>2. ASSUME call_mode PROVE Contents' = Queue!Stored(Queue!Chunk(len))
            <4>1. ring_used + len <= CallLimit
                BY <1>1, <1>3, <2>4, <3>2, LensBounded, RingSizes
                   DEF DataStored, ring_free, CallBudget
            <4> QED BY <3>1, <3>2, <4>1 DEF Queue!Stored, Queue!Newest
        <3>3. ASSUME ~call_mode PROVE Contents' = Queue!Stored(Queue!Chunk(len))
            <4>1. streaming /\ ring_used + len <= RingSize - 1
                BY <1>3, <2>4, <3>3, LensBounded, RingSizes DEF DataStored, ring_free, Receiving
            <4> QED BY <1>3, <2>2, <3>1, <3>3, <4>1 DEF Queue!Stored
        <3>4. faults' = faults
            BY <2>4 DEF DataStored
        <3> QED BY <1>1, <2>3, <3>2, <3>3, <3>4
    <2>5. CASE DataDiscardsOldest(len)
        <3>1. Contents' = Queue!Newest(Contents \o Queue!Chunk(len), CallLimit)
            BY <1>1, <2>5, DiscardedQueue DEF DataDiscardsOldest, CallBudget
        <3>2. call_mode /\ faults' = faults
            BY <2>5 DEF DataDiscardsOldest
        <3>3. Contents' = Queue!Stored(Queue!Chunk(len))
            BY <3>1, <3>2 DEF Queue!Stored
        <3> QED BY <2>3, <3>2, <3>3
    <2>6. CASE DataRefused(len)
        <3>1. Contents' = Contents
            BY <2>6, SameQueue DEF DataRefused, buffer
        <3>2. streaming /\ ~call_mode /\ faults' = faults
            BY <2>6 DEF DataRefused
        <3>3. ~(ring_used + len <= RingSize - 1)
            BY <1>3, <2>6, <3>2, LensBounded, RingSizes DEF DataRefused, ring_free
        <3>4. Contents' = Queue!Stored(Queue!Chunk(len))
            BY <1>3, <2>2, <3>1, <3>2, <3>3 DEF Queue!Stored
        <3> QED BY <2>3, <3>2, <3>4
    <2>7. CASE DataDropped(len)
        <3>1. Contents' = Contents
            BY <2>7, SameQueue DEF DataDropped, buffer
        <3>2. CASE Receiving
            <4>1. faults' = faults + 1
                BY <2>7, <3>2 DEF DataDropped, Fault
            <4>2. Queue!Lost(len)
                BY <2>1, <3>1, <4>1 DEF Queue!Lost
            <4> QED BY <4>2 DEF Queue!Next
        <3>3. CASE ~Receiving
            <4>1. faults' = faults /\ ~streaming /\ ~call_mode
                BY <2>7, <3>3 DEF DataDropped, Receiving
            <4>2. Contents' = Queue!Stored(Queue!Chunk(len))
                BY <3>1, <4>1 DEF Queue!Stored
            <4> QED BY <2>3, <4>1, <4>2
        <3> QED BY <3>2, <3>3
    <2> QED BY <1>6, <2>4, <2>5, <2>6, <2>7 DEF AudioData
<1>7. ASSUME Drain PROVE Queue!Next
    <2> DEFINE n == IF ring_used < DrainMax THEN ring_used ELSE DrainMax
    <2>1. call_mode' = call_mode /\ streaming' = streaming /\ next_tag' = next_tag
          /\ UNCHANGED <<ring, ring_head, faults>>
        BY <1>7 DEF Drain, session
    <2>2. n \in 0..ring_used
        BY <1>1, DrainTakes
    <2>3. CASE i2s_running /\ (streaming \/ ring_used > 0)
        <3>1. ring_tail' = (ring_tail + n) % RingSize /\ spoken' = SubSeq(Contents, 1, n - (n % 2))
            BY <1>7, <2>3 DEF Drain
        <3> HIDE DEF n
        <3>2. Contents' = SubSeq(Contents, n + 1, Len(Contents))
            BY <1>1, <1>3, <2>1, <2>2, <3>1, TakenQueue
        <3>3. CASE n = 0
            <4>1. SubSeq(Contents, 1, 0) = <<>>
                BY SubSeqEmpty
            <4>2. n - (n % 2) = 0
                BY <3>3
            <4>3. SubSeq(Contents, 1, Len(Contents)) = Contents
                BY <1>3, SubSeqFull
            <4>4. spoken' = <<>> /\ Contents' = Contents
                BY <3>1, <3>2, <3>3, <4>1, <4>2, <4>3
            <4> QED BY <2>1, <4>4 DEF Queue!Next, Queue!Played
        <3>4. CASE n # 0
            <4>1. n \in 1..Len(Contents)
                BY <1>3, <2>2, <3>4
            <4>2. Queue!Take
                BY <2>1, <3>1, <3>2, <4>1 DEF Queue!Take
            <4> QED BY <4>2 DEF Queue!Next
        <3> QED BY <3>3, <3>4
    <2>4. CASE ~(i2s_running /\ (streaming \/ ring_used > 0))
        <3>1. spoken' = <<>> /\ Contents' = Contents
            BY <1>7, <2>1, <2>4, SameQueue DEF Drain
        <3> QED BY <2>1, <3>1 DEF Queue!Next, Queue!Played
    <2> QED BY <2>3, <2>4
<1>8. ASSUME Capture PROVE Queue!Next
    <2>1. Contents' = Contents
        BY <1>8, SameQueue DEF Capture, buffer
    <2>2. Queue!Played
        BY <1>8, <2>1 DEF Queue!Played, Capture, session
    <2> QED BY <2>2 DEF Queue!Next
<1>9. ASSUME NewStream PROVE Queue!Next
    <2>1. Contents' = Contents
        BY <1>9, SameQueue DEF NewStream, buffer
    <2>2. Queue!Restream
        BY <1>9, <2>1 DEF Queue!Restream, NewStream, session
    <2> QED BY <2>2 DEF Queue!Next
<1>10. ASSUME NEW ok \in BOOLEAN, Reboot(ok) PROVE Queue!Next
    <2>1. Contents' = <<>>
        <3>1. ring_used' = 0
            BY <1>2, <1>10, RingEmptied DEF Reboot, RingType
        <3>2. Contents' = [i \in 1..0 |-> ring'[(ring_tail' + i - 1) % RingSize]]
            BY <3>1 DEF Contents
        <3> QED BY <3>2
    <2>2. Queue!Reset
        BY <1>10, <2>1 DEF Queue!Reset, Reboot, Fault
    <2> QED BY <2>2 DEF Queue!Next
<1>11. ASSUME Parsed \/ Show \/ LuckfoxReads \/ UNCHANGED vars PROVE UNCHANGED Queue!vars
    <2>1. Contents' = Contents
        BY <1>11, SameQueue DEF Parsed, Show, LuckfoxReads, vars, buffer
    <2>2. UNCHANGED <<call_mode, streaming, next_tag, spoken, faults>>
        BY <1>11 DEF Parsed, Show, LuckfoxReads, vars, session
    <2> QED BY <2>1, <2>2 DEF Queue!vars
<1>12. ASSUME LuckfoxDrops PROVE Queue!Next
    <2>1. Contents' = Contents
        BY <1>12, SameQueue DEF LuckfoxDrops, buffer
    <2>2. Queue!Elsewhere
        BY <1>12, <2>1 DEF Queue!Elsewhere, LuckfoxDrops, session, Fault
    <2> QED BY <2>2 DEF Queue!Next
<1> QED BY <1>4, <1>5, <1>6, <1>7, <1>8, <1>9, <1>10, <1>11, <1>12 DEF Next

\* The ring of the firmware, with its wrapped indices, its free slot, its limit in a call and
\* its discards, implements the queue: no byte is overwritten, repeated or reordered, and none
\* is lost but for want of room in playback, to newer ones in a call, or to a fault.
THEOREM ImplementsQueue == Spec => RingIsQueue
<1>1. Init => Queue!Init
    BY QueueInit
<1>2. IInv /\ IInv' /\ [Next]_vars => [Queue!Next]_(Queue!vars)
    BY QueueStep
<1> QED BY <1>1, <1>2, Invariant, PTL DEF Spec, RingIsQueue, Queue!Spec

---------------------------------------------------------------------------
(* Whole samples.                                                          *)

\* Division with remainder: the remainder is the only one.
LEMMA Divided ==
    ASSUME NEW R \in Nat \ {0}, NEW x \in Int
    PROVE  x \div R \in Int /\ x % R = x - R * (x \div R)
<1>1. x \div R \in Int
    OBVIOUS
<1>2. x % R = x - R * (x \div R)
    BY Z3T(60)
<1> QED BY <1>1, <1>2

LEMMA OneRemainder ==
    ASSUME NEW R \in Nat \ {0}, NEW q \in Int, NEW r \in 0..(R - 1),
           NEW p \in Int, NEW s \in 0..(R - 1), R * q + r = R * p + s
    PROVE  r = s
<1>1. R * (q - p) = s - r
    OBVIOUS
<1>2. ~(q - p >= 1)
    <2> SUFFICES ASSUME q - p >= 1 PROVE FALSE
        OBVIOUS
    <2>1. R * (q - p) >= R
        OBVIOUS
    <2> QED BY <1>1, <2>1
<1>3. ~(q - p <= -1)
    <2> SUFFICES ASSUME q - p <= -1 PROVE FALSE
        OBVIOUS
    <2>1. R * (q - p) <= -R
        OBVIOUS
    <2> QED BY <1>1, <2>1
<1> QED BY <1>1, <1>2, <1>3

LEMMA DoubleProduct == ASSUME NEW h \in Int, NEW q \in Int PROVE h * q \in Int /\ (2 * h) * q = 2 * (h * q)
    OBVIOUS

\* Both bytes of a sample stay together where places are counted modulo an even number.
LEMMA EvenRemainder ==
    ASSUME NEW R \in Nat \ {0}, R % 2 = 0, NEW x \in Nat, x % 2 = 0
    PROVE  (x % R) % 2 = 0 /\ (x + 1) % R = (x % R) + 1
<1>1. PICK q, r : q = x \div R /\ r = x % R
    OBVIOUS
<1>2. q \in Int /\ r \in 0..(R - 1) /\ r = x - R * q
    BY <1>1, Divided
<1>3. PICK h \in Int : R = 2 * h
    <2>1. R = 2 * (R \div 2) /\ R \div 2 \in Int
        OBVIOUS
    <2> QED BY <2>1
<1>4. PICK k : k = h * q
    OBVIOUS
<1>5. k \in Int /\ R * q = 2 * k
    BY <1>2, <1>3, <1>4, DoubleProduct
<1>6. r = x - 2 * k
    BY <1>2, <1>5
<1>7. r % 2 = 0 /\ r + 1 \in 0..(R - 1)
    BY <1>2, <1>3, <1>5, <1>6
<1>8. PICK y : y = x + 1
    OBVIOUS
<1>9. PICK p, s : p = y \div R /\ s = y % R
    OBVIOUS
<1>10. p \in Int /\ s \in 0..(R - 1) /\ s = y - R * p
    BY <1>8, <1>9, Divided
<1>11. R * q + (r + 1) = R * p + s
    <2>1. PICK a, b : a = R * q /\ b = R * p
        OBVIOUS
    <2>2. a \in Int /\ b \in Int
        BY <1>2, <1>10, <2>1
    <2> QED BY <1>2, <1>8, <1>10, <2>1, <2>2
<1>12. r + 1 = s
    BY <1>2, <1>7, <1>10, <1>11, OneRemainder
<1> QED BY <1>1, <1>7, <1>8, <1>9, <1>12

\* A sequence of bytes is one of whole samples, low byte first.
WholeSamples(s) ==
    \A i \in 1..Len(s) : i % 2 = 1 => s[i] % 2 = 0 /\ i < Len(s) /\ s[i + 1] = s[i] + 1

Bytes == Seq(0..(Tags - 1))

LEMMA WholeIsEven == ASSUME NEW s \in Bytes, WholeSamples(s) PROVE Len(s) % 2 = 0
<1>1. Len(s) \in Nat
    BY DEF Bytes
<1>2. ~(Len(s) % 2 = 1)
    <2> SUFFICES ASSUME Len(s) % 2 = 1 PROVE FALSE
        OBVIOUS
    <2>1. Len(s) \in 1..Len(s)
        BY <1>1
    <2> QED BY <1>1, <2>1 DEF WholeSamples
<1> QED BY <1>1, <1>2

LEMMA WholeChunk ==
    ASSUME NEW place \in 0..(Tags - 1), place % 2 = 0, NEW len \in Nat, len % 2 = 0
    PROVE  /\ WholeSamples([i \in 1..len |-> (place + i - 1) % Tags])
           /\ (place + len) % Tags \in 0..(Tags - 1) /\ ((place + len) % Tags) % 2 = 0
<1>1. Tags \in Nat \ {0} /\ Tags % 2 = 0
    BY TagsEven
<1> DEFINE c == [i \in 1..len |-> (place + i - 1) % Tags]
<1>2. Len(c) = len
    OBVIOUS
<1>3. ASSUME NEW i \in 1..len, i % 2 = 1
      PROVE  c[i] % 2 = 0 /\ i < len /\ c[i + 1] = c[i] + 1
    <2>1. PICK x : x = place + i - 1
        OBVIOUS
    <2>2. x \in Nat /\ x % 2 = 0 /\ i < len /\ place + (i + 1) - 1 = x + 1
        BY <1>1, <1>3, <2>1
    <2>3. (x % Tags) % 2 = 0 /\ (x + 1) % Tags = (x % Tags) + 1
        BY <1>1, <2>2, EvenRemainder
    <2>4. i + 1 \in 1..len
        BY <2>2
    <2>5. c[i] = x % Tags /\ c[i + 1] = (x + 1) % Tags
        BY <2>1, <2>2, <2>4
    <2> QED BY <2>2, <2>3, <2>5
<1>4. WholeSamples(c)
    <2> HIDE DEF c
    <2> QED BY <1>2, <1>3 DEF WholeSamples
<1>5. (place + len) % Tags \in 0..(Tags - 1) /\ ((place + len) % Tags) % 2 = 0
    <2>1. PICK x : x = place + len
        OBVIOUS
    <2>2. x \in Nat /\ x % 2 = 0
        BY <1>1, <2>1
    <2>3. (x % Tags) % 2 = 0
        BY <1>1, <2>2, EvenRemainder
    <2>4. x % Tags \in 0..(Tags - 1)
        BY <1>1, <2>2
    <2> QED BY <2>1, <2>3, <2>4
<1> QED BY <1>4, <1>5

LEMMA WholeAppend ==
    ASSUME NEW s \in Bytes, NEW t \in Bytes, WholeSamples(s), WholeSamples(t)
    PROVE  WholeSamples(s \o t) /\ s \o t \in Bytes
<1>1. Len(s) \in Nat /\ Len(t) \in Nat /\ Len(s) % 2 = 0
    BY WholeIsEven DEF Bytes
<1>2. s \o t \in Bytes /\ Len(s \o t) = Len(s) + Len(t)
    BY DEF Bytes
<1>3. \A i \in 1..(Len(s) + Len(t)) : (s \o t)[i] = IF i <= Len(s) THEN s[i] ELSE t[i - Len(s)]
    BY DEF Bytes
<1>4. ASSUME NEW i \in 1..(Len(s) + Len(t)), i % 2 = 1
      PROVE  /\ (s \o t)[i] % 2 = 0 /\ i < Len(s) + Len(t)
             /\ (s \o t)[i + 1] = (s \o t)[i] + 1
    <2>1. CASE i <= Len(s)
        <3>1. s[i] % 2 = 0 /\ i < Len(s) /\ s[i + 1] = s[i] + 1
            BY <1>1, <1>4, <2>1 DEF WholeSamples
        <3>2. i + 1 \in 1..(Len(s) + Len(t)) /\ i + 1 <= Len(s)
            BY <1>1, <3>1
        <3> QED BY <1>1, <1>3, <2>1, <3>1, <3>2
    <2>2. CASE i > Len(s)
        <3>1. PICK j : j = i - Len(s)
            OBVIOUS
        <3>2. j \in 1..Len(t) /\ j % 2 = 1
            BY <1>1, <1>4, <2>2, <3>1
        <3>3. t[j] % 2 = 0 /\ j < Len(t) /\ t[j + 1] = t[j] + 1
            BY <3>2 DEF WholeSamples
        <3>4. i + 1 \in 1..(Len(s) + Len(t)) /\ ~(i + 1 <= Len(s)) /\ i + 1 - Len(s) = j + 1
            BY <1>1, <2>2, <3>1, <3>2, <3>3
        <3> QED BY <1>1, <1>3, <2>2, <3>1, <3>3, <3>4
    <2> QED BY <1>1, <2>1, <2>2
<1> QED BY <1>1, <1>2, <1>4 DEF WholeSamples

LEMMA WholePart ==
    ASSUME NEW s \in Bytes, WholeSamples(s), NEW a \in 0..Len(s), NEW b \in 0..Len(s),
           a % 2 = 0, b % 2 = 0
    PROVE  WholeSamples(SubSeq(s, a + 1, b)) /\ SubSeq(s, a + 1, b) \in Bytes
<1>1. Len(s) \in Nat
    BY DEF Bytes
<1> DEFINE t == SubSeq(s, a + 1, b)
<1>2. t \in Bytes /\ Len(t) = (IF a <= b THEN b - a ELSE 0)
      /\ \A i \in 1..Len(t) : t[i] = s[a + i]
    <2>1. t = [i \in 1..(IF a <= b THEN b - a ELSE 0) |-> s[a + i]]
        <3>1. t = [i \in 1..(IF a + 1 <= b THEN b - (a + 1) + 1 ELSE 0) |-> s[i + (a + 1) - 1]]
            BY <1>1 DEF Bytes
        <3>2. \A i \in Int : i + (a + 1) - 1 = a + i
            BY <1>1
        <3> QED BY <1>1, <3>1, <3>2
    <2>2. \A i \in 1..(IF a <= b THEN b - a ELSE 0) : s[a + i] \in 0..(Tags - 1)
        <3>1. \A k \in 1..Len(s) : s[k] \in 0..(Tags - 1)
            BY ElementOfSeq DEF Bytes
        <3>2. \A i \in 1..(IF a <= b THEN b - a ELSE 0) : a + i \in 1..Len(s)
            BY <1>1
        <3> QED BY <3>1, <3>2
    <2> QED BY <1>1, <2>1, <2>2 DEF Bytes
<1> HIDE DEF t
<1>3. ASSUME NEW i \in 1..Len(t), i % 2 = 1
      PROVE  t[i] % 2 = 0 /\ i < Len(t) /\ t[i + 1] = t[i] + 1
    <2>1. PICK j : j = a + i
        OBVIOUS
    <2>2. i < Len(t) /\ i + 1 \in 1..Len(t) /\ j \in 1..Len(s) /\ j % 2 = 1 /\ a + (i + 1) = j + 1
        BY <1>1, <1>2, <1>3, <2>1
    <2>3. s[j] % 2 = 0 /\ s[j + 1] = s[j] + 1
        BY <2>2 DEF WholeSamples
    <2> QED BY <1>2, <2>1, <2>2, <2>3
<1>4. WholeSamples(t)
    BY <1>3 DEF WholeSamples
<1> QED BY <1>2, <1>4 DEF t

\* The ring holds whole samples, the next byte that comes is a low one, and the speaker plays
\* whole samples.
Whole == WholeSamples(Contents) /\ next_tag % 2 = 0 /\ WholeSamples(spoken)

WholePackets == \A len \in PacketLens : len % 2 = 0

LEMMA NothingIsWhole == WholeSamples(<<>>)
    BY DEF WholeSamples

LEMMA WholeInit == Init => Whole
<1> SUFFICES ASSUME Init PROVE Whole
    OBVIOUS
<1>1. Contents = <<>> /\ next_tag = 0 /\ spoken = <<>>
    BY QueueInit DEF Init, Queue!Init
<1> QED BY <1>1, NothingIsWhole DEF Whole

\* Storing a packet, with or without a discard, keeps samples whole.
LEMMA WholeData ==
    ASSUME WholePackets, IInv, Whole, NEW len \in PacketLens, AudioData(len)
    PROVE  Whole'
<1>1. /\ RingType /\ CallBudget /\ next_tag \in 0..(Tags - 1) /\ call_mode \in BOOLEAN
      /\ ring_used \in Nat
    BY TypeParts, UsedIs DEF IInv
<1>2. /\ len \in Nat /\ len % 2 = 0 /\ len <= CallLimit /\ CallLimit \in Nat /\ CallLimit % 2 = 0
    BY LensBounded, RingSizes DEF WholePackets
<1>3. Contents \in Bytes /\ WholeSamples(Contents) /\ next_tag % 2 = 0 /\ WholeSamples(spoken)
    <2>1. Contents \in Bytes
        <3>1. 0 \in 0..ring_used
            BY <1>1
        <3> QED BY <1>1, <3>1, SpokenType DEF Bytes
    <2> QED BY <2>1 DEF Whole
<1>4. PICK c : c = Queue!Chunk(len)
    OBVIOUS
<1>5. c \in Bytes /\ WholeSamples(c)
    <2>1. c = [i \in 1..len |-> (next_tag + i - 1) % Tags]
        BY <1>4 DEF Queue!Chunk
    <2>2. WholeSamples(c)
        BY <1>1, <1>2, <1>3, <2>1, WholeChunk
    <2> QED BY <1>1, <1>2, <1>4, <2>2, ChunkIs DEF Bytes
<1>6. WholeSamples(Contents \o c) /\ Contents \o c \in Bytes
    BY <1>3, <1>5, WholeAppend
<1>7. next_tag' = (next_tag + len) % Tags /\ spoken' = spoken
    BY DEF AudioData, DataStored, DataDiscardsOldest, DataRefused, DataDropped, Sent, session
<1>8. ((next_tag + len) % Tags) % 2 = 0
    BY <1>1, <1>2, <1>3, WholeChunk
<1>9. WholeSamples(Contents')
    <2>1. CASE DataStored(len)
        <3>1. Contents' = Contents \o c
            BY <1>1, <1>4, <2>1, StoredQueue DEF DataStored
        <3> QED BY <1>6, <3>1
    <2>2. CASE DataDiscardsOldest(len)
        <3>1. Contents' = Queue!Newest(Contents \o c, CallLimit)
            BY <1>1, <1>4, <2>2, DiscardedQueue DEF DataDiscardsOldest, CallBudget
        <3>2. PICK s, n : s = Contents \o c /\ n = Len(s)
            OBVIOUS
        <3>3. s \in Bytes /\ WholeSamples(s) /\ n \in Nat /\ n % 2 = 0
            <4>1. s \in Bytes /\ WholeSamples(s)
                BY <1>6, <3>2
            <4>2. Len(s) % 2 = 0 /\ Len(s) \in Nat
                BY <4>1, WholeIsEven, LenProperties DEF Bytes
            <4> QED BY <3>2, <4>1, <4>2
        <3>4. CASE n <= CallLimit
            BY <3>1, <3>2, <3>3, <3>4 DEF Queue!Newest
        <3>5. CASE ~(n <= CallLimit)
            <4>1. PICK a : a = n - CallLimit
                OBVIOUS
            <4>2. a \in 0..n /\ a % 2 = 0 /\ n \in 0..n /\ n - CallLimit + 1 = a + 1
                BY <1>2, <3>3, <3>5, <4>1
            <4>3. WholeSamples(SubSeq(s, a + 1, n))
                BY <3>2, <3>3, <4>2, WholePart
            <4>4. Contents' = SubSeq(s, a + 1, n)
                BY <3>1, <3>2, <3>5, <4>2 DEF Queue!Newest
            <4> QED BY <4>3, <4>4
        <3> QED BY <3>4, <3>5
    <2>3. CASE DataRefused(len) \/ DataDropped(len)
        <3>1. Contents' = Contents
            BY <2>3, SameQueue DEF DataRefused, DataDropped, buffer
        <3> QED BY <1>3, <3>1
    <2> QED BY <2>1, <2>2, <2>3 DEF AudioData
<1>10. next_tag' % 2 = 0 /\ WholeSamples(spoken')
    BY <1>3, <1>7, <1>8
<1> QED BY <1>9, <1>10 DEF Whole, WholeSamples

\* The drain takes an even number of bytes.
LEMMA WholeDrain == ASSUME IInv, Whole, Drain PROVE Whole'
<1> DEFINE n == IF ring_used < DrainMax THEN ring_used ELSE DrainMax
<1>1. /\ RingType /\ ring_used \in Nat /\ Contents \in Bytes /\ Len(Contents) = ring_used
    BY TypeParts, UsedIs, SpokenType DEF IInv, Bytes
<1>2. WholeSamples(Contents) /\ ring_used % 2 = 0 /\ next_tag % 2 = 0
    BY <1>1, WholeIsEven DEF Whole
<1>3. n \in 0..ring_used /\ n % 2 = 0 /\ n - (n % 2) = n
    BY <1>1, <1>2, RingSizes
<1>4. next_tag' = next_tag /\ UNCHANGED <<ring, ring_head>>
    BY DEF Drain, session
<1>5. WholeSamples(Contents') /\ WholeSamples(spoken')
    <2>1. CASE i2s_running /\ (streaming \/ ring_used > 0)
        <3>1. ring_tail' = (ring_tail + n) % RingSize /\ spoken' = SubSeq(Contents, 1, n - (n % 2))
            BY <2>1 DEF Drain
        <3> HIDE DEF n
        <3>2. Contents' = SubSeq(Contents, n + 1, Len(Contents))
            BY <1>1, <1>3, <1>4, <3>1, TakenQueue
        <3>3. Len(Contents) \in 0..Len(Contents) /\ n \in 0..Len(Contents)
              /\ 0 \in 0..Len(Contents) /\ Len(Contents) % 2 = 0
            BY <1>1, <1>2, <1>3
        <3>4. WholeSamples(SubSeq(Contents, n + 1, Len(Contents)))
            BY <1>1, <1>2, <1>3, <3>3, WholePart
        <3>5. WholeSamples(SubSeq(Contents, 1, n))
            <4>1. PICK z : z = 0
                OBVIOUS
            <4>2. z \in 0..Len(Contents) /\ z % 2 = 0 /\ z + 1 = 1
                BY <3>3, <4>1
            <4>3. WholeSamples(SubSeq(Contents, z + 1, n))
                BY <1>1, <1>2, <1>3, <3>3, <4>2, WholePart
            <4> QED BY <4>2, <4>3
        <3> QED BY <1>3, <3>1, <3>2, <3>4, <3>5
    <2>2. CASE ~(i2s_running /\ (streaming \/ ring_used > 0))
        <3>1. spoken' = <<>> /\ Contents' = Contents
            BY <1>4, <2>2, SameQueue DEF Drain
        <3> QED BY <1>2, <3>1, NothingIsWhole
    <2> QED BY <2>1, <2>2
<1> QED BY <1>2, <1>4, <1>5 DEF Whole, WholeSamples

LEMMA RingEmpty == ASSUME ring_used' = 0 PROVE Contents' = <<>>
<1>1. Contents' = [i \in 1..0 |-> ring'[(ring_tail' + i - 1) % RingSize]]
    BY DEF Contents
<1> QED BY <1>1

LEMMA WholeStep == WholePackets /\ IInv /\ IInv' /\ Whole /\ [Next]_vars => Whole'
<1> SUFFICES ASSUME WholePackets, IInv, IInv', Whole, [Next]_vars PROVE Whole'
    OBVIOUS
<1>1. RingType /\ RingType'
    BY DEF IInv, TypeOK, RingType
<1>2. WholeSamples(Contents) /\ next_tag % 2 = 0 /\ WholeSamples(spoken)
    BY DEF Whole
<1>3. ASSUME NEW rate \in Rates, NEW is_call \in BOOLEAN, StartPacket(rate, is_call) PROVE Whole'
    <2>1. ring_used' = 0 /\ next_tag' = 0 /\ spoken' = spoken
        BY <1>1, <1>3, RingEmptied DEF StartPacket, start_session, RingType
    <2>2. Contents' = <<>>
        BY <2>1, RingEmpty
    <2> QED BY <1>2, <2>1, <2>2, NothingIsWhole DEF Whole, WholeSamples
<1>4. ASSUME NEW len \in PacketLens, AudioData(len) PROVE Whole'
    BY <1>4, WholeData
<1>5. ASSUME Drain PROVE Whole'
    BY <1>5, WholeDrain
<1>6. ASSUME NEW ok \in BOOLEAN, Reboot(ok) PROVE Whole'
    <2>1. ring_used' = 0
        BY <1>1, <1>6, RingEmptied DEF Reboot, RingType
    <2>2. Contents' = <<>> /\ next_tag' = next_tag /\ spoken' = <<>>
        BY <1>6, <2>1, RingEmpty DEF Reboot
    <2> QED BY <1>2, <2>2, NothingIsWhole DEF Whole, WholeSamples
<1>7. ASSUME StopPacket \/ Capture \/ Parsed \/ NewStream \/ Show \/ LuckfoxReads
             \/ LuckfoxDrops \/ UNCHANGED vars
      PROVE  Whole'
    <2>1. Contents' = Contents
        BY <1>7, SameQueue DEF StopPacket, Capture, Parsed, NewStream, Show, LuckfoxReads,
                               LuckfoxDrops, vars, buffer
    <2>2. /\ next_tag' = next_tag \/ next_tag' = 0
          /\ spoken' = spoken \/ spoken' = <<>>
        BY <1>7 DEF StopPacket, Capture, Parsed, NewStream, Show, LuckfoxReads,
                    LuckfoxDrops, vars, session
    <2> QED BY <1>2, <2>1, <2>2, NothingIsWhole DEF Whole, WholeSamples
<1> QED BY <1>3, <1>4, <1>5, <1>6, <1>7 DEF Next

\* When every packet carries whole samples, which is what the LuckFox cuts its streams into,
\* the speaker is given whole samples, low byte first: no wrap, no refusal, no discard in a
\* call and no drain cut short ever splits one.
THEOREM WholeSamplesPlayed == (\A len \in PacketLens : len % 2 = 0) => (Spec => []AlignedPlayback)
<1>1. Init => Whole
    BY WholeInit
<1>2. WholePackets /\ IInv /\ IInv' /\ Whole /\ [Next]_vars => Whole'
    BY WholeStep
<1>3. Whole => AlignedPlayback
    BY DEF Whole, WholeSamples, AlignedPlayback
<1>4. WholePackets => (Spec => []AlignedPlayback)
    <2> SUFFICES ASSUME WholePackets PROVE Spec => []AlignedPlayback
        OBVIOUS
    <2>1. IInv /\ IInv' /\ Whole /\ [Next]_vars => Whole'
        BY <1>2
    <2> QED BY <1>1, <1>3, <2>1, Invariant, PTL DEF Spec
<1> QED BY <1>4 DEF WholePackets
=============================================================================

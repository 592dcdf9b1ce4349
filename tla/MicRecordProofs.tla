---------------------------- MODULE MicRecordProofs ----------------------------
(***************************************************************************)
(* Theorems about MicRecord, for every set of rates, length of the wire    *)
(* and number of chunks.                                                   *)
(***************************************************************************)
EXTENDS MicRecord, SequenceTheorems, TLAPS

---------------------------------------------------------------------------
(* The inductive invariant.                                                *)

Packet == ({"MIC_START"} \X Rates) \cup ({"MIC_DATA"} \X Nat) \cup ({"MIC_STOP"} \X {0})

TypeOK ==
    /\ session \in Rates \cup {0} /\ made \in Seq(Rates) /\ wire \in Seq(Packet)
    /\ recording \in BOOLEAN /\ pcm_buf \in Seq(Nat)
    /\ wav \in [samples : SUBSET Rates, rate : Nat, mixed : BOOLEAN]
    /\ listener \in [at : {"off", "added", "told"}, rate : Nat, stale : BOOLEAN]
    /\ sample_rate \in Nat /\ handled \in Nat /\ from \in Nat /\ due \in Nat
    /\ undisturbed \in BOOLEAN /\ mixed \in BOOLEAN

\* Chunk n is on wire w.
Carries(w, n) == \E i \in 1..Len(w) : w[i] = <<"MIC_DATA", n>>

\* The chunks on wire w are those after chunk h, up to chunk m, in their order.
InOrder(w, h, m) ==
    /\ \A n \in Nat : Carries(w, n) <=> h < n /\ n <= m
    /\ \A i, j \in 1..Len(w) :
          i < j /\ w[i][1] = "MIC_DATA" /\ w[j][1] = "MIC_DATA" => w[i][2] < w[j][2]

\* A reader that has rate s will have rate r when it comes to place i of wire w.
Told(w, s, i, r) ==
    \/ s = r /\ \A k \in 1..(i - 1) : w[k][1] # "MIC_START"
    \/ \E j \in 1..(i - 1) : /\ w[j] = <<"MIC_START", r>>
                             /\ \A k \in (j + 1)..(i - 1) : w[k][1] # "MIC_START"

\* Every chunk meets the rate it was captured at, and so will the next one.
RatesMeet(w, s, m, now) ==
    /\ \A i \in 1..Len(w) : w[i][1] = "MIC_DATA" => Told(w, s, i, m[w[i][2]])
    /\ now # 0 => Told(w, s, Len(w) + 1, now)

\* Chunk n is in the recording, or was dropped.
Taken(buf, gone, n) == n \in gone \/ \E i \in 1..Len(buf) : buf[i] = n

\* The recording is in order and holds what it should, up to its last chunk, and up to the last
\* chunk handled unless it was stopped.
Whole(buf, rec, f, h, gone) ==
    /\ \A i, j \in 1..Len(buf) : i < j => buf[i] < buf[j]
    /\ \A i \in 1..Len(buf) : f <= buf[i] /\ buf[i] <= h /\ buf[i] \notin gone
    /\ rec => \A n \in f..h : Taken(buf, gone, n)
    /\ buf # <<>> => \A n \in f..buf[Len(buf)] : Taken(buf, gone, n)

\* Nothing is dropped before it came, and a recording begins at the next chunk.
Gone == lost \subseteq 1..handled /\ 1 <= from /\ from <= handled + 1

\* The recording goes on when no stop came in between.
GoesOn == undisturbed => recording /\ \A i \in 1..Len(wire) : wire[i][1] # "MIC_STOP"

\* What was recorded or made into a WAV since the last session began has its rate.
SameRate ==
    /\ ~mixed => \A i \in 1..Len(pcm_buf) : made[pcm_buf[i]] = sample_rate
    /\ wav.rate = 0 /\ ~wav.mixed => wav.samples \subseteq {sample_rate}
    /\ listener.at = "told" /\ ~listener.stale => listener.rate = sample_rate

Inv ==
    /\ TypeOK
    /\ handled <= Len(made) /\ InOrder(wire, handled, Len(made))
    /\ RatesMeet(wire, due, made, session)
    /\ Whole(pcm_buf, recording, from, handled, lost) /\ Gone
    /\ GoesOn
    /\ SameRate
    /\ WavRate

---------------------------------------------------------------------------
(* The wire.                                                               *)

\* What is at each place after a packet was sent, and after one was handled.
LEMMA SentPlaces ==
    ASSUME NEW S, NEW w \in Seq(S), NEW e \in S
    PROVE  /\ Append(w, e) \in Seq(S) /\ Len(Append(w, e)) = Len(w) + 1
           /\ \A i \in 1..Len(w) : Append(w, e)[i] = w[i]
           /\ Append(w, e)[Len(w) + 1] = e
           /\ Append(w, e) # <<>>
OBVIOUS

LEMMA HandledPlaces ==
    ASSUME NEW S, NEW w \in Seq(S), w # <<>>
    PROVE  /\ Tail(w) \in Seq(S) /\ Len(Tail(w)) \in Nat /\ Len(w) = Len(Tail(w)) + 1
           /\ \A i \in 1..Len(Tail(w)) : Tail(w)[i] = w[i + 1]
           /\ Head(w) = w[1] /\ w[1] \in S
OBVIOUS

\* A packet's type and what it carries.
LEMMA PacketIs ==
    ASSUME NEW e \in Packet
    PROVE  /\ e = <<e[1], e[2]>> /\ e[1] \in {"MIC_START", "MIC_DATA", "MIC_STOP"}
           /\ e[1] = "MIC_START" => e[2] \in Rates
           /\ e[1] = "MIC_DATA" => e[2] \in Nat
BY DEF Packet

\* A chunk on the wire has its place there.
LEMMA CarriedAt ==
    ASSUME NEW w \in Seq(Packet), NEW i \in 1..Len(w), w[i][1] = "MIC_DATA"
    PROVE  w[i][2] \in Nat /\ Carries(w, w[i][2])
<1>1. w[i] \in Packet  BY ElementOfSeq
<1>. QED  BY <1>1, PacketIs DEF Carries

\* The next chunk goes to the end of the wire.
LEMMA ChunkSent ==
    ASSUME NEW w \in Seq(Packet), NEW h \in Nat, NEW m \in Nat, h <= m, InOrder(w, h, m)
    PROVE  InOrder(Append(w, <<"MIC_DATA", m + 1>>), h, m + 1)
<1> DEFINE e == <<"MIC_DATA", m + 1>>
           v == Append(w, e)
<1>0. e \in Packet /\ Len(w) \in Nat  BY DEF Packet
<1>1. /\ Len(v) = Len(w) + 1 /\ v[Len(w) + 1] = e /\ \A i \in 1..Len(w) : v[i] = w[i]
  BY <1>0, SentPlaces
<1>2. e[1] = "MIC_DATA" /\ e[2] = m + 1  OBVIOUS
<1> HIDE DEF v
<1>3. \A n \in Nat : Carries(v, n) <=> Carries(w, n) \/ n = m + 1
  <2> TAKE n \in Nat
  <2>1. CASE Carries(w, n)
    <3>1. PICK i \in 1..Len(w) : w[i] = <<"MIC_DATA", n>>  BY <2>1 DEF Carries
    <3>. QED  BY <1>0, <1>1, <2>1, <3>1 DEF Carries
  <2>2. ASSUME n = m + 1  PROVE Carries(v, n)
    BY <1>0, <1>1, <2>2 DEF Carries
  <2>3. ASSUME Carries(v, n), ~Carries(w, n)  PROVE n = m + 1
    <3>1. PICK i \in 1..Len(v) : v[i] = <<"MIC_DATA", n>>  BY <2>3 DEF Carries
    <3>2. i = Len(w) + 1  BY <1>0, <1>1, <2>3, <3>1 DEF Carries
    <3>. QED  BY <1>1, <3>1, <3>2
  <2>. QED  BY <2>1, <2>2, <2>3
<1>4. \A n \in Nat : Carries(v, n) <=> h < n /\ n <= m + 1
  BY <1>3 DEF InOrder
<1>5. ASSUME NEW i \in 1..Len(v), NEW j \in 1..Len(v), i < j, v[i][1] = "MIC_DATA",
             v[j][1] = "MIC_DATA"
      PROVE  v[i][2] < v[j][2]
  <2>1. i \in 1..Len(w)  BY <1>0, <1>1, <1>5
  <2>2. v[i] = w[i]  BY <1>1, <2>1
  <2>3. CASE j \in 1..Len(w)
    BY <1>1, <1>5, <2>1, <2>2, <2>3 DEF InOrder
  <2>4. CASE j = Len(w) + 1
    <3>1. w[i][2] \in Nat /\ Carries(w, w[i][2])  BY <1>5, <2>1, <2>2, CarriedAt
    <3>2. w[i][2] <= m  BY <3>1 DEF InOrder
    <3>. QED  BY <1>1, <1>2, <2>2, <2>4, <3>1, <3>2
  <2>. QED  BY <1>0, <1>1, <2>3, <2>4
<1>. QED  BY <1>4, <1>5 DEF InOrder, v

\* Another packet changes nothing for the chunks.
LEMMA OtherSent ==
    ASSUME NEW w \in Seq(Packet), NEW h \in Nat, NEW m \in Nat, InOrder(w, h, m),
           NEW e \in Packet, e[1] # "MIC_DATA"
    PROVE  InOrder(Append(w, e), h, m)
<1> DEFINE v == Append(w, e)
<1>1. /\ Len(w) \in Nat /\ Len(v) = Len(w) + 1 /\ v[Len(w) + 1] = e
      /\ \A i \in 1..Len(w) : v[i] = w[i]
  BY SentPlaces
<1> HIDE DEF v
<1>2. \A n \in Nat : Carries(v, n) <=> Carries(w, n)
  <2> TAKE n \in Nat
  <2>1. ASSUME Carries(w, n)  PROVE Carries(v, n)
    <3>1. PICK i \in 1..Len(w) : w[i] = <<"MIC_DATA", n>>  BY <2>1 DEF Carries
    <3>. QED  BY <1>1, <3>1 DEF Carries
  <2>2. ASSUME Carries(v, n)  PROVE Carries(w, n)
    <3>1. PICK i \in 1..Len(v) : v[i] = <<"MIC_DATA", n>>  BY <2>2 DEF Carries
    <3>2. v[i][1] = "MIC_DATA"  BY <3>1
    <3>3. i \in 1..Len(w)  BY <1>1, <3>2
    <3>. QED  BY <1>1, <3>1, <3>3 DEF Carries
  <2>. QED  BY <2>1, <2>2
<1>3. ASSUME NEW i \in 1..Len(v), NEW j \in 1..Len(v), i < j, v[i][1] = "MIC_DATA",
             v[j][1] = "MIC_DATA"
      PROVE  v[i][2] < v[j][2]
  <2>1. i \in 1..Len(w) /\ j \in 1..Len(w)  BY <1>1, <1>3
  <2>. QED  BY <1>1, <1>3, <2>1 DEF InOrder
<1>. QED  BY <1>2, <1>3 DEF InOrder, v

\* The order of the rest of the wire, and what is on it.
LEMMA RestInOrder ==
    ASSUME NEW w \in Seq(Packet), w # <<>>, NEW h \in Nat, NEW m \in Nat, InOrder(w, h, m)
    PROVE  /\ \A i, j \in 1..Len(Tail(w)) :
                 i < j /\ Tail(w)[i][1] = "MIC_DATA" /\ Tail(w)[j][1] = "MIC_DATA"
                    => Tail(w)[i][2] < Tail(w)[j][2]
           /\ \A n \in Nat : Carries(w, n) <=> w[1] = <<"MIC_DATA", n>> \/ Carries(Tail(w), n)
<1> DEFINE v == Tail(w)
<1>1. /\ Len(v) \in Nat /\ Len(w) = Len(v) + 1 /\ \A i \in 1..Len(v) : v[i] = w[i + 1]
  BY HandledPlaces
<1> HIDE DEF v
<1>2. \A i \in 1..Len(v) : i + 1 \in 1..Len(w)  BY <1>1
<1>3. ASSUME NEW i \in 1..Len(v), NEW j \in 1..Len(v), i < j, v[i][1] = "MIC_DATA",
             v[j][1] = "MIC_DATA"
      PROVE  v[i][2] < v[j][2]
  <2>1. i + 1 \in 1..Len(w) /\ j + 1 \in 1..Len(w) /\ i + 1 < j + 1  BY <1>2, <1>3
  <2>. QED  BY <1>1, <1>3, <2>1 DEF InOrder
<1>4. ASSUME NEW n \in Nat
      PROVE  Carries(w, n) <=> w[1] = <<"MIC_DATA", n>> \/ Carries(v, n)
  <2>1. ASSUME Carries(v, n)  PROVE Carries(w, n)
    <3>1. PICK i \in 1..Len(v) : v[i] = <<"MIC_DATA", n>>  BY <2>1 DEF Carries
    <3>. QED  BY <1>1, <1>2, <3>1 DEF Carries
  <2>2. ASSUME w[1] = <<"MIC_DATA", n>>  PROVE Carries(w, n)
    <3>1. 1 \in 1..Len(w)  BY <1>1
    <3>. QED  BY <2>2, <3>1 DEF Carries
  <2>3. ASSUME Carries(w, n)  PROVE w[1] = <<"MIC_DATA", n>> \/ Carries(v, n)
    <3>1. PICK i \in 1..Len(w) : w[i] = <<"MIC_DATA", n>>  BY <2>3 DEF Carries
    <3>2. CASE i = 1  BY <3>1, <3>2
    <3>3. CASE i # 1
      <4>1. i - 1 \in 1..Len(v) /\ (i - 1) + 1 = i  BY <1>1, <3>3
      <4>2. v[i - 1] = w[(i - 1) + 1]  BY <1>1, <4>1
      <4>. QED  BY <3>1, <4>1, <4>2 DEF Carries
    <3>. QED  BY <3>2, <3>3
  <2>. QED  BY <2>1, <2>2, <2>3
<1>. QED  BY <1>3, <1>4 DEF v

\* The chunk at the head of the wire is the next one.
LEMMA ChunkHandled ==
    ASSUME NEW w \in Seq(Packet), w # <<>>, NEW h \in Nat, NEW m \in Nat, InOrder(w, h, m),
           w[1][1] = "MIC_DATA"
    PROVE  /\ w[1][2] = h + 1 /\ h + 1 <= m
           /\ InOrder(Tail(w), h + 1, m)
<1>0. 1 \in 1..Len(w) /\ w[1] \in Packet  BY HandledPlaces
<1>1. PICK n \in Nat : n = w[1][2] /\ w[1] = <<"MIC_DATA", n>>  BY <1>0, PacketIs
<1>2. Carries(w, n)  BY <1>0, <1>1 DEF Carries
<1>3. h < n /\ n <= m  BY <1>2 DEF InOrder
<1>4. ASSUME NEW k \in Nat, Carries(Tail(w), k)  PROVE n < k
  <2>1. PICK i \in 1..Len(Tail(w)) : Tail(w)[i] = <<"MIC_DATA", k>>  BY <1>4 DEF Carries
  <2>2. /\ w[i + 1] = <<"MIC_DATA", k>> /\ i + 1 \in 1..Len(w) /\ 1 < i + 1
    BY <2>1, HandledPlaces
  <2>3. w[i + 1][1] = "MIC_DATA" /\ w[i + 1][2] = k  BY <2>2
  <2>. QED  BY <1>0, <1>1, <2>2, <2>3 DEF InOrder
<1>5. n = h + 1
  <2>1. h + 1 \in Nat /\ h < h + 1 /\ h + 1 <= m  BY <1>3
  <2>2. Carries(w, h + 1)  BY <2>1 DEF InOrder
  <2>3. CASE w[1] = <<"MIC_DATA", h + 1>>  BY <1>1, <2>3
  <2>4. CASE Carries(Tail(w), h + 1)  BY <1>3, <1>4, <2>1, <2>4
  <2>. QED  BY <2>1, <2>2, <2>3, <2>4, RestInOrder
<1>6. ASSUME NEW k \in Nat  PROVE Carries(Tail(w), k) <=> h + 1 < k /\ k <= m
  <2>1. Carries(w, k) <=> h < k /\ k <= m  BY DEF InOrder
  <2>2. Carries(w, k) <=> k = n \/ Carries(Tail(w), k)
    <3>1. Carries(w, k) <=> w[1] = <<"MIC_DATA", k>> \/ Carries(Tail(w), k)  BY RestInOrder
    <3>. QED  BY <1>1, <3>1
  <2>. QED  BY <1>3, <1>4, <1>5, <2>1, <2>2
<1>. QED  BY <1>1, <1>3, <1>5, <1>6, RestInOrder DEF InOrder

\* When another packet is handled, the same chunks are left.
LEMMA OtherHandled ==
    ASSUME NEW w \in Seq(Packet), w # <<>>, NEW h \in Nat, NEW m \in Nat, InOrder(w, h, m),
           w[1][1] # "MIC_DATA"
    PROVE  InOrder(Tail(w), h, m)
<1>1. \A n \in Nat : w[1] # <<"MIC_DATA", n>>  OBVIOUS
<1>2. \A n \in Nat : Carries(w, n) <=> Carries(Tail(w), n)  BY <1>1, RestInOrder
<1>. QED  BY <1>2, RestInOrder DEF InOrder

---------------------------------------------------------------------------
(* The rates that the reader will have.                                    *)

\* A packet at the end of the wire changes no rate before it.
LEMMA ToldBefore ==
    ASSUME NEW w \in Seq(Packet), NEW e \in Packet, NEW s, NEW r, NEW i \in 1..(Len(w) + 1),
           Told(w, s, i, r)
    PROVE  Told(Append(w, e), s, i, r)
<1> DEFINE v == Append(w, e)
<1>1. Len(w) \in Nat /\ \A k \in 1..Len(w) : v[k] = w[k]  BY SentPlaces
<1>2. \A k \in 1..(i - 1) : v[k] = w[k]  BY <1>1
<1> HIDE DEF v
<1>3. CASE s = r /\ \A k \in 1..(i - 1) : w[k][1] # "MIC_START"
  BY <1>2, <1>3 DEF Told
<1>4. CASE \E j \in 1..(i - 1) : /\ w[j] = <<"MIC_START", r>>
                                 /\ \A k \in (j + 1)..(i - 1) : w[k][1] # "MIC_START"
  <2>1. PICK j \in 1..(i - 1) : /\ w[j] = <<"MIC_START", r>>
                                /\ \A k \in (j + 1)..(i - 1) : w[k][1] # "MIC_START"
    BY <1>4
  <2>2. \A k \in (j + 1)..(i - 1) : k \in 1..(i - 1)  BY <1>1
  <2>. QED  BY <1>2, <2>1, <2>2 DEF Told
<1>. QED  BY <1>3, <1>4 DEF Told, v

\* After a packet that begins no session the rate is still what it was to be.
LEMMA ToldAfter ==
    ASSUME NEW w \in Seq(Packet), NEW e \in Packet, e[1] # "MIC_START", NEW s, NEW r,
           Told(w, s, Len(w) + 1, r)
    PROVE  Told(Append(w, e), s, Len(w) + 2, r)
<1> DEFINE v == Append(w, e)
           n == Len(w)
<1>1. n \in Nat /\ v[n + 1] = e /\ \A k \in 1..n : v[k] = w[k]  BY SentPlaces
<1> HIDE DEF v, n
<1>2. (n + 1) - 1 = n /\ (n + 2) - 1 = n + 1  BY <1>1
<1>3. CASE s = r /\ \A k \in 1..n : w[k][1] # "MIC_START"
  <2>1. \A k \in 1..(n + 1) : v[k][1] # "MIC_START"  BY <1>1, <1>3
  <2>. QED  BY <1>2, <1>3, <2>1 DEF Told, v, n
<1>4. CASE \E j \in 1..n : /\ w[j] = <<"MIC_START", r>>
                           /\ \A k \in (j + 1)..n : w[k][1] # "MIC_START"
  <2>1. PICK j \in 1..n : /\ w[j] = <<"MIC_START", r>>
                          /\ \A k \in (j + 1)..n : w[k][1] # "MIC_START"
    BY <1>4
  <2>2. \A k \in (j + 1)..(n + 1) : v[k][1] # "MIC_START"
    <3> TAKE k \in (j + 1)..(n + 1)
    <3>1. CASE k = n + 1  BY <1>1, <3>1
    <3>2. CASE k # n + 1
      <4>1. k \in (j + 1)..n /\ k \in 1..n  BY <1>1, <3>2
      <4>. QED  BY <1>1, <2>1, <4>1
    <3>. QED  BY <3>1, <3>2
  <2>3. j \in 1..(n + 1) /\ v[j] = <<"MIC_START", r>>  BY <1>1, <2>1
  <2>4. \E jj \in 1..(n + 1) : /\ v[jj] = <<"MIC_START", r>>
                               /\ \A k \in (jj + 1)..(n + 1) : v[k][1] # "MIC_START"
    BY <2>2, <2>3
  <2>. QED  BY <1>2, <2>4 DEF Told, v, n
<1>5. (s = r /\ \A k \in 1..n : w[k][1] # "MIC_START")
      \/ \E j \in 1..n : /\ w[j] = <<"MIC_START", r>>
                         /\ \A k \in (j + 1)..n : w[k][1] # "MIC_START"
  <2>1. Told(w, s, n + 1, r)  BY DEF n
  <2>. QED  BY <1>2, <2>1 DEF Told
<1>. QED  BY <1>3, <1>4, <1>5

\* After the packet that begins a session the rate is the session's.
LEMMA ToldBegin ==
    ASSUME NEW w \in Seq(Packet), NEW s, NEW r \in Rates
    PROVE  Told(Append(w, <<"MIC_START", r>>), s, Len(w) + 2, r)
<1> DEFINE e == <<"MIC_START", r>>
           v == Append(w, e)
           n == Len(w)
<1>0. e \in Packet  BY DEF Packet
<1>1. n \in Nat /\ v[n + 1] = e  BY <1>0, SentPlaces
<1> HIDE DEF v, n
<1>2. (n + 2) - 1 = n + 1 /\ n + 1 \in 1..(n + 1) /\ ((n + 1) + 1)..(n + 1) = {}  BY <1>1
<1>3. \E j \in 1..(n + 1) : /\ v[j] = <<"MIC_START", r>>
                            /\ \A k \in (j + 1)..(n + 1) : v[k][1] # "MIC_START"
  BY <1>1, <1>2
<1>. QED  BY <1>2, <1>3 DEF Told, v, n

\* The reader's rate after a packet.
RateAfter(e, s) == IF e[1] = "MIC_START" THEN e[2] ELSE s

\* What it was to have at a place it still has to have when one packet is handled.
LEMMA ToldRest ==
    ASSUME NEW w \in Seq(Packet), w # <<>>, NEW s, NEW r, NEW i \in 2..(Len(w) + 1),
           Told(w, s, i, r)
    PROVE  Told(Tail(w), RateAfter(w[1], s), i - 1, r)
<1> DEFINE v == Tail(w)
           q == RateAfter(w[1], s)
<1>1. /\ Len(v) \in Nat /\ Len(w) = Len(v) + 1 /\ \A k \in 1..Len(v) : v[k] = w[k + 1]
  BY HandledPlaces
<1> HIDE DEF v
<1>2. \A k \in 1..((i - 1) - 1) : k + 1 \in 1..(i - 1) /\ v[k] = w[k + 1]  BY <1>1
<1>3. 1 \in 1..(i - 1)  BY <1>1
<1>4. CASE s = r /\ \A k \in 1..(i - 1) : w[k][1] # "MIC_START"
  <2>1. q = r  BY <1>3, <1>4 DEF RateAfter
  <2>2. \A k \in 1..((i - 1) - 1) : v[k][1] # "MIC_START"  BY <1>2, <1>4
  <2>. QED  BY <2>1, <2>2 DEF Told, v
<1>5. CASE \E j \in 1..(i - 1) : /\ w[j] = <<"MIC_START", r>>
                                 /\ \A k \in (j + 1)..(i - 1) : w[k][1] # "MIC_START"
  <2>1. PICK j \in 1..(i - 1) : /\ w[j] = <<"MIC_START", r>>
                                /\ \A k \in (j + 1)..(i - 1) : w[k][1] # "MIC_START"
    BY <1>5
  <2>2. CASE j = 1
    <3>1. q = r  BY <2>1, <2>2 DEF RateAfter
    <3>2. \A k \in 1..((i - 1) - 1) : k + 1 \in (j + 1)..(i - 1)  BY <1>1, <2>2
    <3>3. \A k \in 1..((i - 1) - 1) : v[k][1] # "MIC_START"  BY <1>2, <2>1, <3>2
    <3>. QED  BY <3>1, <3>3 DEF Told, v
  <2>3. CASE j # 1
    <3>1. j - 1 \in 1..((i - 1) - 1) /\ (j - 1) + 1 = j  BY <1>1, <2>3
    <3>2. v[j - 1] = <<"MIC_START", r>>
      <4>1. v[j - 1] = w[(j - 1) + 1]  BY <1>2, <3>1
      <4>. QED  BY <2>1, <3>1, <4>1
    <3>3. \A k \in ((j - 1) + 1)..((i - 1) - 1) : v[k][1] # "MIC_START"
      <4> TAKE k \in ((j - 1) + 1)..((i - 1) - 1)
      <4>1. k \in 1..((i - 1) - 1) /\ k + 1 \in (j + 1)..(i - 1)  BY <1>1, <3>1
      <4>2. v[k] = w[k + 1]  BY <1>2, <4>1
      <4>. QED  BY <2>1, <4>1, <4>2
    <3>4. \E jj \in 1..((i - 1) - 1) :
              /\ v[jj] = <<"MIC_START", r>>
              /\ \A k \in (jj + 1)..((i - 1) - 1) : v[k][1] # "MIC_START"
      BY <3>1, <3>2, <3>3
    <3>. QED  BY <3>4 DEF Told, v
  <2>. QED  BY <2>2, <2>3
<1>. QED  BY <1>4, <1>5 DEF Told

\* The rate at the head of the wire is the one the reader has.
LEMMA ToldNow ==
    ASSUME NEW w, NEW s, NEW r, Told(w, s, 1, r)
    PROVE  s = r
BY DEF Told

\* The next chunk meets the rate of its session.
LEMMA RatesChunkSent ==
    ASSUME NEW w \in Seq(Packet), NEW s, NEW m \in Seq(Rates), NEW now \in Rates, 0 \notin Rates,
           RatesMeet(w, s, m, now),
           \A i \in 1..Len(w) : w[i][1] = "MIC_DATA" => w[i][2] \in 1..Len(m)
    PROVE  RatesMeet(Append(w, <<"MIC_DATA", Len(m) + 1>>), s, Append(m, now), now)
<1> DEFINE e == <<"MIC_DATA", Len(m) + 1>>
           v == Append(w, e)
           n == Append(m, now)
<1>0. e \in Packet  BY DEF Packet
<1>1. /\ Len(w) \in Nat /\ Len(v) = Len(w) + 1 /\ v[Len(w) + 1] = e
      /\ \A i \in 1..Len(w) : v[i] = w[i]
  BY <1>0, SentPlaces
<1>2. n[Len(m) + 1] = now /\ \A k \in 1..Len(m) : n[k] = m[k]  OBVIOUS
<1>3. Told(w, s, Len(w) + 1, now)  BY DEF RatesMeet
<1>4. Told(v, s, Len(w) + 1, now)
  <2>1. Len(w) + 1 \in 1..(Len(w) + 1)  BY <1>1
  <2>. QED  BY <1>0, <1>3, <2>1, ToldBefore
<1>5. Told(v, s, Len(w) + 2, now)
  <2>1. e[1] # "MIC_START"  OBVIOUS
  <2>. QED  BY <1>0, <1>3, <2>1, ToldAfter
<1>6. \A i \in 1..Len(w) : w[i][1] = "MIC_DATA" => Told(v, s, i, m[w[i][2]])
  <2> TAKE i \in 1..Len(w)
  <2>1. i \in 1..(Len(w) + 1)  BY <1>1
  <2>2. w[i][1] = "MIC_DATA" => Told(w, s, i, m[w[i][2]])  BY DEF RatesMeet
  <2>. QED  BY <1>0, <2>1, <2>2, ToldBefore
<1> HIDE DEF v, n
<1>7. ASSUME NEW i \in 1..Len(v), v[i][1] = "MIC_DATA"  PROVE Told(v, s, i, n[v[i][2]])
  <2>1. CASE i = Len(w) + 1
    <3>1. v[i][2] = Len(m) + 1  BY <1>1, <2>1
    <3>. QED  BY <1>2, <1>4, <2>1, <3>1
  <2>2. CASE i # Len(w) + 1
    <3>1. i \in 1..Len(w)  BY <1>1, <2>2
    <3>2. v[i] = w[i] /\ n[w[i][2]] = m[w[i][2]]  BY <1>1, <1>2, <1>7, <3>1
    <3>. QED  BY <1>6, <1>7, <3>1, <3>2
  <2>. QED  BY <2>1, <2>2
<1>8. Told(v, s, Len(v) + 1, now)
  <2>1. Len(v) + 1 = Len(w) + 2  BY <1>1
  <2>. QED  BY <1>5, <2>1
<1>. QED  BY <1>7, <1>8 DEF RatesMeet, v, n

\* Another packet keeps the rates, and begins or ends a session.
LEMMA RatesOtherSent ==
    ASSUME NEW w \in Seq(Packet), NEW s, NEW m, NEW e \in Packet, e[1] # "MIC_DATA",
           NEW old, RatesMeet(w, s, m, old),
           NEW now, now # 0 => Told(Append(w, e), s, Len(w) + 2, now)
    PROVE  RatesMeet(Append(w, e), s, m, now)
<1> DEFINE v == Append(w, e)
<1>1. /\ Len(w) \in Nat /\ Len(v) = Len(w) + 1 /\ v[Len(w) + 1] = e
      /\ \A i \in 1..Len(w) : v[i] = w[i]
  BY SentPlaces
<1>2. \A i \in 1..Len(w) : w[i][1] = "MIC_DATA" => Told(v, s, i, m[w[i][2]])
  <2> TAKE i \in 1..Len(w)
  <2>1. i \in 1..(Len(w) + 1)  BY <1>1
  <2>2. w[i][1] = "MIC_DATA" => Told(w, s, i, m[w[i][2]])  BY DEF RatesMeet
  <2>. QED  BY <2>1, <2>2, ToldBefore
<1>3. now # 0 => Told(v, s, Len(v) + 1, now)
  <2>1. Len(v) + 1 = Len(w) + 2  BY <1>1
  <2>. QED  BY <2>1
<1> HIDE DEF v
<1>4. ASSUME NEW i \in 1..Len(v), v[i][1] = "MIC_DATA"  PROVE Told(v, s, i, m[v[i][2]])
  <2>1. i \in 1..Len(w)  BY <1>1, <1>4
  <2>2. v[i] = w[i]  BY <1>1, <2>1
  <2>. QED  BY <1>2, <1>4, <2>1, <2>2
<1>. QED  BY <1>3, <1>4 DEF RatesMeet, v

\* The rates of the rest of the wire.
LEMMA RatesHandled ==
    ASSUME NEW w \in Seq(Packet), w # <<>>, NEW s, NEW m, NEW now, RatesMeet(w, s, m, now)
    PROVE  RatesMeet(Tail(w), RateAfter(w[1], s), m, now)
<1> DEFINE v == Tail(w)
<1>1. /\ Len(v) \in Nat /\ Len(w) = Len(v) + 1 /\ \A k \in 1..Len(v) : v[k] = w[k + 1]
  BY HandledPlaces
<1>2. ASSUME NEW i \in 1..Len(v), v[i][1] = "MIC_DATA"
      PROVE  Told(v, RateAfter(w[1], s), i, m[v[i][2]])
  <2>1. /\ i + 1 \in 1..Len(w) /\ i + 1 \in 2..(Len(w) + 1) /\ (i + 1) - 1 = i
        /\ v[i] = w[i + 1]
    BY <1>1
  <2>2. Told(w, s, i + 1, m[v[i][2]])  BY <1>2, <2>1 DEF RatesMeet
  <2>3. Told(v, RateAfter(w[1], s), (i + 1) - 1, m[v[i][2]])  BY <2>1, <2>2, ToldRest
  <2>. QED  BY <2>1, <2>3
<1>3. ASSUME now # 0  PROVE Told(v, RateAfter(w[1], s), Len(v) + 1, now)
  <2>1. Len(w) + 1 \in 2..(Len(w) + 1) /\ (Len(w) + 1) - 1 = Len(v) + 1  BY <1>1
  <2>2. Told(w, s, Len(w) + 1, now)  BY <1>3 DEF RatesMeet
  <2>3. Told(v, RateAfter(w[1], s), (Len(w) + 1) - 1, now)  BY <2>1, <2>2, ToldRest
  <2>. QED  BY <2>1, <2>3
<1> HIDE DEF v
<1>. QED  BY <1>2, <1>3 DEF RatesMeet, v

---------------------------------------------------------------------------
(* The recording.                                                          *)

\* A chunk added to the recording: the next one.
LEMMA Recorded ==
    ASSUME NEW buf \in Seq(Nat), NEW f \in Nat, NEW h \in Nat, NEW gone,
           Whole(buf, TRUE, f, h, gone),
           h + 1 \notin gone, f <= h + 1
    PROVE  /\ Append(buf, h + 1) \in Seq(Nat) /\ Len(Append(buf, h + 1)) = Len(buf) + 1
           /\ Whole(Append(buf, h + 1), TRUE, f, h + 1, gone)
           /\ \A i \in 1..Len(buf) : Append(buf, h + 1)[i] = buf[i]
           /\ Append(buf, h + 1)[Len(buf) + 1] = h + 1
<1> DEFINE b == Append(buf, h + 1)
           n == Len(buf)
<1>1. /\ b \in Seq(Nat) /\ n \in Nat /\ Len(b) = n + 1 /\ b[n + 1] = h + 1 /\ b # <<>>
      /\ \A i \in 1..n : b[i] = buf[i] /\ buf[i] \in Nat
  BY SentPlaces
<1>2. /\ \A i, j \in 1..n : i < j => buf[i] < buf[j]
      /\ \A i \in 1..n : f <= buf[i] /\ buf[i] <= h /\ buf[i] \notin gone
      /\ \A k \in f..h : k \in gone \/ \E i \in 1..n : buf[i] = k
  BY DEF Whole, Taken
<1> HIDE DEF b, n
<1>3. ASSUME NEW i \in 1..Len(b), NEW j \in 1..Len(b), i < j  PROVE b[i] < b[j]
  <2>1. i \in 1..n /\ b[i] = buf[i] /\ buf[i] \in Nat /\ buf[i] <= h  BY <1>1, <1>2, <1>3
  <2>2. CASE j = n + 1  BY <1>1, <2>1, <2>2
  <2>3. CASE j # n + 1
    <3>1. j \in 1..n  BY <1>1, <2>3
    <3>. QED  BY <1>1, <1>2, <1>3, <2>1, <3>1
  <2>. QED  BY <2>2, <2>3
<1>4. ASSUME NEW i \in 1..Len(b)  PROVE f <= b[i] /\ b[i] <= h + 1 /\ b[i] \notin gone
  <2>1. CASE i = n + 1  BY <1>1, <2>1
  <2>2. CASE i # n + 1
    <3>1. i \in 1..n  BY <1>1, <2>2
    <3>2. b[i] = buf[i] /\ buf[i] \in Nat  BY <1>1, <3>1
    <3>3. f <= buf[i] /\ buf[i] <= h /\ buf[i] \notin gone  BY <1>2, <3>1
    <3>. QED  BY <3>2, <3>3
  <2>. QED  BY <2>1, <2>2
<1>5. ASSUME NEW k \in f..(h + 1)  PROVE Taken(b, gone, k)
  <2>1. CASE k = h + 1
    <3>1. n + 1 \in 1..Len(b)  BY <1>1
    <3>. QED  BY <1>1, <2>1, <3>1 DEF Taken
  <2>2. CASE k # h + 1
    <3>1. k \in f..h  BY <2>2
    <3>2. CASE k \in gone  BY <3>2 DEF Taken
    <3>3. CASE \E i \in 1..n : buf[i] = k
      <4>1. PICK i \in 1..n : buf[i] = k  BY <3>3
      <4>2. i \in 1..Len(b) /\ b[i] = k  BY <1>1, <4>1
      <4>. QED  BY <4>2 DEF Taken
    <3>. QED  BY <1>2, <3>1, <3>2, <3>3
  <2>. QED  BY <2>1, <2>2
<1>6. Whole(b, TRUE, f, h + 1, gone)
  <2>1. b[Len(b)] = h + 1  BY <1>1
  <2>. QED  BY <1>3, <1>4, <1>5, <2>1 DEF Whole
<1>. QED  BY <1>1, <1>6 DEF b, n

\* A recording that goes on no longer still holds what it should.
LEMMA NotRecorded ==
    ASSUME NEW buf \in Seq(Nat), NEW rec, NEW f, NEW h \in Nat, NEW gone,
           Whole(buf, rec, f, h, gone)
    PROVE  Whole(buf, FALSE, f, h, gone) /\ Whole(buf, FALSE, f, h + 1, gone)
<1>1. \A i \in 1..Len(buf) : buf[i] \in Nat  OBVIOUS
<1>. QED  BY <1>1 DEF Whole

\* Nor does it lack more than the chunk that is dropped.
LEMMA RecordedLess ==
    ASSUME NEW buf \in Seq(Nat), NEW rec, NEW f \in Nat, NEW h \in Nat, NEW gone,
           Whole(buf, rec, f, h, gone)
    PROVE  Whole(buf, rec, f, h + 1, gone \cup {h + 1})
<1>1. \A i \in 1..Len(buf) : buf[i] \in Nat /\ buf[i] <= h  BY DEF Whole
<1>2. \A n \in f..(h + 1) : n \in f..h \/ n = h + 1  OBVIOUS
<1>3. \A n \in Nat : Taken(buf, gone, n) => Taken(buf, gone \cup {h + 1}, n)  BY DEF Taken
<1>4. Taken(buf, gone \cup {h + 1}, h + 1)  BY DEF Taken
<1>5. \A i, j \in 1..Len(buf) : i < j => buf[i] < buf[j]  BY DEF Whole
<1>6. \A i \in 1..Len(buf) : f <= buf[i] /\ buf[i] <= h + 1 /\ buf[i] \notin gone \cup {h + 1}
  <2> TAKE i \in 1..Len(buf)
  <2>1. f <= buf[i] /\ buf[i] <= h /\ buf[i] \notin gone  BY DEF Whole
  <2>2. buf[i] \in Nat  BY <1>1
  <2>. QED  BY <2>1, <2>2
<1>7. ASSUME rec, NEW n \in f..(h + 1)  PROVE Taken(buf, gone \cup {h + 1}, n)
  <2>1. n \in Nat  OBVIOUS
  <2>2. CASE n \in f..h
    <3>1. Taken(buf, gone, n)  BY <1>7, <2>2 DEF Whole
    <3>. QED  BY <1>3, <2>1, <3>1
  <2>. QED  BY <1>2, <1>4, <2>2
<1>8. ASSUME buf # <<>>, NEW n \in f..buf[Len(buf)]  PROVE Taken(buf, gone \cup {h + 1}, n)
  <2>1. Taken(buf, gone, n)  BY <1>8 DEF Whole
  <2>2. Len(buf) \in 1..Len(buf)  BY <1>8
  <2>3. n \in Nat  BY <1>1, <1>8, <2>2
  <2>. QED  BY <1>3, <2>1, <2>3
<1>. QED  BY <1>5, <1>6, <1>7, <1>8 DEF Whole

---------------------------------------------------------------------------
(* The steps.                                                              *)

\* Chunks on the wire are chunks that were made.
LEMMA WireIsMade ==
    ASSUME Inv
    PROVE  \A i \in 1..Len(wire) : wire[i][1] = "MIC_DATA" => wire[i][2] \in 1..Len(made)
<1> TAKE i \in 1..Len(wire)
<1> HAVE wire[i][1] = "MIC_DATA"
<1>1. wire[i][2] \in Nat /\ Carries(wire, wire[i][2])  BY CarriedAt DEF Inv, TypeOK
<1>2. Len(made) \in Nat /\ handled \in Nat  BY DEF Inv, TypeOK
<1>3. handled < wire[i][2] /\ wire[i][2] <= Len(made)  BY <1>1, <1>2 DEF Inv, InOrder
<1>. QED  BY <1>1, <1>2, <1>3

\* The steps of the ESP32 keep the invariant.
LEMMA EspBeginsInv == ASSUME Inv, NEW r \in Rates, EspBegins(r)  PROVE Inv'
<1> DEFINE e == <<"MIC_START", r>>
<1>1. /\ wire' = Append(wire, e) /\ session' = r
      /\ UNCHANGED <<made, sample_rate, recording, pcm_buf, wav, listener, handled, lost, due, from,
                     undisturbed, mixed>>
  BY DEF EspBegins, Send, receiver, history
<1>2. e \in Packet /\ e[1] = "MIC_START"  BY DEF Packet
<1>3. wire \in Seq(Packet) /\ handled \in Nat /\ Len(made) \in Nat  BY DEF Inv, TypeOK
<1>4. TypeOK'
  <2>1. wire' \in Seq(Packet)  BY <1>1, <1>2, <1>3, SentPlaces
  <2>. QED  BY <1>1, <2>1 DEF Inv, TypeOK
<1>5. InOrder(wire', handled', Len(made'))
  <2>1. e[1] # "MIC_DATA"  OBVIOUS
  <2>2. InOrder(Append(wire, e), handled, Len(made))  BY <1>2, <1>3, <2>1, OtherSent DEF Inv
  <2>. QED  BY <1>1, <2>2
<1>6. RatesMeet(wire', due', made', session')
  <2>1. Told(Append(wire, e), due, Len(wire) + 2, r)  BY <1>3, ToldBegin
  <2>2. e[1] # "MIC_DATA"  OBVIOUS
  <2>3. RatesMeet(Append(wire, e), due, made, r)
    BY <1>2, <1>3, <2>1, <2>2, RatesOtherSent DEF Inv
  <2>. QED  BY <1>1, <2>3
<1>7. GoesOn'
  <2>1. /\ Len(wire) \in Nat /\ Len(wire') = Len(wire) + 1 /\ wire'[Len(wire) + 1] = e
        /\ \A i \in 1..Len(wire) : wire'[i] = wire[i]
    BY <1>1, <1>2, <1>3, SentPlaces
  <2>2. ASSUME \A i \in 1..Len(wire) : wire[i][1] # "MIC_STOP"
        PROVE  \A i \in 1..Len(wire') : wire'[i][1] # "MIC_STOP"
    <3> TAKE i \in 1..Len(wire')
    <3>1. CASE i = Len(wire) + 1  BY <1>2, <2>1, <3>1
    <3>2. CASE i # Len(wire) + 1
      <4>1. i \in 1..Len(wire)  BY <2>1, <3>2
      <4>. QED  BY <2>1, <2>2, <4>1
    <3>. QED  BY <3>1, <3>2
  <2>. QED  BY <1>1, <2>2 DEF Inv, GoesOn
<1>8. /\ (handled <= Len(made))' /\ Whole(pcm_buf, recording, from, handled, lost)' /\ Gone'
      /\ SameRate' /\ WavRate'
  BY <1>1 DEF Inv, Whole, Gone, SameRate, WavRate
<1>. QED  BY <1>4, <1>5, <1>6, <1>7, <1>8 DEF Inv

LEMMA EspCapturesInv == ASSUME Inv, EspCaptures  PROVE Inv'
<1> DEFINE e == <<"MIC_DATA", Len(made) + 1>>
<1>1. /\ wire' = Append(wire, e) /\ made' = Append(made, session) /\ session # 0
      /\ UNCHANGED <<session, sample_rate, recording, pcm_buf, wav, listener, handled, lost, due,
                     from, undisturbed, mixed>>
  BY DEF EspCaptures, Send, receiver, history
<1>2. /\ wire \in Seq(Packet) /\ handled \in Nat /\ made \in Seq(Rates) /\ Len(made) \in Nat
      /\ session \in Rates /\ 0 \notin Rates
  BY <1>1, RatesOfSessions DEF Inv, TypeOK
<1>3. e \in Packet /\ e[1] = "MIC_DATA"  BY <1>2 DEF Packet
<1>4. /\ made' \in Seq(Rates) /\ Len(made') = Len(made) + 1
      /\ \A n \in 1..Len(made) : made'[n] = made[n]
  BY <1>1, <1>2, SentPlaces
<1>5. TypeOK'
  <2>1. wire' \in Seq(Packet)  BY <1>1, <1>2, <1>3, SentPlaces
  <2>. QED  BY <1>1, <1>4, <2>1 DEF Inv, TypeOK
<1>6. InOrder(wire', handled', Len(made'))
  <2>1. InOrder(Append(wire, e), handled, Len(made) + 1)  BY <1>2, ChunkSent DEF Inv
  <2>. QED  BY <1>1, <1>4, <2>1
<1>7. RatesMeet(wire', due', made', session')
  <2>1. RatesMeet(wire, due, made, session)  BY DEF Inv
  <2>2. RatesMeet(Append(wire, e), due, Append(made, session), session)
    BY <1>2, <2>1, WireIsMade, RatesChunkSent
  <2>. QED  BY <1>1, <2>2
<1>8. GoesOn'
  <2>1. /\ Len(wire) \in Nat /\ Len(wire') = Len(wire) + 1 /\ wire'[Len(wire) + 1] = e
        /\ \A i \in 1..Len(wire) : wire'[i] = wire[i]
    BY <1>1, <1>2, <1>3, SentPlaces
  <2>2. ASSUME \A i \in 1..Len(wire) : wire[i][1] # "MIC_STOP"
        PROVE  \A i \in 1..Len(wire') : wire'[i][1] # "MIC_STOP"
    <3> TAKE i \in 1..Len(wire')
    <3>1. CASE i = Len(wire) + 1  BY <1>3, <2>1, <3>1
    <3>2. CASE i # Len(wire) + 1
      <4>1. i \in 1..Len(wire)  BY <2>1, <3>2
      <4>. QED  BY <2>1, <2>2, <4>1
    <3>. QED  BY <3>1, <3>2
  <2>. QED  BY <1>1, <2>2 DEF Inv, GoesOn
<1>9. SameRate'
  <2>1. ASSUME NEW i \in 1..Len(pcm_buf)  PROVE made'[pcm_buf[i]] = made[pcm_buf[i]]
    <3>1. pcm_buf[i] \in Nat  BY DEF Inv, TypeOK
    <3>2. from <= pcm_buf[i] /\ pcm_buf[i] <= handled  BY DEF Inv, Whole
    <3>3. 1 <= from /\ from \in Nat /\ handled <= Len(made)  BY DEF Inv, Gone, TypeOK
    <3>4. pcm_buf[i] \in 1..Len(made)  BY <1>2, <3>1, <3>2, <3>3
    <3>. QED  BY <1>4, <3>4
  <2>. QED  BY <1>1, <2>1 DEF Inv, SameRate
<1>10. /\ (handled <= Len(made))' /\ Whole(pcm_buf, recording, from, handled, lost)' /\ Gone'
       /\ WavRate'
  BY <1>1, <1>2, <1>4 DEF Inv, Whole, Gone, WavRate
<1>. QED  BY <1>5, <1>6, <1>7, <1>8, <1>9, <1>10 DEF Inv

LEMMA EspEndsInv == ASSUME Inv, EspEnds  PROVE Inv'
<1> DEFINE e == <<"MIC_STOP", 0>>
<1>1. /\ wire' = Append(wire, e) /\ session' = 0 /\ undisturbed' = FALSE
      /\ UNCHANGED <<made, sample_rate, recording, pcm_buf, wav, listener, handled,
                     lost, due, from, mixed>>
  BY DEF EspEnds, Send, receiver, history
<1>2. e \in Packet /\ e[1] # "MIC_DATA"  BY DEF Packet
<1>3. wire \in Seq(Packet) /\ handled \in Nat /\ Len(made) \in Nat  BY DEF Inv, TypeOK
<1>4. TypeOK'
  <2>1. wire' \in Seq(Packet)  BY <1>1, <1>2, <1>3, SentPlaces
  <2>. QED  BY <1>1, <2>1 DEF Inv, TypeOK
<1>5. InOrder(wire', handled', Len(made'))
  <2>1. InOrder(Append(wire, e), handled, Len(made))  BY <1>2, <1>3, OtherSent DEF Inv
  <2>. QED  BY <1>1, <2>1
<1>6. RatesMeet(wire', due', made', session')
  <2>1. RatesMeet(Append(wire, e), due, made, 0)
    BY <1>2, <1>3, RatesOtherSent DEF Inv
  <2>. QED  BY <1>1, <2>1
<1>7. /\ (handled <= Len(made))' /\ Whole(pcm_buf, recording, from, handled, lost)' /\ Gone'
      /\ GoesOn' /\ SameRate' /\ WavRate'
  BY <1>1 DEF Inv, Whole, Gone, GoesOn, SameRate, WavRate
<1>. QED  BY <1>4, <1>5, <1>6, <1>7 DEF Inv

\* What a step of the reader does to the wire.
LEMMA Handles ==
    ASSUME Inv, NEW type, Handling(type)
    PROVE  /\ wire \in Seq(Packet) /\ wire # <<>> /\ wire[1] \in Packet /\ wire[1][1] = type
           /\ wire' = Tail(wire) /\ wire' \in Seq(Packet) /\ Head(wire) = wire[1]
           /\ GoesOn /\ undisturbed => /\ type # "MIC_STOP"
                                      /\ \A i \in 1..Len(wire') : wire'[i][1] # "MIC_STOP"
<1>1. wire \in Seq(Packet) /\ wire # <<>> /\ wire' = Tail(wire) /\ Head(wire)[1] = type
  BY DEF Inv, TypeOK, Handling
<1>2. /\ wire' \in Seq(Packet) /\ Len(wire') \in Nat /\ Len(wire) = Len(wire') + 1
      /\ \A i \in 1..Len(wire') : wire'[i] = wire[i + 1]
      /\ Head(wire) = wire[1] /\ wire[1] \in Packet
  BY <1>1, HandledPlaces
<1>3. ASSUME \A i \in 1..Len(wire) : wire[i][1] # "MIC_STOP"
      PROVE  type # "MIC_STOP" /\ \A i \in 1..Len(wire') : wire'[i][1] # "MIC_STOP"
  <2>1. 1 \in 1..Len(wire) /\ \A i \in 1..Len(wire') : i + 1 \in 1..Len(wire)  BY <1>2
  <2>. QED  BY <1>1, <1>2, <1>3, <2>1
<1>. QED  BY <1>1, <1>2, <1>3 DEF GoesOn

\* The steps of the reader keep it.
LEMMA MicStartInv == ASSUME Inv, MicStart  PROVE Inv'
<1>1. /\ Handling("MIC_START") /\ sample_rate' = Head(wire)[2]
      /\ listener' = [listener EXCEPT !.stale = listener.at # "off"]
      /\ mixed' = (mixed \/ pcm_buf # <<>>)
      /\ wav' = [wav EXCEPT !.mixed = wav.mixed \/ wav.rate = 0]
      /\ due' = Head(wire)[2]
      /\ UNCHANGED <<session, made, recording, pcm_buf, handled, lost, from, undisturbed>>
  BY DEF MicStart, SessionSeen, esp
<1>2. /\ wire \in Seq(Packet) /\ wire # <<>> /\ wire[1] \in Packet /\ wire[1][1] = "MIC_START"
      /\ wire' = Tail(wire) /\ wire' \in Seq(Packet)
      /\ sample_rate' = wire[1][2] /\ due' = wire[1][2]
      /\ undisturbed => \A i \in 1..Len(wire') : wire'[i][1] # "MIC_STOP"
  BY <1>1, Handles DEF Inv
<1>3. /\ handled \in Nat /\ Len(made) \in Nat
      /\ wav \in [samples : SUBSET Rates, rate : Nat, mixed : BOOLEAN]
      /\ listener \in [at : {"off", "added", "told"}, rate : Nat, stale : BOOLEAN]
  BY DEF Inv, TypeOK
<1>4. TypeOK'
  <2>1. sample_rate' \in Nat /\ due' \in Nat  BY <1>2, PacketIs, RatesOfSessions
  <2>2. (listener.at # "off") \in BOOLEAN /\ (wav.mixed \/ wav.rate = 0) \in BOOLEAN  OBVIOUS
  <2>3. wav' \in [samples : SUBSET Rates, rate : Nat, mixed : BOOLEAN]  BY <1>1, <1>3, <2>2
  <2>4. listener' \in [at : {"off", "added", "told"}, rate : Nat, stale : BOOLEAN]
    BY <1>1, <1>3, <2>2
  <2>. QED  BY <1>1, <1>2, <2>1, <2>3, <2>4 DEF Inv, TypeOK
<1>5. InOrder(wire', handled', Len(made'))
  <2>1. wire[1][1] # "MIC_DATA"  BY <1>2
  <2>. QED  BY <1>1, <1>2, <1>3, <2>1, OtherHandled DEF Inv
<1>6. RatesMeet(wire', due', made', session')
  <2>1. RatesMeet(Tail(wire), RateAfter(wire[1], due), made, session)
    BY <1>2, RatesHandled DEF Inv
  <2>. QED  BY <1>1, <1>2, <2>1 DEF RateAfter
<1>7. GoesOn'  BY <1>1, <1>2 DEF Inv, GoesOn
<1>8. SameRate'
  <2>1. ~mixed' => pcm_buf' = <<>>  BY <1>1
  <2>2. ~mixed' => \A i \in 1..Len(pcm_buf') : made'[pcm_buf'[i]] = sample_rate'  BY <2>1
  <2>3. wav'.rate = 0 => wav'.mixed  BY <1>1, <1>3
  <2>4. listener'.at = "told" => listener'.stale  BY <1>1, <1>3
  <2>. QED  BY <2>2, <2>3, <2>4 DEF SameRate
<1>9. WavRate'
  <2>1. wav'.rate = wav.rate /\ wav'.samples = wav.samples /\ (~wav'.mixed => ~wav.mixed)
    BY <1>1, <1>3
  <2>. QED  BY <2>1 DEF Inv, WavRate
<1>10. (handled <= Len(made))' /\ Whole(pcm_buf, recording, from, handled, lost)' /\ Gone'
  BY <1>1 DEF Inv, Whole, Gone
<1>. QED  BY <1>4, <1>5, <1>6, <1>7, <1>8, <1>9, <1>10 DEF Inv

LEMMA MicDataInv == ASSUME Inv, MicData  PROVE Inv'
<1>0. mixed' = (mixed \/ (recording /\ due # sample_rate))
  BY DEF MicData
<1>1. /\ Handling("MIC_DATA") /\ handled' = Head(wire)[2]
      /\ pcm_buf' = IF recording THEN Append(pcm_buf, Head(wire)[2]) ELSE pcm_buf
      /\ UNCHANGED <<session, made, sample_rate, recording, wav, listener, lost, due, from,
                     undisturbed>>
  BY DEF MicData, esp
<1>2. /\ wire \in Seq(Packet) /\ wire # <<>> /\ wire[1] \in Packet /\ wire[1][1] = "MIC_DATA"
      /\ wire' = Tail(wire) /\ wire' \in Seq(Packet) /\ Head(wire) = wire[1]
      /\ undisturbed => \A i \in 1..Len(wire') : wire'[i][1] # "MIC_STOP"
  BY <1>1, Handles DEF Inv
<1>3. /\ handled \in Nat /\ from \in Nat /\ Len(made) \in Nat /\ pcm_buf \in Seq(Nat)
      /\ recording \in BOOLEAN
  BY DEF Inv, TypeOK
<1>4. /\ wire[1][2] = handled + 1 /\ handled + 1 <= Len(made)
      /\ InOrder(Tail(wire), handled + 1, Len(made))
  BY <1>2, <1>3, ChunkHandled DEF Inv
<1>5. /\ handled' = handled + 1
      /\ recording => pcm_buf' = Append(pcm_buf, handled + 1)
      /\ ~recording => pcm_buf' = pcm_buf
  BY <1>1, <1>2, <1>4
<1>6. ASSUME recording
      PROVE  /\ pcm_buf' \in Seq(Nat) /\ Len(pcm_buf') = Len(pcm_buf) + 1
             /\ Whole(pcm_buf', TRUE, from, handled + 1, lost)
             /\ \A i \in 1..Len(pcm_buf) : pcm_buf'[i] = pcm_buf[i]
             /\ pcm_buf'[Len(pcm_buf) + 1] = handled + 1
  <2>1. recording = TRUE  BY <1>3, <1>6
  <2>2. Whole(pcm_buf, TRUE, from, handled, lost)  BY <2>1 DEF Inv
  <2>3. pcm_buf' = Append(pcm_buf, handled + 1)  BY <1>5, <1>6
  <2>4. handled + 1 \notin lost /\ from <= handled + 1  BY <1>3 DEF Inv, Gone
  <2>. QED  BY <1>3, <2>2, <2>3, <2>4, Recorded
<1>7. TypeOK'
  <2>1. pcm_buf' \in Seq(Nat)  BY <1>3, <1>5, <1>6
  <2>2. mixed' = TRUE \/ mixed' = FALSE  BY <1>0
  <2>3. mixed' \in BOOLEAN  BY <2>2
  <2>. QED  BY <1>1, <1>2, <1>3, <1>5, <2>1, <2>3 DEF Inv, TypeOK
<1>8. (handled <= Len(made))' /\ InOrder(wire', handled', Len(made'))
  BY <1>1, <1>2, <1>4, <1>5
<1>9. RatesMeet(wire', due', made', session')
  <2>1. RatesMeet(Tail(wire), RateAfter(wire[1], due), made, session)
    BY <1>2, RatesHandled DEF Inv
  <2>2. RateAfter(wire[1], due) = due  BY <1>2 DEF RateAfter
  <2>. QED  BY <1>1, <1>2, <2>1, <2>2
<1>10. Whole(pcm_buf', recording', from', handled', lost')
  <2>1. CASE recording
    <3>1. recording' = TRUE  BY <1>1, <1>3, <2>1
    <3>. QED  BY <1>1, <1>5, <1>6, <2>1, <3>1
  <2>2. CASE ~recording
    <3>1. recording' = FALSE  BY <1>1, <1>3, <2>2
    <3>2. Whole(pcm_buf, FALSE, from, handled + 1, lost)  BY <1>3, NotRecorded DEF Inv
    <3>. QED  BY <1>1, <1>5, <2>2, <3>1, <3>2
  <2>. QED  BY <2>1, <2>2
<1>11. Gone'
  <2>1. lost \subseteq 1..handled /\ 1 <= from /\ from <= handled + 1  BY DEF Inv, Gone
  <2>. QED  BY <1>1, <1>3, <1>5, <2>1 DEF Gone
<1>12. GoesOn'  BY <1>1, <1>2 DEF Inv, GoesOn
<1>13. SameRate'
  <2>1. ASSUME ~mixed', NEW i \in 1..Len(pcm_buf')  PROVE made[pcm_buf'[i]] = sample_rate
    <3>1. ~mixed /\ (recording => due = sample_rate)  BY <1>0, <2>1
    <3>2. \A k \in 1..Len(pcm_buf) : made[pcm_buf[k]] = sample_rate
      BY <3>1 DEF Inv, SameRate
    <3>3. CASE ~recording  BY <1>5, <2>1, <3>2, <3>3
    <3>4. CASE recording
      <4>1. Len(pcm_buf) \in Nat  BY <1>3
      <4>2. CASE i = Len(pcm_buf) + 1
        <5>1. pcm_buf'[i] = wire[1][2]  BY <1>4, <1>6, <3>4, <4>2
        <5>2. 1 \in 1..Len(wire)  BY <1>2
        <5>3. Told(wire, due, 1, made[wire[1][2]])
          BY <1>2, <5>2 DEF Inv, RatesMeet
        <5>4. due = made[wire[1][2]]  BY <5>3, ToldNow
        <5>. QED  BY <3>1, <3>4, <5>1, <5>4
      <4>3. CASE i # Len(pcm_buf) + 1
        <5>1. i \in 1..Len(pcm_buf)  BY <1>6, <2>1, <3>4, <4>1, <4>3
        <5>. QED  BY <1>6, <3>2, <3>4, <5>1
      <4>. QED  BY <4>2, <4>3
    <3>. QED  BY <3>3, <3>4
  <2>. QED  BY <1>1, <2>1 DEF Inv, SameRate
<1>14. WavRate'  BY <1>1 DEF Inv, WavRate
<1>. QED  BY <1>7, <1>8, <1>9, <1>10, <1>11, <1>12, <1>13, <1>14 DEF Inv

LEMMA MicStopInv == ASSUME Inv, MicStop  PROVE Inv'
<1>1. /\ Handling("MIC_STOP") /\ recording' = FALSE
      /\ UNCHANGED <<session, made, sample_rate, pcm_buf, wav, listener, handled, lost, due, from,
                     undisturbed, mixed>>
  BY DEF MicStop, esp, history
<1>2. /\ wire \in Seq(Packet) /\ wire # <<>> /\ wire[1][1] = "MIC_STOP"
      /\ wire' = Tail(wire) /\ wire' \in Seq(Packet) /\ ~undisturbed
  BY <1>1, Handles DEF Inv
<1>3. handled \in Nat /\ Len(made) \in Nat /\ pcm_buf \in Seq(Nat)  BY DEF Inv, TypeOK
<1>4. TypeOK'  BY <1>1, <1>2 DEF Inv, TypeOK
<1>5. InOrder(wire', handled', Len(made'))
  <2>1. wire[1][1] # "MIC_DATA"  BY <1>2
  <2>. QED  BY <1>1, <1>2, <1>3, <2>1, OtherHandled DEF Inv
<1>6. RatesMeet(wire', due', made', session')
  <2>1. RatesMeet(Tail(wire), RateAfter(wire[1], due), made, session)
    BY <1>2, RatesHandled DEF Inv
  <2>2. RateAfter(wire[1], due) = due  BY <1>2 DEF RateAfter
  <2>. QED  BY <1>1, <1>2, <2>1, <2>2
<1>7. Whole(pcm_buf', recording', from', handled', lost')
  <2>1. Whole(pcm_buf, FALSE, from, handled, lost)  BY <1>3, NotRecorded DEF Inv
  <2>. QED  BY <1>1, <2>1
<1>8. (handled <= Len(made))' /\ Gone' /\ GoesOn' /\ SameRate' /\ WavRate'
  BY <1>1, <1>2 DEF Inv, Gone, GoesOn, SameRate, WavRate
<1>. QED  BY <1>4, <1>5, <1>6, <1>7, <1>8 DEF Inv

\* A packet that is dropped leaves the receiver as it was.
LEMMA DroppedInv == ASSUME Inv, Dropped  PROVE Inv'
<1>1. UNCHANGED <<session, made, sample_rate, recording, pcm_buf, wav, listener, from,
                  undisturbed, mixed>>
  BY DEF Dropped, esp, receiver
<1>2. /\ handled \in Nat /\ from \in Nat /\ Len(made) \in Nat /\ pcm_buf \in Seq(Nat)
      /\ lost \subseteq 1..handled /\ 1 <= from /\ from <= handled + 1
  BY DEF Inv, TypeOK, Gone
<1>3. PICK type \in {"MIC_START", "MIC_DATA", "MIC_STOP"} : Handling(type)  BY DEF Dropped
<1>4. /\ wire \in Seq(Packet) /\ wire # <<>> /\ wire[1] \in Packet
      /\ wire' = Tail(wire) /\ wire' \in Seq(Packet) /\ Head(wire) = wire[1]
      /\ undisturbed => \A i \in 1..Len(wire') : wire'[i][1] # "MIC_STOP"
  BY <1>3, Handles DEF Inv
<1>5. due' = RateAfter(wire[1], due)
  BY <1>4 DEF Dropped, Handling, RateAfter
<1>6. RatesMeet(wire', due', made', session')
  <2>1. RatesMeet(Tail(wire), RateAfter(wire[1], due), made, session)
    BY <1>4, RatesHandled DEF Inv
  <2>. QED  BY <1>1, <1>4, <1>5, <2>1
<1>7. due' \in Nat
  BY <1>4, <1>5, PacketIs, RatesOfSessions DEF RateAfter, Inv, TypeOK
<1>8. GoesOn' /\ SameRate' /\ WavRate'
  BY <1>1, <1>4 DEF Inv, GoesOn, SameRate, WavRate
<1>9. CASE wire[1][1] = "MIC_DATA"
  <2>1. handled' = wire[1][2] /\ lost' = lost \cup {wire[1][2]}
    BY <1>4, <1>9 DEF Dropped, Handling
  <2>2. /\ wire[1][2] = handled + 1 /\ handled + 1 <= Len(made)
        /\ InOrder(Tail(wire), handled + 1, Len(made))
    BY <1>2, <1>4, <1>9, ChunkHandled DEF Inv
  <2>3. handled' = handled + 1 /\ lost' = lost \cup {handled + 1}  BY <2>1, <2>2
  <2>4. (handled <= Len(made))' /\ InOrder(wire', handled', Len(made'))
    BY <1>1, <1>4, <2>2, <2>3
  <2>5. Whole(pcm_buf', recording', from', handled', lost')
    <3>1. Whole(pcm_buf, recording, from, handled + 1, lost \cup {handled + 1})
      BY <1>2, RecordedLess DEF Inv
    <3>. QED  BY <1>1, <2>3, <3>1
  <2>6. Gone'  BY <1>1, <1>2, <2>3 DEF Gone
  <2>7. TypeOK'  BY <1>1, <1>2, <1>4, <1>7, <2>3 DEF Inv, TypeOK
  <2>. QED  BY <1>6, <1>8, <2>4, <2>5, <2>6, <2>7 DEF Inv
<1>10. CASE wire[1][1] # "MIC_DATA"
  <2>1. UNCHANGED <<handled, lost>>  BY <1>4, <1>10 DEF Dropped, Handling
  <2>2. (handled <= Len(made))' /\ InOrder(wire', handled', Len(made'))
    BY <1>1, <1>2, <1>4, <1>10, <2>1, OtherHandled DEF Inv
  <2>3. Whole(pcm_buf', recording', from', handled', lost') /\ Gone'
    BY <1>1, <2>1 DEF Inv, Gone
  <2>4. TypeOK'  BY <1>1, <1>4, <1>7, <2>1 DEF Inv, TypeOK
  <2>. QED  BY <1>6, <1>8, <2>2, <2>3, <2>4 DEF Inv
<1>. QED  BY <1>9, <1>10

\* So do the steps of the recording.
LEMMA StartRecordingInv == ASSUME Inv, start_recording  PROVE Inv'
<1>0. undisturbed' = \A i \in 1..Len(wire) : wire[i][1] # "MIC_STOP"
  BY DEF start_recording, Began
<1>1. /\ recording' = TRUE /\ pcm_buf' = <<>> /\ from' = handled + 1 /\ mixed' = FALSE
      /\ UNCHANGED <<session, made, wire, sample_rate, wav, listener, handled, lost, due>>
  BY DEF start_recording, Began, esp
<1>2. handled \in Nat /\ Len(pcm_buf') = 0 /\ pcm_buf' \in Seq(Nat)  BY <1>1 DEF Inv, TypeOK
<1>3. TypeOK'
  <2>1. undisturbed' = TRUE \/ undisturbed' = FALSE  BY <1>0
  <2>2. undisturbed' \in BOOLEAN  BY <2>1
  <2>3. recording' \in BOOLEAN /\ mixed' \in BOOLEAN  BY <1>1
  <2>4. from' \in Nat  BY <1>1, <1>2
  <2>. QED  BY <1>1, <1>2, <2>2, <2>3, <2>4 DEF Inv, TypeOK
<1>4. Whole(pcm_buf', recording', from', handled', lost')  BY <1>1, <1>2 DEF Whole
<1>5. GoesOn'  BY <1>0, <1>1 DEF GoesOn
<1>6. SameRate'  BY <1>1, <1>2 DEF Inv, SameRate
<1>7. /\ (handled <= Len(made))' /\ InOrder(wire', handled', Len(made'))
      /\ RatesMeet(wire', due', made', session') /\ WavRate'
  BY <1>1 DEF Inv, WavRate
<1>8. Gone'
  <2>1. lost \subseteq 1..handled  BY DEF Inv, Gone
  <2>. QED  BY <1>1, <1>2, <2>1 DEF Gone
<1>. QED  BY <1>3, <1>4, <1>5, <1>6, <1>7, <1>8 DEF Inv

LEMMA StopRecordingInv == ASSUME Inv, stop_recording  PROVE Inv'
<1>1. /\ recording' = FALSE /\ undisturbed' = FALSE
      /\ UNCHANGED <<session, made, wire, sample_rate, pcm_buf, wav, listener, handled, lost,
                     due, from, mixed>>
  BY DEF stop_recording, esp
<1>2. handled \in Nat /\ pcm_buf \in Seq(Nat)  BY DEF Inv, TypeOK
<1>3. Whole(pcm_buf', recording', from', handled', lost')
  <2>1. Whole(pcm_buf, FALSE, from, handled, lost)  BY <1>2, NotRecorded DEF Inv
  <2>. QED  BY <1>1, <2>1
<1>4. TypeOK' /\ Gone' /\ GoesOn' /\ SameRate' /\ WavRate'
  BY <1>1 DEF Inv, TypeOK, Gone, GoesOn, SameRate, WavRate
<1>5. /\ (handled <= Len(made))' /\ InOrder(wire', handled', Len(made'))
      /\ RatesMeet(wire', due', made', session')
  BY <1>1 DEF Inv
<1>. QED  BY <1>3, <1>4, <1>5 DEF Inv

\* A WAV or a listener leaves the ESP32, the wire, the receiver and the recording alone.
LEMMA OthersInv ==
    ASSUME Inv, UNCHANGED <<esp, wire, receiver, history>>,
           wav' \in [samples : SUBSET Rates, rate : Nat, mixed : BOOLEAN],
           listener' \in [at : {"off", "added", "told"}, rate : Nat, stale : BOOLEAN],
           wav'.rate = 0 /\ ~wav'.mixed => wav'.samples \subseteq {sample_rate},
           listener'.at = "told" /\ ~listener'.stale => listener'.rate = sample_rate,
           WavRate'
    PROVE  Inv'
<1>1. UNCHANGED <<session, made, wire, sample_rate, recording, pcm_buf, handled, lost, due,
                  from, undisturbed, mixed>>
  BY DEF esp, receiver, history
<1>2. TypeOK' /\ Gone' /\ GoesOn' /\ SameRate'
  BY <1>1 DEF Inv, TypeOK, Gone, GoesOn, SameRate
<1>3. /\ (handled <= Len(made))' /\ InOrder(wire', handled', Len(made'))
      /\ RatesMeet(wire', due', made', session')
      /\ Whole(pcm_buf', recording', from', handled', lost')
  BY <1>1 DEF Inv
<1>. QED  BY <1>2, <1>3 DEF Inv

\* The two steps of get_wav.
LEMMA WavInv == ASSUME Inv, WavSamples \/ WavHeader  PROVE Inv'
<1>1. /\ UNCHANGED <<esp, wire, receiver, history>> /\ listener' = listener
      /\ wav \in [samples : SUBSET Rates, rate : Nat, mixed : BOOLEAN]
      /\ pcm_buf \in Seq(Nat) /\ made \in Seq(Rates) /\ sample_rate \in Nat
      /\ listener \in [at : {"off", "added", "told"}, rate : Nat, stale : BOOLEAN]
      /\ listener.at = "told" /\ ~listener.stale => listener.rate = sample_rate
  BY DEF WavSamples, WavHeader, Inv, TypeOK, SameRate
<1>2. CASE WavSamples
  <2> DEFINE rates == {made[n] : n \in ToSet(pcm_buf)}
  <2>1. wav' = [samples |-> rates, rate |-> 0, mixed |-> mixed]  BY <1>2 DEF WavSamples
  <2>2. ASSUME NEW n \in ToSet(pcm_buf)
        PROVE  made[n] \in Rates /\ (~mixed => made[n] = sample_rate)
    <3>1. PICK i \in 1..Len(pcm_buf) : n = pcm_buf[i]  BY <1>1, <2>2 DEF ToSet
    <3>2. n \in Nat /\ from <= n /\ n <= handled  BY <1>1, <3>1 DEF Inv, Whole
    <3>3. 1 <= from /\ from \in Nat /\ handled \in Nat /\ handled <= Len(made)
      BY DEF Inv, Gone, TypeOK
    <3>4. n \in 1..Len(made)  BY <1>1, <3>2, <3>3
    <3>5. ~mixed => made[n] = sample_rate  BY <3>1 DEF Inv, SameRate
    <3>. QED  BY <1>1, <3>4, <3>5
  <2>3. rates \in SUBSET Rates /\ (~mixed => rates \subseteq {sample_rate})  BY <2>2
  <2> HIDE DEF rates
  <2>4. wav'.rate = 0 /\ wav'.mixed = mixed /\ wav'.samples = rates  BY <2>1
  <2>5. mixed \in BOOLEAN  BY DEF Inv, TypeOK
  <2>6. wav' \in [samples : SUBSET Rates, rate : Nat, mixed : BOOLEAN]
    BY <2>1, <2>3, <2>5
  <2>7. WavRate'  BY <2>4 DEF WavRate
  <2>. QED  BY <1>1, <2>3, <2>4, <2>6, <2>7, OthersInv
<1>3. CASE WavHeader
  <2>1. wav.rate = 0 /\ wav' = [wav EXCEPT !.rate = sample_rate]  BY <1>3 DEF WavHeader
  <2>2. /\ wav' \in [samples : SUBSET Rates, rate : Nat, mixed : BOOLEAN]
        /\ wav'.samples = wav.samples /\ wav'.mixed = wav.mixed /\ wav'.rate = sample_rate
    BY <1>1, <2>1
  <2>3. ~wav'.mixed => wav'.samples \subseteq {sample_rate}
    BY <2>1, <2>2 DEF Inv, SameRate
  <2>4. WavRate'  BY <2>2, <2>3 DEF WavRate
  <2>. QED  BY <1>1, <2>2, <2>3, <2>4, OthersInv
<1>. QED  BY <1>2, <1>3

\* The steps of a listener's handler.
LEMMA ListenerInv == ASSUME Inv, Add \/ Header \/ Leave  PROVE Inv'
<1>1. /\ UNCHANGED <<esp, wire, receiver, history>> /\ wav' = wav
      /\ wav \in [samples : SUBSET Rates, rate : Nat, mixed : BOOLEAN]
      /\ wav.rate = 0 /\ ~wav.mixed => wav.samples \subseteq {sample_rate}
      /\ listener \in [at : {"off", "added", "told"}, rate : Nat, stale : BOOLEAN]
      /\ sample_rate \in Nat /\ DefaultRate \in Nat
  BY DEF Add, Header, Leave, Inv, TypeOK, SameRate, DefaultRate
<1>2. WavRate'  BY <1>1 DEF Inv, WavRate
<1>3. \/ listener' = [at |-> "added", rate |-> DefaultRate, stale |-> FALSE]
      \/ listener' = [at |-> "off", rate |-> DefaultRate, stale |-> FALSE]
      \/ listener' = [listener EXCEPT !.at = "told", !.rate = sample_rate]
  BY DEF Add, Header, Leave, Listener
<1>4. /\ listener' \in [at : {"off", "added", "told"}, rate : Nat, stale : BOOLEAN]
      /\ listener'.at = "told" /\ ~listener'.stale => listener'.rate = sample_rate
  <2>1. CASE listener' = [at |-> "added", rate |-> DefaultRate, stale |-> FALSE]
    BY <1>1, <2>1
  <2>2. CASE listener' = [at |-> "off", rate |-> DefaultRate, stale |-> FALSE]
    BY <1>1, <2>2
  <2>3. CASE listener' = [listener EXCEPT !.at = "told", !.rate = sample_rate]
    BY <1>1, <2>3
  <2>. QED  BY <1>3, <2>1, <2>2, <2>3
<1>5. /\ wav' \in [samples : SUBSET Rates, rate : Nat, mixed : BOOLEAN]
      /\ wav'.rate = 0 /\ ~wav'.mixed => wav'.samples \subseteq {sample_rate}
  BY <1>1
<1>. QED  BY <1>1, <1>2, <1>4, <1>5, OthersInv

\* Every step keeps the invariant.
LEMMA InvStep == Inv /\ [Next]_vars => Inv'
<1>. SUFFICES ASSUME Inv, [Next]_vars  PROVE Inv'  OBVIOUS
<1>1. ASSUME NEW r \in Rates, EspBegins(r)  PROVE Inv'  BY <1>1, EspBeginsInv
<1>2. CASE EspCaptures  BY <1>2, EspCapturesInv
<1>3. CASE EspEnds  BY <1>3, EspEndsInv
<1>4. CASE MicStart  BY <1>4, MicStartInv
<1>5. CASE MicData  BY <1>5, MicDataInv
<1>6. CASE MicStop  BY <1>6, MicStopInv
<1>7. CASE start_recording  BY <1>7, StartRecordingInv
<1>8. CASE stop_recording  BY <1>8, StopRecordingInv
<1>9. CASE WavSamples \/ WavHeader  BY <1>9, WavInv
<1>10. CASE Add \/ Header \/ Leave  BY <1>10, ListenerInv
<1>11. CASE Dropped  BY <1>11, DroppedInv
<1>12. CASE UNCHANGED vars
  <2>1. UNCHANGED <<session, made, wire, sample_rate, recording, pcm_buf, wav, listener,
                    handled, lost, due, from, undisturbed, mixed>>
    BY <1>12 DEF vars, esp, receiver, history
  <2>2. TypeOK' /\ Gone' /\ GoesOn' /\ SameRate' /\ WavRate'
    BY <2>1 DEF Inv, TypeOK, Gone, GoesOn, SameRate, WavRate
  <2>. QED  BY <2>1, <2>2 DEF Inv
<1>. QED  BY <1>1, <1>2, <1>3, <1>4, <1>5, <1>6, <1>7, <1>8, <1>9, <1>10, <1>11, <1>12
          DEF Next, Esp, Reader

\* It holds in the beginning.
LEMMA InvInit == Init => Inv
<1>. SUFFICES ASSUME Init  PROVE Inv  OBVIOUS
<1>1. /\ wire = <<>> /\ Len(wire) = 0 /\ pcm_buf = <<>> /\ Len(pcm_buf) = 0 /\ Len(made) = 0
      /\ handled = 0 /\ lost = {} /\ from = 1 /\ session = 0 /\ due = DefaultRate
      /\ DefaultRate \in Nat
  BY DEF Init, DefaultRate
<1>2. TypeOK
  <2>1. recording \in BOOLEAN /\ undisturbed \in BOOLEAN /\ mixed \in BOOLEAN
    BY DEF Init
  <2>2. wav \in [samples : SUBSET Rates, rate : Nat, mixed : BOOLEAN]
    BY <1>1 DEF Init
  <2>3. listener \in [at : {"off", "added", "told"}, rate : Nat, stale : BOOLEAN]
    BY <1>1 DEF Init, Listener
  <2>4. made = <<>> /\ sample_rate = DefaultRate  BY DEF Init
  <2>. QED  BY <1>1, <2>1, <2>2, <2>3, <2>4 DEF TypeOK
<1>3. InOrder(wire, handled, Len(made))
  BY <1>1 DEF InOrder, Carries
<1>4. RatesMeet(wire, due, made, session)  BY <1>1 DEF RatesMeet
<1>5. Whole(pcm_buf, recording, from, handled, lost) /\ Gone  BY <1>1 DEF Whole, Gone
<1>6. ~undisturbed /\ wav.samples = {} /\ listener.at = "off"  BY DEF Init, Listener
<1>7. GoesOn /\ SameRate /\ WavRate  BY <1>1, <1>6 DEF GoesOn, SameRate, WavRate
<1>. QED  BY <1>1, <1>2, <1>3, <1>4, <1>5, <1>7 DEF Inv

LEMMA InvAlways == Spec => []Inv
<1>. QED  BY InvInit, InvStep, PTL DEF Spec

---------------------------------------------------------------------------
(* The theorems.                                                           *)

\* RecordingWhole: a recording is its chunks that were not dropped, in order and without one of
\* an earlier recording, and one that no stop disturbs goes on, with every chunk sent since its
\* start in it, dropped or on its way.
THEOREM RecordingIsWhole == Spec => []RecordingWhole
<1>1. ASSUME Inv  PROVE RecordingWhole
  <2>1. /\ handled \in Nat /\ from \in Nat /\ Len(made) \in Nat /\ Len(pcm_buf) \in Nat
        /\ \A i \in 1..Len(pcm_buf) : pcm_buf[i] \in Nat
    BY <1>1 DEF Inv, TypeOK
  <2>2. /\ \A i, j \in 1..Len(pcm_buf) : i < j => pcm_buf[i] < pcm_buf[j]
        /\ \A i \in 1..Len(pcm_buf) :
              from <= pcm_buf[i] /\ pcm_buf[i] <= handled /\ pcm_buf[i] \notin lost
        /\ recording => \A n \in from..handled : Taken(pcm_buf, lost, n)
        /\ pcm_buf # <<>> => \A n \in from..pcm_buf[Len(pcm_buf)] : Taken(pcm_buf, lost, n)
    BY <1>1 DEF Inv, Whole
  <2>3. \A n : n \in ToSet(pcm_buf) <=> \E i \in 1..Len(pcm_buf) : pcm_buf[i] = n
    BY DEF ToSet
  <2>4. ASSUME pcm_buf # <<>>  PROVE ToSet(pcm_buf) = (from..pcm_buf[Len(pcm_buf)]) \ lost
    <3>1. PICK last \in Nat : last = pcm_buf[Len(pcm_buf)]  BY <2>1, <2>4
    <3>2. ASSUME NEW n \in ToSet(pcm_buf)  PROVE n \in (from..last) \ lost
      <4>1. PICK i \in 1..Len(pcm_buf) : pcm_buf[i] = n  BY <2>3
      <4>2. n \in Nat /\ from <= n /\ n \notin lost  BY <2>1, <2>2, <4>1
      <4>3. n <= last
        <5>1. CASE i = Len(pcm_buf)  BY <3>1, <4>1, <5>1
        <5>2. CASE i < Len(pcm_buf)
          <6>1. Len(pcm_buf) \in 1..Len(pcm_buf)  BY <2>1, <2>4
          <6>2. n < last  BY <2>2, <3>1, <4>1, <5>2, <6>1
          <6>. QED  BY <4>2, <6>2
        <5>. QED  BY <2>1, <5>1, <5>2
      <4>. QED  BY <2>1, <4>2, <4>3
    <3>3. ASSUME NEW n \in (from..last) \ lost  PROVE n \in ToSet(pcm_buf)
      <4>1. Taken(pcm_buf, lost, n)  BY <2>2, <2>4, <3>1
      <4>. QED  BY <2>3, <4>1 DEF Taken
    <3>. QED  BY <3>1, <3>2, <3>3
  <2>5. ASSUME recording  PROVE ToSet(pcm_buf) = (from..handled) \ lost
    <3>1. ASSUME NEW n \in ToSet(pcm_buf)  PROVE n \in (from..handled) \ lost
      <4>1. PICK i \in 1..Len(pcm_buf) : pcm_buf[i] = n  BY <2>3
      <4>2. n \in Nat /\ from <= n /\ n <= handled /\ n \notin lost  BY <2>1, <2>2, <4>1
      <4>. QED  BY <2>1, <4>2
    <3>2. ASSUME NEW n \in (from..handled) \ lost  PROVE n \in ToSet(pcm_buf)
      <4>1. Taken(pcm_buf, lost, n)  BY <2>2, <2>5
      <4>. QED  BY <2>3, <4>1 DEF Taken
    <3>. QED  BY <3>1, <3>2
  <2>6. ASSUME NEW n \in (handled + 1)..Len(made)  PROVE OnTheWay(n)
    <3>1. n \in Nat /\ handled < n /\ n <= Len(made)  BY <2>1
    <3>. QED  BY <1>1, <3>1 DEF Inv, InOrder, OnTheWay, Carries
  <2>7. undisturbed => recording  BY <1>1 DEF Inv, GoesOn
  <2>. QED  BY <2>2, <2>4, <2>5, <2>6, <2>7 DEF RecordingWhole
<1>. QED  BY <1>1, InvAlways, PTL

\* WavRate: a WAV's header has the rate of its samples, unless a session began meanwhile or
\* the start of theirs was dropped.
THEOREM WavHasItsRate == Spec => []WavRate
<1>1. Inv => WavRate  BY DEF Inv
<1>. QED  BY <1>1, InvAlways, PTL

\* HeaderRate: a chunk has the rate that the header told the listener it is given to, when the
\* start of its session was not dropped.
THEOREM ListenerHasTheRate == Spec => HeaderRate
<1>1. Inv => [\A n \in 1..Len(made) :
                MicData /\ Head(wire)[2] = n /\ due = sample_rate
                   /\ listener.at = "told" /\ ~listener.stale => listener.rate = made[n]]_vars
  <2>. SUFFICES ASSUME Inv, NEW n \in 1..Len(made), MicData, Head(wire)[2] = n,
                       due = sample_rate, listener.at = "told", ~listener.stale
                PROVE  listener.rate = made[n]
    OBVIOUS
  <2>1. /\ wire \in Seq(Packet) /\ wire # <<>> /\ wire[1][1] = "MIC_DATA"
        /\ Head(wire) = wire[1]
    BY Handles DEF MicData
  <2>2. 1 \in 1..Len(wire)  BY <2>1
  <2>3. Told(wire, due, 1, made[n])  BY <2>1, <2>2 DEF Inv, RatesMeet
  <2>4. sample_rate = made[n]  BY <2>3, ToldNow
  <2>. QED  BY <2>4 DEF Inv, SameRate
<1>. QED  BY <1>1, InvAlways, PTL DEF HeaderRate

=============================================================================

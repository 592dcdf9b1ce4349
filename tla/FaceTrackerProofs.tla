--------------------------- MODULE FaceTrackerProofs ---------------------------
(***************************************************************************)
(* Theorems about FaceTracker, for every set of faces, every size of the   *)
(* video from 102 pixels on, and a loop of at least three rounds a second. *)
(***************************************************************************)
EXTENDS FaceTracker, TLAPS

(***************************************************************************)
(* The zones.                                                              *)
(***************************************************************************)

\* A coordinate is in one of three thirds.
LEMMA Thirds ==
    ASSUME NEW c \in Int, NEW size \in Int
    PROVE  Third(c, size) \in 1..3
BY DEF Third

\* get_face_zone returns one of the nine zones.
LEMMA NineZones ==
    ASSUME NEW x \in Int, NEW y \in Int, NEW w \in Int, NEW h \in Int
    PROVE  get_face_zone(x, y, w, h) \in 1..9
<1>1. Third(x, w) \in 1..3 /\ Third(y, h) \in 1..3
    BY Thirds
<1>2. \A row, col \in 1..3 : zone_grid[row][col] \in 1..9
    BY DEF zone_grid
<1> QED BY <1>1, <1>2 DEF get_face_zone

\* The two sides of the small picture.
LEMMA SmallPicture ==
    /\ detect_w \in Nat /\ detect_w > 0 /\ detect_h \in Nat /\ detect_h > 0
    /\ FrameWidth \in Nat /\ FrameWidth >= 102 /\ FrameHeight \in Nat /\ FrameHeight >= 102
BY PictureSize DEF detect_w, detect_h

\* What \div gives.
LEMMA Quotient ==
    ASSUME NEW a \in Nat, NEW b \in Nat, b > 0
    PROVE  a \div b \in Nat /\ b * (a \div b) <= a /\ a < b * (a \div b) + b
OBVIOUS

\* A centre below a part of the small picture is scaled to below that part of the frame.
LEMMA ScaledBelow ==
    ASSUME NEW b \in Nat, b > 0, NEW size \in Nat, size > 0, NEW c \in Nat, NEW k \in Nat,
           3 * c < k * b, NEW p \in Nat, b * p <= c * size
    PROVE  3 * p < k * size
<1>1. 3 * (c * size) < (k * b) * size
    <2>1. (3 * c) * size < (k * b) * size
        BY Z3
    <2> QED BY <2>1
<1>2. 3 * (b * p) < (k * b) * size
    BY <1>1
<1>3. b * (3 * p) < b * (k * size)
    BY <1>2
<1> QED BY <1>3

\* And one that is not, to not more than a pixel below it.
LEMMA ScaledFrom ==
    ASSUME NEW b \in Nat, b > 0, NEW size \in Nat, size > 0, NEW c \in Nat, NEW k \in Nat,
           k * b <= 3 * c, NEW p \in Nat, c * size < b * p + b
    PROVE  k * size < 3 * p + 3
<1>1. (k * b) * size <= 3 * (c * size)
    <2>1. (k * b) * size <= (3 * c) * size
        BY Z3
    <2> QED BY <2>1
<1>2. (k * b) * size < 3 * (b * p + b)
    BY <1>1
<1>3. b * (k * size) < b * (3 * p + 3)
    BY <1>2
<1> QED BY <1>3

\* The circle on a face is, to a pixel, in the part of the frame that its zone is named for.
LEMMA CircleInThird ==
    ASSUME NEW size \in Nat, size > 0, NEW small \in Nat, small > 0, NEW c \in 0..(2 * small),
           NEW k \in 0..2, k = Third(c, small) - 1
    PROVE  Between(Scaled(c, size, small), k, size, 1)
<1> DEFINE b == 2 * small
           third == size \div 3
           p == Scaled(c, size, small)
<1>1. b \in Nat /\ b > 0 /\ c \in Nat /\ c <= b
    OBVIOUS
<1>2. third \in Nat /\ 3 * third <= size /\ size <= 3 * third + 2
    OBVIOUS
<1>3. p \in Nat /\ b * p <= c * size /\ c * size < b * p + b
    <2>1. c * size \in Nat
        BY <1>1
    <2> QED BY <1>1, <2>1, Quotient DEF Scaled
<1> HIDE DEF p, third, b
<1>4. /\ k = 0 => 3 * c < b
      /\ k = 1 => b <= 3 * c /\ 3 * c < 2 * b
      /\ k = 2 => 2 * b <= 3 * c
    BY <1>1 DEF Third, b
<1>5. CASE k = 0
    <2>1. 3 * c < 1 * b
        BY <1>1, <1>4, <1>5
    <2>2. 3 * p < 1 * size
        BY <1>1, <1>3, <2>1, ScaledBelow
    <2> QED BY <1>2, <1>3, <1>5, <2>2 DEF Between, p, third
<1>6. CASE k = 1
    <2>1. 3 * c < 2 * b /\ 1 * b <= 3 * c
        BY <1>1, <1>4, <1>6
    <2>2. 3 * p < 2 * size
        BY <1>1, <1>3, <2>1, ScaledBelow
    <2>3. 1 * size < 3 * p + 3
        BY <1>1, <1>3, <2>1, ScaledFrom
    <2> QED BY <1>2, <1>3, <1>6, <2>2, <2>3 DEF Between, p, third
<1>7. CASE k = 2
    <2>1. 2 * b <= 3 * c /\ 3 * c < 4 * b
        BY <1>1, <1>4, <1>7
    <2>2. 2 * size < 3 * p + 3
        BY <1>1, <1>3, <2>1, ScaledFrom
    <2>3. p <= size
        <3>1. c * size <= b * size
            BY <1>1, Z3
        <3>2. b * p <= b * size
            BY <1>1, <1>3, <3>1
        <3> QED BY <1>1, <1>3, <3>2
    <2> QED BY <1>2, <1>3, <1>7, <2>2, <2>3 DEF Between, p, third
<1> QED BY <1>5, <1>6, <1>7

\* A number begins in the part of the frame it is put in.
LEMMA TextInThird ==
    ASSUME NEW size \in Nat, size >= 102, NEW k \in 0..2
    PROVE  Between(Middle(k, size) - 15, k, size, 0) /\ Between(Middle(k, size) + 15, k, size, 0)
<1> DEFINE third == size \div 3
           half == third \div 2
<1>1. third \in Nat /\ 3 * third <= size /\ size <= 3 * third + 2
    OBVIOUS
<1>2. half \in Nat /\ 2 * half <= third /\ third <= 2 * half + 1
    BY <1>1
<1> HIDE DEF third, half
<1>3. half >= 17 /\ third >= 34
    BY <1>1, <1>2
<1>4. CASE k = 0
    BY <1>1, <1>2, <1>3, <1>4 DEF Between, Middle, third, half
<1>5. CASE k = 1
    BY <1>1, <1>2, <1>3, <1>5 DEF Between, Middle, third, half
<1>6. CASE k = 2
    BY <1>1, <1>2, <1>3, <1>6 DEF Between, Middle, third, half
<1> QED BY <1>4, <1>5, <1>6

\* draw_grid puts the number of a zone in the column and row that get_face_zone found.
LEMMA NumberOfZone ==
    ASSUME NEW x \in Int, NEW y \in Int, NEW w \in Int, NEW h \in Int
    PROVE  drawn_at[get_face_zone(x, y, w, h)] = <<Third(x, w) - 1, Third(y, h) - 1>>
<1>1. PICK col \in 1..3, row \in 1..3 : col = Third(x, w) /\ row = Third(y, h)
    BY Thirds
<1>2. drawn_at[zone_grid[row][col]] = <<col - 1, row - 1>>
    <2>1. CASE row = 1
        BY <2>1 DEF drawn_at, zone_grid
    <2>2. CASE row = 2
        BY <2>2 DEF drawn_at, zone_grid
    <2>3. CASE row = 3
        BY <2>3 DEF drawn_at, zone_grid
    <2> QED BY <2>1, <2>2, <2>3
<1> QED BY <1>1, <1>2 DEF get_face_zone

(***************************************************************************)
(* The inductive invariant.                                                *)
(***************************************************************************)

\* The invariant TypeOK, with the counters TypeOK says nothing of.
Types ==
    /\ TypeOK
    /\ sent \in Nat /\ age \in Nat /\ elapsed \in Nat /\ frame_count \in Nat
    /\ \A s \in sends : s = <<s[1], s[2]>>

\* A round takes at most a third of a second, so three are counted before the count is
\* cleared, and it is known how long ago the last detection was.
Pace ==
    /\ frame_count = 0 => elapsed = 0
    /\ frame_count = 1 => 3 * elapsed <= SECOND
    /\ frame_count = 2 => 3 * elapsed <= 2 * SECOND
    /\ frame_count < detect_interval => age <= frame_count + 2
    /\ frame_count >= detect_interval => age = frame_count % detect_interval
    /\ frame_count <= elapsed

\* The last write is the zone the board is told, in flight or landed.
LastWrite ==
    /\ sent = 0 => last_zone = 0
    /\ \A s \in sends : s[1] = sent => s[2] = Told
    /\ Settled
    /\ pc = "clearing" => sent > 0
    /\ pc = "opening" => sent = 0

\* The zone is that of the face the detector found last.
OfFace == current_zone = FaceZone(last_face)

IInv == Types /\ Pace /\ LastWrite /\ OfFace

LEMMA InvInit == Init => IInv
<1> SUFFICES ASSUME Init PROVE IInv
    OBVIOUS
<1>1. Types
    BY Bounds DEF Init, Types, TypeOK
<1>2. Pace
    BY Bounds DEF Init, Pace, detect_interval
<1>3. LastWrite
    BY DEF Init, LastWrite, Settled, Told
<1>4. OfFace
    BY DEF Init, OfFace, FaceZone
<1> QED BY <1>1, <1>2, <1>3, <1>4 DEF IInv

\* The zone of what the detector found.
LEMMA FaceZones ==
    ASSUME NEW face \in Faces \cup {NoFace}
    PROVE  FaceZone(face) \in 0..9
<1>1. CASE face = NoFace
    BY <1>1 DEF FaceZone
<1>2. CASE face # NoFace
    <2>1. face \in (0..(2 * detect_w)) \X (0..(2 * detect_h))
        BY <1>2, FacesInPicture
    <2>2. face[1] \in Int /\ face[2] \in Int /\ detect_w \in Int /\ detect_h \in Int
        BY <2>1, SmallPicture
    <2>3. get_face_zone(face[1], face[2], detect_w, detect_h) \in 1..9
        BY <2>2, NineZones
    <2> QED BY <1>2, <2>3 DEF FaceZone
<1> QED BY <1>1, <1>2

\* A step of Iterate keeps the types; the count of rounds stays below the ticks of a second.
LEMMA IterateTypes ==
    ASSUME Types, Pace, NEW d \in Durations, Iterate(d)
    PROVE  Types'
<1>1. d \in Nat \ {0}
    BY ThreeASecond
<1>2. pc' = pc /\ frame' = frame /\ gaze' = gaze /\ landed' = landed /\ pc = "loop"
    BY DEF Iterate
<1>3. frame \in Faces \cup {NoFace}
    BY <1>2 DEF Types, TypeOK
<1>4. last_face' \in Faces \cup {NoFace} /\ age' \in Nat
    BY <1>3 DEF Iterate, Types, TypeOK
<1>5. current_zone' \in 0..9 /\ last_zone' = current_zone'
    BY <1>4, FaceZones DEF Iterate, ZoneSent
<1>6. /\ sent' \in Nat /\ landed' \in 0..sent'
      /\ \A s \in sends' : s[1] \in 1..sent' /\ s[2] \in 0..9 /\ s = <<s[1], s[2]>>
    <2>1. CASE current_zone' # last_zone
        <3>1. sent' = sent + 1 /\ sends' = sends \cup {<<sent + 1, current_zone'>>}
            BY <2>1 DEF Iterate, ZoneSent, Send
        <3> QED BY <1>2, <1>5, <3>1 DEF Types, TypeOK
    <2>2. CASE current_zone' = last_zone
        BY <1>2, <2>2 DEF Iterate, ZoneSent, Types, TypeOK
    <2> QED BY <2>1, <2>2
<1>7. /\ frame_count' \in 0..SECOND /\ elapsed' \in 0..(SECOND - 1)
      /\ frame_count' \in Nat /\ elapsed' \in Nat
    <2>1. CASE elapsed + d >= SECOND
        BY <2>1, Bounds DEF Iterate
    <2>2. CASE elapsed + d < SECOND
        <3>1. frame_count' = frame_count + 1 /\ elapsed' = elapsed + d
            BY <1>1, <2>2, Bounds DEF Iterate, Types
        <3> QED BY <1>1, <2>2, <3>1, Bounds DEF Types, Pace
    <2> QED BY <1>1, <2>1, <2>2, Bounds DEF Types
<1> QED BY <1>2, <1>4, <1>5, <1>6, <1>7 DEF Types, TypeOK

\* Three rounds are counted before the count is cleared.
LEMMA IteratePace ==
    ASSUME Types, Pace, NEW d \in Durations, Iterate(d)
    PROVE  Pace'
<1>1. d \in Nat \ {0} /\ 3 * d <= SECOND
    BY ThreeASecond DEF detect_interval
<1>2. frame_count \in Nat /\ elapsed \in Nat /\ age \in Nat /\ SECOND \in Nat \ {0}
    BY Bounds DEF Types
<1> DEFINE count == frame_count + 1
<1>3. IF count % 3 = 0 THEN age' = 0 ELSE age' = age + 1
    BY DEF Iterate, Detects, detect_interval
<1>4. (count < 3 => age' <= count + 2) /\ (count >= 3 => age' = count % 3)
    <2>1. CASE frame_count < 2
        BY <1>2, <1>3, <2>1 DEF Pace, detect_interval
    <2>2. CASE frame_count = 2
        BY <1>2, <1>3, <2>2 DEF Pace, detect_interval
    <2>3. CASE frame_count >= 3
        BY <1>2, <1>3, <2>3 DEF Pace, detect_interval
    <2> QED BY <1>2, <2>1, <2>2, <2>3
<1>5. CASE elapsed + d >= SECOND
    <2>1. frame_count' = 0 /\ elapsed' = 0
        BY <1>5 DEF Iterate
    <2>2. count >= 3
        BY <1>1, <1>2, <1>5 DEF Pace, detect_interval
    <2>3. age' <= 2
        BY <1>2, <1>4, <2>2
    <2> QED BY <2>1, <2>3, Bounds DEF Pace, detect_interval
<1>6. CASE elapsed + d < SECOND
    <2>1. frame_count' = count /\ elapsed' = elapsed + d
        BY <1>1, <1>2, <1>6 DEF Iterate
    <2>2. count = 1 => 3 * (elapsed + d) <= SECOND
        BY <1>1, <1>2 DEF Pace
    <2>3. count = 2 => 3 * (elapsed + d) <= 2 * SECOND
        BY <1>1, <1>2 DEF Pace
    <2>4. count <= elapsed + d /\ count # 0
        BY <1>1, <1>2 DEF Pace
    <2> QED BY <1>4, <2>1, <2>2, <2>3, <2>4 DEF Pace, detect_interval
<1> QED BY <1>1, <1>2, <1>5, <1>6

\* A changed zone is a new write, and the last.
LEMMA IterateLastWrite ==
    ASSUME Types, LastWrite, NEW d \in Durations, Iterate(d)
    PROVE  LastWrite'
<1>1. pc = "loop" /\ pc' = "loop" /\ gaze' = gaze /\ landed' = landed
    BY DEF Iterate
<1>2. Told = last_zone /\ Told' = last_zone'
    BY <1>1 DEF Told
<1>3. CASE current_zone' # last_zone
    <2>1. sent' = sent + 1 /\ sends' = sends \cup {<<sent + 1, last_zone'>>}
        BY <1>3 DEF Iterate, ZoneSent, Send
    <2>2. landed' # sent'
        BY <1>1, <2>1 DEF Types, TypeOK
    <2>3. \A s \in sends' : s[1] = sent' => s[2] = Told'
        BY <1>2, <2>1 DEF Types, TypeOK
    <2> QED BY <1>1, <2>1, <2>2, <2>3 DEF LastWrite, Settled, Types
<1>4. CASE current_zone' = last_zone
    <2>1. sent' = sent /\ sends' = sends /\ last_zone' = last_zone
        BY <1>4 DEF Iterate, ZoneSent
    <2> QED BY <1>1, <1>2, <2>1 DEF LastWrite, Settled
<1> QED BY <1>3, <1>4

\* A write that ends, well or not.
LEMMA WriteEnds ==
    ASSUME Types, LastWrite, NEW s \in sends, Lands(s) \/ Lost(s)
    PROVE  Types' /\ LastWrite'
<1>1. /\ UNCHANGED <<frame, pc, loop, sent>> /\ sends' = sends \ {s}
      /\ (gaze' = s[2] /\ landed' = s[1]) \/ UNCHANGED <<gaze, landed>>
    BY DEF Lands, Lost
<1>2. Types'
    BY <1>1 DEF loop, Types, TypeOK
<1>3. Told' = Told
    BY <1>1 DEF loop, Told
<1>4. Settled'
    BY <1>1, <1>3 DEF LastWrite, Settled
<1>5. LastWrite'
    BY <1>1, <1>3, <1>4 DEF loop, LastWrite
<1> QED BY <1>2, <1>5

\* The program ends with a write of its own.
LEMMA QuitKeeps ==
    ASSUME Types, LastWrite, Quit
    PROVE  Types' /\ LastWrite'
<1>1. /\ pc' = "clearing" /\ sent' = sent + 1 /\ sends' = sends \cup {<<sent + 1, 0>>}
      /\ UNCHANGED <<frame, loop, gaze, landed>>
    BY DEF Quit, Send
<1>2. Types'
    BY <1>1 DEF loop, Types, TypeOK
<1>3. sent' # 0 /\ sent' > 0 /\ Told' = 0 /\ landed' # sent'
    BY <1>1 DEF Told, Types, TypeOK
<1>4. \A s \in sends' : s[1] = sent' => s[2] = Told'
    BY <1>1, <1>3 DEF Types, TypeOK
<1>5. LastWrite'
    BY <1>1, <1>3, <1>4 DEF LastWrite, Settled
<1> QED BY <1>2, <1>5

\* Steps that write nothing and do not go round.
LEMMA OthersKeep ==
    ASSUME Types, LastWrite, Update \/ Open \/ End
    PROVE  Types' /\ LastWrite'
<1>1. UNCHANGED <<loop, writes>>
    BY DEF Update, Open, End
<1>2. CASE Update
    <2>1. frame' \in Faces \cup {NoFace} /\ pc' = pc
        BY <1>2 DEF Update
    <2>2. NoFrame \notin Faces \cup {NoFace}
        BY FacesInPicture, SmallPicture DEF NoFrame, NoFace
    <2>3. Types'
        BY <1>1, <2>1, <2>2 DEF loop, writes, Types, TypeOK
    <2>4. Told' = Told
        BY <1>1, <2>1 DEF loop, writes, Told
    <2> QED BY <1>1, <2>1, <2>3, <2>4 DEF loop, writes, LastWrite, Settled
<1>3. CASE Open
    <2>1. /\ pc = "opening" /\ frame' = frame
          /\ IF frame = NoFrame THEN pc' = "exited" ELSE pc' = "loop"
        BY <1>3 DEF Open
    <2>2. Types'
        BY <1>1, <2>1 DEF loop, writes, Types, TypeOK
    <2>3. sent = 0 /\ sent' = 0 /\ Told' = Told
        BY <1>1, <2>1 DEF loop, writes, LastWrite, Told
    <2> QED BY <1>1, <2>1, <2>2, <2>3 DEF loop, writes, LastWrite, Settled
<1>4. CASE End
    <2>1. pc = "clearing" /\ pc' = "exited" /\ frame' = frame
        BY <1>4 DEF End
    <2>2. Types'
        BY <1>1, <2>1 DEF loop, writes, Types, TypeOK
    <2>3. Told' = Told
        BY <1>1, <2>1 DEF loop, writes, LastWrite, Told
    <2> QED BY <1>1, <2>1, <2>2, <2>3 DEF loop, writes, LastWrite, Settled
<1> QED BY <1>2, <1>3, <1>4

LEMMA InvStep == IInv /\ [Next]_vars => IInv'
<1> SUFFICES ASSUME Types, Pace, LastWrite, OfFace, [Next]_vars
             PROVE  Types' /\ Pace' /\ LastWrite' /\ OfFace'
    BY DEF IInv
<1>0. UNCHANGED loop => OfFace'
    BY DEF loop, OfFace
<1>1. CASE \E d \in Durations : Iterate(d)
    <2>1. OfFace'
        BY <1>1 DEF Iterate, OfFace
    <2> QED BY <1>1, <2>1, IterateTypes, IteratePace, IterateLastWrite
<1>2. CASE UNCHANGED loop /\ (Update \/ Open \/ End)
    BY <1>0, <1>2, OthersKeep DEF loop, Pace
<1>3. CASE Quit
    <2>1. UNCHANGED loop
        BY <1>3 DEF Quit
    <2> QED BY <1>0, <1>3, <2>1, QuitKeeps DEF loop, Pace
<1>4. CASE \E s \in sends : Lands(s) \/ Lost(s)
    <2>1. UNCHANGED loop
        BY <1>4 DEF Lands, Lost
    <2> QED BY <1>0, <1>4, <2>1, WriteEnds DEF loop, Pace
<1>5. CASE UNCHANGED vars
    BY <1>0, <1>5 DEF vars, loop, writes, Types, TypeOK, Pace, LastWrite, Settled, Told
<1>6. Update \/ Open \/ End => UNCHANGED loop
    BY DEF Update, Open, End
<1> QED BY <1>1, <1>2, <1>3, <1>4, <1>5, <1>6 DEF Next

THEOREM Invariant == Spec => []IInv
<1> QED BY InvInit, InvStep, PTL DEF Spec

(***************************************************************************)
(* The theorems.                                                           *)
(***************************************************************************)

\* Every variable of the tracker keeps its type, whatever the frames, the speed of the loop
\* and the fate of the writes.
THEOREM TypeCorrect == Spec => []TypeOK
<1>1. IInv => TypeOK
    BY DEF IInv, Types
<1> QED BY <1>1, Invariant, PTL

\* The detector is not starved by the count that begins again each second: a face is looked
\* for at least every fifth round.
THEOREM NotStarved == Spec => []DetectsOften
<1>1. IInv => DetectsOften
    <2> SUFFICES ASSUME Types, Pace PROVE age < 5
        BY DEF IInv, DetectsOften, detect_interval
    <2>1. CASE frame_count < 3
        BY <2>1 DEF Types, Pace, detect_interval
    <2>2. CASE frame_count >= 3
        BY <2>2 DEF Types, Pace, detect_interval
    <2> QED BY <2>1, <2>2 DEF Types
<1> QED BY <1>1, Invariant, PTL

\* The board has the zone it was told last, unless that write is lost, late or overtaken.
THEOREM BoardSettled == Spec => []Settled
<1>1. IInv => Settled
    BY DEF IInv, LastWrite
<1> QED BY <1>1, Invariant, PTL

\* ZonesAsDrawn: for a face anywhere in a video of any size, the circle on it lies, to a pixel,
\* in the ninth of the frame in which the number of its zone begins.
THEOREM DrawnRight == Spec => []ZonesAsDrawn
<1>1. IInv => ZonesAsDrawn
    <2> SUFFICES ASSUME Types, OfFace, current_zone # 0 PROVE ZonesAsDrawn
        BY DEF IInv, ZonesAsDrawn
    <2>1. /\ last_face \in (0..(2 * detect_w)) \X (0..(2 * detect_h))
          /\ current_zone = get_face_zone(last_face[1], last_face[2], detect_w, detect_h)
        BY FacesInPicture DEF Types, TypeOK, OfFace, FaceZone
    <2>2. PICK x \in 0..(2 * detect_w), y \in 0..(2 * detect_h) :
              x = last_face[1] /\ y = last_face[2]
        BY <2>1
    <2>3. PICK col \in 0..2, row \in 0..2 :
              col = Third(x, detect_w) - 1 /\ row = Third(y, detect_h) - 1
        BY <2>2, SmallPicture, Thirds
    <2>4. drawn_at[current_zone] = <<col, row>>
        <3>1. x \in Int /\ y \in Int /\ detect_w \in Int /\ detect_h \in Int
            BY SmallPicture
        <3>2. drawn_at[get_face_zone(x, y, detect_w, detect_h)]
                = <<Third(x, detect_w) - 1, Third(y, detect_h) - 1>>
            BY <3>1, NumberOfZone
        <3>3. current_zone = get_face_zone(x, y, detect_w, detect_h)
            BY <2>1, <2>2
        <3> QED BY <2>3, <3>2, <3>3
    <2>5. Between(Scaled(x, FrameWidth, detect_w), col, FrameWidth, 1)
        BY <2>3, SmallPicture, CircleInThird
    <2>6. Between(Scaled(y, FrameHeight, detect_h), row, FrameHeight, 1)
        BY <2>3, SmallPicture, CircleInThird
    <2>7. /\ Between(Middle(col, FrameWidth) - 15, col, FrameWidth, 0)
          /\ Between(Middle(row, FrameHeight) + 15, row, FrameHeight, 0)
        BY SmallPicture, TextInThird
    <2> QED BY <2>2, <2>4, <2>5, <2>6, <2>7 DEF ZonesAsDrawn, TextAt
<1> QED BY <1>1, Invariant, PTL

=============================================================================

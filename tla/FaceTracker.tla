------------------------------ MODULE FaceTracker ------------------------------
(***************************************************************************)
(* The face tracker of a PC, face_tracker_grid.py: the thread that reads   *)
(* the board's video, the loop that finds a face and its zone, and the     *)
(* threads that write the zone to the board over ssh.                      *)
(*                                                                         *)
(* The loop runs for itself, so one iteration of it is one step.  What the *)
(* detector finds in a frame is the frame here: the centre of a face in    *)
(* half pixels of the small picture, or NoFace.  An ssh that is given up after  *)
(* 0.5 s may still write: a write lands, or is lost, at any time and in    *)
(* any order, and send_zone_ssh's answer is not used.                      *)
(***************************************************************************)
EXTENDS Integers, FiniteSets

CONSTANTS
    FrameWidth,       \* frame_width, frame_height
    FrameHeight,
    Faces,            \* the centres a face may have
    Durations,        \* what an iteration of the loop may take
    SECOND,           \* one second
    MaxSends          \* bound on the writes of the loop

NoFace == <<-1, -1>>
NoFrame == <<-2, -2>>

detect_interval == 3

\* A quarter of the frame.
detect_w == FrameWidth \div 4
detect_h == FrameHeight \div 4

\* A digit is put 15 pixels beside the middle of a ninth of the frame: there is room for that.
ASSUME PictureSize ==
    FrameWidth \in Nat /\ FrameWidth >= 102 /\ FrameHeight \in Nat /\ FrameHeight >= 102
ASSUME Bounds == SECOND \in Nat \ {0} /\ MaxSends \in Nat
ASSUME FacesInPicture == Faces \subseteq (0..(2 * detect_w)) \X (0..(2 * detect_h))
ASSUME ThreeASecond == \A d \in Durations : d \in Nat \ {0} /\ detect_interval * d <= SECOND

VARIABLES
    frame,            \* VideoStream.frame, with grabbed
    pc,               \* of face_tracking_grid
    last_face, current_zone, last_zone, frame_count,
    elapsed,          \* time.time() - fps_start
    sends,            \* the writes in flight: <<number, zone>>
    gaze,             \* GAZE_FILE of the board
    \* History, read by no action.
    sent,             \* writes begun
    age,              \* iterations since the last detection
    landed            \* the number of the write that landed last

loop == <<last_face, current_zone, last_zone, frame_count, elapsed, age>>
writes == <<sends, gaze, sent, landed>>
vars == <<frame, pc, loop, writes>>

---------------------------------------------------------------------------
(* The zones.                                                              *)

\* c is in half pixels, size in pixels.
Third(c, size) == IF 3 * c < 2 * size THEN 1 ELSE IF 3 * c < 4 * size THEN 2 ELSE 3

zone_grid == << <<1, 6, 2>>,
                <<8, 5, 9>>,
                <<3, 7, 4>> >>

\* Fault: row and column in the other order.
ZoneTransposed(x, y, w, h) == zone_grid[Third(x, w)][Third(y, h)]

get_face_zone(x, y, w, h) == zone_grid[Third(y, h)][Third(x, w)]

FaceZone(face) == IF face = NoFace THEN 0 ELSE get_face_zone(face[1], face[2], detect_w, detect_h)

---------------------------------------------------------------------------
(* What is drawn in the frame that is shown.                               *)

\* The circle on a face: its centre c, in half pixels of the small picture, scaled up.  The
\* code's floats may come out a pixel lower.
Scaled(c, size, small) == (c * size) \div (2 * small)

\* zones_coords of draw_grid: the column and row, 0 to 2, a zone's number is put in.
drawn_at == << <<0, 0>>, <<2, 0>>, <<0, 2>>, <<2, 2>>,
               <<1, 1>>, <<1, 0>>, <<1, 2>>, <<0, 1>>, <<2, 1>> >>

Middle(k, size) == k * (size \div 3) + (size \div 3) \div 2

\* Where the text begins, below and to the left of the middle of its column and row.
TextAt(place) == <<Middle(place[1], FrameWidth) - 15, Middle(place[2], FrameHeight) + 15>>

---------------------------------------------------------------------------
(* VideoStream.update; a read that fails keeps the frame.                  *)

Update == /\ \E f \in Faces \cup {NoFace} : frame' = f
          /\ UNCHANGED <<pc, loop, writes>>

---------------------------------------------------------------------------
(* send_zone_ssh.                                                          *)

Send(zone) ==
    sent' = sent + 1 /\ sends' = sends \cup {<<sent', zone>>}

Lands(s) ==
    /\ gaze' = s[2] /\ sends' = sends \ {s} /\ landed' = s[1]
    /\ UNCHANGED <<frame, pc, loop, sent>>

Lost(s) ==
    /\ sends' = sends \ {s}
    /\ UNCHANGED <<frame, pc, loop, gaze, sent, landed>>

---------------------------------------------------------------------------
(* face_tracking_grid.                                                     *)

\* Fault: the loop begins without a frame.
OpenAnyway ==
    /\ pc = "opening" /\ pc' = "loop"
    /\ UNCHANGED <<frame, loop, writes>>

\* The check of the first frame; without one the program exits.
Open ==
    /\ pc = "opening" /\ pc' = IF frame = NoFrame THEN "exited" ELSE "loop"
    /\ UNCHANGED <<frame, loop, writes>>

\* Fault: every fourth frame.
DetectLate(count) == count % (detect_interval + 1) = 0

Detects(count) == count % detect_interval = 0

\* Fault: a lost face is noted, and not sent.
ZoneSentFaces ==
    /\ last_zone' = current_zone'
    /\ IF current_zone' \notin {last_zone, 0} THEN Send(current_zone')
       ELSE UNCHANGED <<sends, sent>>

ZoneSent ==
    /\ last_zone' = current_zone'
    /\ IF current_zone' # last_zone THEN Send(current_zone')
       ELSE UNCHANGED <<sends, sent>>

Iterate(d) ==
    /\ pc = "loop" /\ sent < MaxSends
    /\ LET count == frame_count + 1 IN
       /\ IF Detects(count) THEN last_face' = frame /\ age' = 0
          ELSE age' = age + 1 /\ UNCHANGED last_face
       /\ current_zone' = FaceZone(last_face')
       /\ ZoneSent
       /\ IF elapsed + d >= SECOND THEN frame_count' = 0 /\ elapsed' = 0
          ELSE frame_count' = count /\ elapsed' = elapsed + d
    /\ UNCHANGED <<frame, pc, gaze, landed>>

\* The q key, Ctrl-C or an error: vs.stop(), and send_zone_ssh(0) is called.
Quit ==
    /\ pc = "loop" /\ pc' = "clearing"
    /\ Send(0)
    /\ UNCHANGED <<frame, loop, gaze, landed>>

\* It returns: the write is done, has failed, or was waited for 0.5 s.
End ==
    /\ pc = "clearing" /\ pc' = "exited"
    /\ UNCHANGED <<frame, loop, writes>>

---------------------------------------------------------------------------
\* The program has tested ssh with a first send_zone_ssh(0).
Init ==
    /\ frame = NoFrame /\ pc = "opening"
    /\ last_face = NoFace /\ current_zone = 0 /\ last_zone = 0
    /\ frame_count = 0 /\ elapsed = 0 /\ age = 0
    /\ sends = {} /\ gaze = 0 /\ sent = 0 /\ landed = 0

Next == \/ Update /\ pc # "exited"
        \/ Open \/ Quit \/ End
        \/ \E d \in Durations : Iterate(d)
        \/ \E s \in sends : Lands(s) \/ Lost(s)

Spec == Init /\ [][Next]_vars

---------------------------------------------------------------------------
(* Properties.                                                             *)

\* Every variable keeps its type.
TypeOK ==
    /\ frame \in Faces \cup {NoFace, NoFrame} /\ last_face \in Faces \cup {NoFace}
    /\ pc \in {"opening", "loop", "clearing", "exited"} /\ (pc = "loop" => frame # NoFrame)
    /\ current_zone \in 0..9 /\ last_zone = current_zone /\ gaze \in 0..9
    /\ frame_count \in 0..SECOND /\ elapsed \in 0..(SECOND - 1)
    /\ landed \in 0..sent /\ \A s \in sends : s[1] \in 1..sent /\ s[2] \in 0..9

\* frame_count starts again each second, between two detections too, yet a face is looked
\* for at least every fifth time round: with three rounds a second none is starved.
DetectsOften == age < 2 * detect_interval - 1

\* The zone the board was told last.
Told == IF pc \in {"clearing", "exited"} /\ sent > 0 THEN 0 ELSE last_zone

\* The board has the last zone, a lost face and the end of the program included, unless the
\* last write is lost, late, or overtaken by an earlier one.
Settled == landed = sent => gaze = Told

\* Point p of a side is, but for m pixels, between the lines of draw_grid that bound part k.
Between(p, k, size, m) ==
    /\ k * (size \div 3) - m <= p
    /\ p <= m + IF k = 2 THEN size ELSE (k + 1) * (size \div 3)

\* The zone is found in the small picture, by thirds that are fractions, and shown in the frame,
\* between lines at whole pixels: all the same the circle on the face lies, to a pixel, in the
\* ninth of the frame in which the number that is lit begins.
ZonesAsDrawn ==
    current_zone # 0 =>
        LET place == drawn_at[current_zone] IN
        /\ Between(Scaled(last_face[1], FrameWidth, detect_w), place[1], FrameWidth, 1)
        /\ Between(Scaled(last_face[2], FrameHeight, detect_h), place[2], FrameHeight, 1)
        /\ Between(TextAt(place)[1], place[1], FrameWidth, 0)
        /\ Between(TextAt(place)[2], place[2], FrameHeight, 0)

=============================================================================

----------------------------- MODULE AudioQueue -----------------------------
(***************************************************************************)
(* What the speaker buffer of the ESP32 promises: a queue of bytes that a  *)
(* session opens empty.  In playback a chunk for which there is room goes  *)
(* in whole and any other not at all; in a call every chunk goes in and    *)
(* the queue keeps the newest bytes.  Only a fault loses a chunk.  The     *)
(* speaker takes bytes from the front and plays whole samples, also after  *)
(* the session ended.                                                      *)
(***************************************************************************)
EXTENDS Integers, Sequences

CONSTANTS
    Tags,          \* bytes are told apart by their place in the stream modulo Tags
    ChunkLens,     \* lengths of the chunks that are offered
    Capacity,      \* bytes the queue holds in playback
    CallCapacity   \* bytes it holds in a call

VARIABLES
    queue,   \* bytes waiting for the speaker, oldest first
    mode,    \* "off", "play" or "call"
    next,    \* place in its stream of the next byte that is offered
    out,     \* bytes the speaker is playing
    faults   \* how many faults there have been

vars == <<queue, mode, next, out, faults>>

Chunk(n) == [i \in 1..n |-> (next + i - 1) % Tags]

\* The last n elements of s, or all of it.
Newest(s, n) == IF Len(s) <= n THEN s ELSE SubSeq(s, Len(s) - n + 1, Len(s))

Init == queue = <<>> /\ mode = "off" /\ next = 0 /\ out = <<>> /\ faults = 0

\* The driver may fail as a session opens.
Open == /\ queue' = <<>> /\ mode' \in {"play", "call"} /\ next' = 0 /\ UNCHANGED out
        /\ faults' \in {faults, faults + 1}

Close == mode' = "off" /\ UNCHANGED <<queue, next, out, faults>>

Reset == queue' = <<>> /\ mode' = "off" /\ out' = <<>> /\ faults' = faults + 1 /\ UNCHANGED next

\* Another stream follows in the same session.
Restream == next' = 0 /\ UNCHANGED <<queue, mode, out, faults>>

\* The queue once chunk p has been offered.
Stored(p) ==
    CASE mode = "off"  -> queue
      [] mode = "play" -> IF Len(queue) + Len(p) <= Capacity THEN queue \o p ELSE queue
      [] mode = "call" -> Newest(queue \o p, CallCapacity)

Offer(n) == /\ queue' = Stored(Chunk(n))
            /\ next' = (next + n) % Tags
            /\ UNCHANGED <<mode, out, faults>>

\* A fault loses the chunk on its way.
Lost(n) == /\ faults' = faults + 1
           /\ next' = (next + n) % Tags
           /\ UNCHANGED <<queue, mode, out>>

\* A fault elsewhere, which the queue does not notice.
Elsewhere == faults' = faults + 1 /\ UNCHANGED <<queue, mode, next, out>>

Take == \E n \in 1..Len(queue) :
            /\ queue' = SubSeq(queue, n + 1, Len(queue))
            /\ out' = SubSeq(queue, 1, n - (n % 2))
            /\ UNCHANGED <<mode, next, faults>>

Played == out' = <<>> /\ UNCHANGED <<queue, mode, next, faults>>

Next == \/ Open \/ Close \/ Reset \/ Restream \/ Elsewhere \/ Take \/ Played
        \/ \E n \in ChunkLens : Offer(n) \/ Lost(n)

Spec == Init /\ [][Next]_vars

=============================================================================

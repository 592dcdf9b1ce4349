-------------------------------- MODULE FanOut --------------------------------
(***************************************************************************)
(* What MicReceiver and the stream handlers promise their listeners: the   *)
(* chunks of the microphone, numbered as they come, reach each listener in *)
(* order and once, at most Batch of them together, and one is left out     *)
(* only where Capacity chunks wait for that listener itself, those it is   *)
(* about to be given not counted.                                          *)
(***************************************************************************)
EXTENDS Naturals, Sequences

CONSTANTS Listeners, Capacity, Batch

VARIABLES
    listening,  \* those connected
    waiting,    \* waiting[l]: the chunks kept for l, oldest first
    taken,      \* taken[l]: those before them, that l will be given next
    heard,      \* heard[l]: what l is given in this step
    last        \* the number of the last chunk

vars == <<listening, waiting, taken, heard, last>>

Nothing == [l \in Listeners |-> <<>>]

Init == /\ listening = {} /\ waiting = Nothing /\ taken = Nothing
        /\ heard = Nothing /\ last = 0

Join(l) == /\ l \notin listening
           /\ listening' = listening \cup {l}
           /\ heard' = Nothing /\ UNCHANGED <<waiting, taken, last>>

Leave(l) == /\ l \in listening
            /\ listening' = listening \ {l}
            /\ waiting' = [waiting EXCEPT ![l] = <<>>] /\ taken' = [taken EXCEPT ![l] = <<>>]
            /\ heard' = Nothing /\ UNCHANGED last

\* Every listener is offered the next chunk, whatever becomes of the others.
Chunk == \E takers \in SUBSET listening :
            /\ \A l \in listening \ takers : Len(waiting[l]) >= Capacity
            /\ last' = last + 1
            /\ waiting' = [l \in Listeners |-> IF l \in takers THEN Append(waiting[l], last')
                                               ELSE waiting[l]]
            /\ heard' = Nothing /\ UNCHANGED <<listening, taken>>

Take(l) == /\ waiting[l] # <<>> /\ Len(taken[l]) < Batch
           /\ taken' = [taken EXCEPT ![l] = Append(@, Head(waiting[l]))]
           /\ waiting' = [waiting EXCEPT ![l] = Tail(@)]
           /\ heard' = Nothing /\ UNCHANGED <<listening, last>>

Deliver(l) == /\ taken[l] # <<>>
              /\ heard' = [Nothing EXCEPT ![l] = taken[l]]
              /\ taken' = [taken EXCEPT ![l] = <<>>]
              /\ UNCHANGED <<listening, waiting, last>>

\* A write is over.
Quiet == heard' = Nothing /\ UNCHANGED <<listening, waiting, taken, last>>

Next == \/ Chunk \/ Quiet
        \/ \E l \in Listeners : Join(l) \/ Leave(l) \/ Take(l) \/ Deliver(l)

Spec == Init /\ [][Next]_vars

=============================================================================

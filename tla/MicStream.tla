------------------------------- MODULE MicStream -------------------------------
(***************************************************************************)
(* From the microphone to the listeners: the fan-out of a PKT_MIC_DATA in  *)
(* MicReceiver._handle_packet, and the loops of the handlers of            *)
(* /api/audio/stream and /api/audio/call/rx.                               *)
(*                                                                         *)
(* A chunk is the payload of one packet, known by its number; BATCH counts *)
(* chunks.  When a call begins and ends is free here: MicCall says.        *)
(***************************************************************************)
EXTENDS Naturals, Sequences

CONSTANTS
    Listeners,    \* handlers of a stream
    RxListeners,  \* those of call/rx
    QUEUE_MAX,    \* maxsize of a listener's queue, 200
    BATCH,        \* BATCH_TARGET
    MaxChunks     \* bound on the chunks of a behaviour

ASSUME RxAreListeners == RxListeners \subseteq Listeners
ASSUME SizesNat == QUEUE_MAX \in Nat \ {0} /\ BATCH \in Nat \ {0} /\ MaxChunks \in Nat

VARIABLES
    last,         \* the number of the last chunk that came
    call_active,  \* _call_active
    at,           \* at[l]: the next operation of handler l, "off" without a client
    queues,       \* queues[l]: l's queue, in _stream_queues
    batch,        \* batch[l]: its batch
    heard         \* history: what each client is written in this step

vars == <<last, call_active, at, queues, batch, heard>>

Nothing == [l \in Listeners |-> <<>>]

Connected == {l \in Listeners : at[l] # "off"}

---------------------------------------------------------------------------
(* The reader thread.                                                      *)

Kept(q, chunk) == IF Len(q) < QUEUE_MAX THEN Append(q, chunk) ELSE q

\* Fault: the first full queue ends the loop over the queues.
FanOutStops ==
    /\ last < MaxChunks /\ last' = last + 1
    /\ queues' = IF \E l \in Connected : Len(queues[l]) >= QUEUE_MAX THEN queues
                 ELSE [l \in Listeners |-> IF l \in Connected THEN Kept(queues[l], last')
                                           ELSE queues[l]]
    /\ heard' = Nothing
    /\ UNCHANGED <<call_active, at, batch>>

\* put_nowait into every queue; a full one misses the chunk.
FanOutChunk ==
    /\ last < MaxChunks /\ last' = last + 1
    /\ queues' = [l \in Listeners |-> IF l \in Connected THEN Kept(queues[l], last')
                                      ELSE queues[l]]
    /\ heard' = Nothing
    /\ UNCHANGED <<call_active, at, batch>>

CallFlag ==
    /\ call_active' = ~call_active /\ heard' = Nothing
    /\ UNCHANGED <<last, at, queues, batch>>

---------------------------------------------------------------------------
(* The handlers.                                                           *)

\* add_stream; call/rx wants a call.
Add(l) ==
    /\ at[l] = "off" /\ (l \in RxListeners => call_active)
    /\ at' = [at EXCEPT ![l] = "loop"] /\ heard' = Nothing
    /\ UNCHANGED <<last, call_active, queues, batch>>

\* `while True`; `while _call_active` in call/rx.
Loop(l) ==
    /\ at[l] = "loop" /\ (l \in RxListeners => call_active)
    /\ at' = [at EXCEPT ![l] = "get"] /\ heard' = Nothing
    /\ UNCHANGED <<last, call_active, queues, batch>>

\* stream_q.get(timeout=0.1): a chunk, or none.
Get(l) ==
    /\ at[l] = "get"
    /\ at' = [at EXCEPT ![l] = "test"] /\ heard' = Nothing
    /\ IF queues[l] = <<>> THEN UNCHANGED <<queues, batch>>
       ELSE /\ batch' = [batch EXCEPT ![l] = Append(@, Head(queues[l]))]
            /\ queues' = [queues EXCEPT ![l] = Tail(@)]
    /\ UNCHANGED <<last, call_active>>

\* Fault: only a full batch is written.
FullOnly(l) == Len(batch[l]) >= BATCH

\* A full batch is written, and any once the queue is empty.
Ready(l) == Len(batch[l]) >= BATCH \/ (batch[l] # <<>> /\ queues[l] = <<>>)

Test(l) ==
    /\ at[l] = "test"
    /\ at' = [at EXCEPT ![l] = IF Ready(l) THEN "write" ELSE "loop"] /\ heard' = Nothing
    /\ UNCHANGED <<last, call_active, queues, batch>>

\* Fault: the batch is kept after it was written.
WriteKeeps(l) ==
    /\ at[l] = "write"
    /\ at' = [at EXCEPT ![l] = "loop"]
    /\ heard' = [Nothing EXCEPT ![l] = batch[l]]
    /\ UNCHANGED <<last, call_active, queues, batch>>

\* wfile.write takes as long as the client lets it.
Write(l) ==
    /\ at[l] = "write"
    /\ at' = [at EXCEPT ![l] = "loop"]
    /\ heard' = [Nothing EXCEPT ![l] = batch[l]] /\ batch' = [batch EXCEPT ![l] = <<>>]
    /\ UNCHANGED <<last, call_active, queues>>

\* The client has gone, or the call of call/rx is over: remove_stream; the batch is lost.
Ends(l) ==
    /\ at[l] = "write" \/ (at[l] = "loop" /\ l \in RxListeners /\ ~call_active)
    /\ at' = [at EXCEPT ![l] = "off"] /\ heard' = Nothing
    /\ queues' = [queues EXCEPT ![l] = <<>>] /\ batch' = [batch EXCEPT ![l] = <<>>]
    /\ UNCHANGED <<last, call_active>>

---------------------------------------------------------------------------
Init ==
    /\ last = 0 /\ call_active = FALSE
    /\ at = [l \in Listeners |-> "off"]
    /\ queues = Nothing /\ batch = Nothing /\ heard = Nothing

Handler(l) == Loop(l) \/ Get(l) \/ Test(l) \/ Write(l)

Next == \/ FanOutChunk \/ CallFlag
        \/ \E l \in Listeners : Add(l) \/ Handler(l) \/ Ends(l)

\* The handler threads run, and their clients read what is written.
Spec == Init /\ [][Next]_vars /\ \A l \in Listeners : WF_vars(Handler(l))

---------------------------------------------------------------------------
(* Properties.                                                             *)

Promise == INSTANCE FanOut WITH listening <- Connected, waiting <- queues, taken <- batch,
                                Capacity <- QUEUE_MAX, Batch <- BATCH

\* Queues, batches and the loops of the handlers implement FanOut: however slow a listener
\* is, and whoever joins or leaves, each hears the chunks in order and once, and misses only
\* those that came when its own queue was full; a full batch excuses nothing.
ListenersPromised == Promise!Spec

\* What the handler of l has not written yet.
Held(l) == batch[l] \o queues[l]

\* Every variable keeps its type; no queue grows past its size, no batch past BATCH, and a
\* handler that has ended leaves nothing for the next.
TypeOK ==
    /\ last \in 0..MaxChunks /\ call_active \in BOOLEAN
    /\ at \in [Listeners -> {"off", "loop", "get", "test", "write"}]
    /\ queues \in [Listeners -> Seq(1..MaxChunks)] /\ batch \in [Listeners -> Seq(1..MaxChunks)]
    /\ \A l \in Listeners : /\ Len(queues[l]) <= QUEUE_MAX /\ Len(batch[l]) <= BATCH
                            /\ (at[l] = "off" => Held(l) = <<>>)

\* A listener with something waiting is written something, also when no more comes.
Flushed == \A l \in Listeners : (Held(l) # <<>>) ~>
    (heard[l] # <<>> \/ at[l] = "off" \/ (l \in RxListeners /\ ~call_active))

=============================================================================

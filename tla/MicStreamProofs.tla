--------------------------- MODULE MicStreamProofs ---------------------------
(***************************************************************************)
(* Theorems about MicStream, for every set of listeners and every size of  *)
(* queue and batch: its types, and that it implements FanOut.              *)
(***************************************************************************)
EXTENDS MicStream, SequenceTheorems, TLAPS

Chunks == 1..MaxChunks

(***************************************************************************)
(* The inductive invariant.                                                *)
(***************************************************************************)

\* One listener: only a handler about to test or write has a full batch, and one that writes
\* has something.
ListenerOK(l) ==
    /\ at[l] \in {"off", "loop", "get", "test", "write"}
    /\ queues[l] \in Seq(Chunks) /\ batch[l] \in Seq(Chunks)
    /\ Len(queues[l]) <= QUEUE_MAX /\ Len(batch[l]) <= BATCH
    /\ at[l] = "off" => queues[l] = <<>> /\ batch[l] = <<>>
    /\ at[l] \in {"loop", "get"} => Len(batch[l]) < BATCH
    /\ at[l] = "write" => batch[l] # <<>>

Shapes ==
    /\ at \in [Listeners -> {"off", "loop", "get", "test", "write"}]
    /\ queues \in [Listeners -> Seq(Chunks)] /\ batch \in [Listeners -> Seq(Chunks)]

Counts == last \in 0..MaxChunks /\ call_active \in BOOLEAN

IInv == Counts /\ Shapes /\ \A l \in Listeners : ListenerOK(l)

LEMMA InvTypeOK == IInv => TypeOK
<1> SUFFICES ASSUME IInv PROVE TypeOK
    OBVIOUS
<1>1. ASSUME NEW l \in Listeners, at[l] = "off"
      PROVE  Held(l) = <<>>
    <2>1. queues[l] = <<>> /\ batch[l] = <<>>
        BY <1>1 DEF IInv, ListenerOK
    <2>2. <<>> \in Seq(Chunks) /\ <<>> \o <<>> = <<>>
        BY EmptySeq, ConcatEmptySeq
    <2> QED BY <2>1, <2>2 DEF Held
<1> QED BY <1>1 DEF IInv, Counts, Shapes, ListenerOK, TypeOK, Chunks

LEMMA InvInit == Init => IInv
<1> SUFFICES ASSUME Init PROVE IInv
    OBVIOUS
<1>1. <<>> \in Seq(Chunks) /\ Len(<<>>) = 0
    BY EmptySeq
<1>2. Counts
    <2>1. last \in 0..MaxChunks
        BY SizesNat DEF Init
    <2>2. call_active \in BOOLEAN
        BY Zenon DEF Init
    <2> QED BY <2>1, <2>2 DEF Counts
<1>3. /\ at = [l \in Listeners |-> "off"]
      /\ queues = [l \in Listeners |-> <<>>] /\ batch = [l \in Listeners |-> <<>>]
    BY DEF Init, Nothing
<1>4. \A l \in Listeners : at[l] = "off" /\ queues[l] = <<>> /\ batch[l] = <<>>
    BY <1>3
<1>5. Shapes
    BY <1>1, <1>3, Zenon DEF Shapes
<1>6. ASSUME NEW l \in Listeners PROVE ListenerOK(l)
    <2>1. Len(batch[l]) = 0 /\ Len(queues[l]) = 0
        BY <1>1, <1>4
    <2>2. Len(batch[l]) < BATCH /\ Len(batch[l]) <= BATCH /\ Len(queues[l]) <= QUEUE_MAX
        BY <2>1, SizesNat
    <2>3. queues[l] \in Seq(Chunks) /\ batch[l] \in Seq(Chunks)
        BY <1>1, <1>4
    <2>4. at[l] = "off" /\ at[l] # "write"
        BY <1>4
    <2> QED BY <1>4, <2>2, <2>3, <2>4, Zenon DEF ListenerOK
<1> QED BY <1>2, <1>5, <1>6 DEF IInv

\* A chunk is put in the queues that have room.
LEMMA FanOutInv ==
    ASSUME IInv, FanOutChunk
    PROVE  IInv'
<1>1. Counts /\ Shapes /\ \A l \in Listeners : ListenerOK(l)
    BY DEF IInv
<1>2. /\ last' = last + 1 /\ last' \in Chunks
      /\ queues' = [l \in Listeners |-> IF l \in Connected THEN Kept(queues[l], last')
                                        ELSE queues[l]]
      /\ UNCHANGED <<call_active, at, batch>>
    BY <1>1, SizesNat DEF FanOutChunk, Counts, Chunks
<1>3. ASSUME NEW l \in Listeners
      PROVE  queues'[l] \in Seq(Chunks) /\ ListenerOK(l)'
    <2>1. ListenerOK(l)
        BY <1>1
    <2>2. queues'[l] = IF l \in Connected THEN Kept(queues[l], last') ELSE queues[l]
        BY <1>2
    <2>3. CASE l \in Connected /\ Len(queues[l]) < QUEUE_MAX
        <3>1. queues'[l] = Append(queues[l], last')
            BY <2>2, <2>3 DEF Kept
        <3>2. queues'[l] \in Seq(Chunks) /\ Len(queues'[l]) = Len(queues[l]) + 1
            <4>1. queues[l] \in Seq(Chunks) /\ last' \in Chunks
                BY <1>2, <2>1 DEF ListenerOK
            <4>2. /\ Append(queues[l], last') \in Seq(Chunks)
                  /\ Len(Append(queues[l], last')) = Len(queues[l]) + 1
                BY <4>1, AppendProperties
            <4> QED BY <3>1, <4>2
        <3>3. Len(queues'[l]) <= QUEUE_MAX
            BY <2>1, <2>3, <3>2, SizesNat DEF ListenerOK
        <3>4. at'[l] = at[l] /\ batch'[l] = batch[l] /\ at[l] # "off"
            BY <1>2, <2>3 DEF Connected
        <3> QED BY <2>1, <3>2, <3>3, <3>4 DEF ListenerOK
    <2>4. CASE ~(l \in Connected /\ Len(queues[l]) < QUEUE_MAX)
        <3>1. queues'[l] = queues[l]
            BY <2>2, <2>4 DEF Kept
        <3> QED BY <1>2, <2>1, <3>1 DEF ListenerOK
    <2> QED BY <2>3, <2>4
<1>4. Counts'
    BY <1>1, <1>2, SizesNat DEF Counts, Chunks
<1>5. Shapes'
    BY <1>1, <1>2, <1>3 DEF Shapes
<1> QED BY <1>3, <1>4, <1>5 DEF IInv

\* A step of one handler touches the state of no other.
LEMMA OneListener ==
    ASSUME IInv, NEW l \in Listeners, UNCHANGED <<last, call_active>>,
           NEW STATE a, NEW STATE q, NEW STATE b,
           at' = [at EXCEPT ![l] = a], queues' = [queues EXCEPT ![l] = q],
           batch' = [batch EXCEPT ![l] = b],
           q \in Seq(Chunks), b \in Seq(Chunks), Len(q) <= QUEUE_MAX, Len(b) <= BATCH,
           a \in {"off", "loop", "get", "test", "write"},
           a = "off" => q = <<>> /\ b = <<>>, a \in {"loop", "get"} => Len(b) < BATCH,
           a = "write" => b # <<>>
    PROVE  IInv'
<1>1. Counts /\ Shapes /\ \A k \in Listeners : ListenerOK(k)
    BY DEF IInv
<1>2. Shapes'
    BY <1>1 DEF Shapes
<1>3. Counts'
    BY <1>1 DEF Counts
<1>4. at'[l] = a /\ queues'[l] = q /\ batch'[l] = b
    BY <1>1 DEF Shapes
<1>5. \A k \in Listeners \ {l} : at'[k] = at[k] /\ queues'[k] = queues[k] /\ batch'[k] = batch[k]
    BY <1>1 DEF Shapes
<1>6. ListenerOK(l)'
    BY <1>4, Zenon DEF ListenerOK
<1>7. ASSUME NEW k \in Listeners \ {l} PROVE ListenerOK(k)'
    <2>1. at'[k] = at[k] /\ queues'[k] = queues[k] /\ batch'[k] = batch[k] /\ ListenerOK(k)
        BY <1>1, <1>5
    <2> QED BY <2>1, Zenon DEF ListenerOK
<1>8. \A k \in Listeners : ListenerOK(k)'
    BY <1>6, <1>7
<1> QED BY <1>2, <1>3, <1>8 DEF IInv

LEMMA LoopInv ==
    ASSUME IInv, NEW l \in Listeners, Loop(l)
    PROVE  IInv'
<1>1. Shapes /\ ListenerOK(l)
    BY DEF IInv
<1>2. /\ queues[l] \in Seq(Chunks) /\ batch[l] \in Seq(Chunks)
      /\ Len(queues[l]) <= QUEUE_MAX /\ Len(batch[l]) <= BATCH
    BY <1>1 DEF ListenerOK
<1>3. /\ queues' = [queues EXCEPT ![l] = queues[l]] /\ batch' = [batch EXCEPT ![l] = batch[l]]
      /\ UNCHANGED <<last, call_active>> /\ at' = [at EXCEPT ![l] = "get"]
    BY <1>1 DEF Loop, Shapes
<1>4. Len(batch[l]) < BATCH
    BY <1>1 DEF Loop, ListenerOK
<1> QED BY <1>2, <1>3, <1>4, OneListener

LEMMA GetInv ==
    ASSUME IInv, NEW l \in Listeners, Get(l)
    PROVE  IInv'
<1>1. Shapes /\ ListenerOK(l)
    BY DEF IInv
<1>2. at[l] = "get" /\ Len(batch[l]) < BATCH /\ UNCHANGED <<last, call_active>>
      /\ at' = [at EXCEPT ![l] = "test"]
    BY <1>1 DEF Get, ListenerOK
<1>3. /\ queues[l] \in Seq(Chunks) /\ batch[l] \in Seq(Chunks)
      /\ Len(queues[l]) <= QUEUE_MAX /\ Len(batch[l]) <= BATCH
    BY <1>1 DEF ListenerOK
<1>4. CASE queues[l] = <<>>
    <2>1. /\ queues' = [queues EXCEPT ![l] = queues[l]]
          /\ batch' = [batch EXCEPT ![l] = batch[l]]
        BY <1>1, <1>4 DEF Get, Shapes
    <2> QED BY <1>2, <1>3, <2>1, OneListener
<1>5. CASE queues[l] # <<>>
    <2> DEFINE b == Append(batch[l], Head(queues[l]))
               q == Tail(queues[l])
    <2>1. queues' = [queues EXCEPT ![l] = q] /\ batch' = [batch EXCEPT ![l] = b]
        BY <1>5 DEF Get
    <2>2. Head(queues[l]) \in Chunks /\ q \in Seq(Chunks) /\ Len(q) = Len(queues[l]) - 1
        BY <1>3, <1>5, HeadTailProperties
    <2>3. b \in Seq(Chunks) /\ Len(b) = Len(batch[l]) + 1
        BY <1>3, <2>2, AppendProperties
    <2>4. Len(queues[l]) \in Nat /\ Len(batch[l]) \in Nat
        BY <1>3, LenProperties
    <2> HIDE DEF b, q
    <2>5. Len(q) <= QUEUE_MAX /\ Len(b) <= BATCH
        BY <1>2, <1>3, <2>2, <2>3, <2>4, SizesNat
    <2> QED BY <1>2, <2>1, <2>2, <2>3, <2>5, OneListener
<1> QED BY <1>4, <1>5

LEMMA TestInv ==
    ASSUME IInv, NEW l \in Listeners, Test(l)
    PROVE  IInv'
<1>1. Shapes /\ ListenerOK(l)
    BY DEF IInv
<1>2. /\ queues[l] \in Seq(Chunks) /\ batch[l] \in Seq(Chunks)
      /\ Len(queues[l]) <= QUEUE_MAX /\ Len(batch[l]) <= BATCH
    BY <1>1 DEF ListenerOK
<1>3. /\ queues' = [queues EXCEPT ![l] = queues[l]] /\ batch' = [batch EXCEPT ![l] = batch[l]]
      /\ UNCHANGED <<last, call_active>>
    BY <1>1 DEF Test, Shapes
<1>4. Len(batch[l]) \in Nat
    BY <1>2, LenProperties
<1>5. CASE Ready(l)
    <2>1. at' = [at EXCEPT ![l] = "write"]
        BY <1>5 DEF Test
    <2>2. batch[l] # <<>>
        BY <1>5, SizesNat, EmptySeq DEF Ready
    <2> QED BY <1>2, <1>3, <2>1, <2>2, OneListener
<1>6. CASE ~Ready(l)
    <2>1. at' = [at EXCEPT ![l] = "loop"]
        BY <1>6 DEF Test
    <2>2. Len(batch[l]) < BATCH
        BY <1>4, <1>6, SizesNat DEF Ready
    <2> QED BY <1>2, <1>3, <2>1, <2>2, OneListener
<1> QED BY <1>5, <1>6

\* The steps that leave the batch empty, or what was.
LEMMA WriteInv ==
    ASSUME IInv, NEW l \in Listeners, Write(l) \/ Ends(l) \/ Add(l)
    PROVE  IInv'
<1>1. Shapes /\ ListenerOK(l)
    BY DEF IInv
<1>2. queues[l] \in Seq(Chunks) /\ Len(queues[l]) <= QUEUE_MAX
    BY <1>1 DEF ListenerOK
<1>3. <<>> \in Seq(Chunks) /\ Len(<<>>) = 0 /\ 0 < BATCH /\ 0 <= QUEUE_MAX /\ 0 <= BATCH
    BY EmptySeq, SizesNat
<1>4. UNCHANGED <<last, call_active>>
    BY DEF Write, Ends, Add
<1>5. CASE Write(l)
    <2>1. /\ at' = [at EXCEPT ![l] = "loop"] /\ batch' = [batch EXCEPT ![l] = <<>>]
          /\ queues' = [queues EXCEPT ![l] = queues[l]]
        BY <1>1, <1>5 DEF Write, Shapes
    <2> QED BY <1>2, <1>3, <1>4, <2>1, OneListener
<1>6. CASE Ends(l)
    <2>1. /\ at' = [at EXCEPT ![l] = "off"] /\ batch' = [batch EXCEPT ![l] = <<>>]
          /\ queues' = [queues EXCEPT ![l] = <<>>]
        BY <1>6 DEF Ends
    <2> QED BY <1>3, <1>4, <2>1, OneListener
<1>7. CASE Add(l)
    <2>1. /\ at' = [at EXCEPT ![l] = "loop"] /\ batch' = [batch EXCEPT ![l] = batch[l]]
          /\ queues' = [queues EXCEPT ![l] = queues[l]]
        BY <1>1, <1>7 DEF Add, Shapes
    <2>2. queues[l] = <<>> /\ batch[l] = <<>>
        BY <1>1, <1>7 DEF Add, ListenerOK
    <2> QED BY <1>3, <1>4, <2>1, <2>2, OneListener
<1> QED BY <1>5, <1>6, <1>7

LEMMA InvStep == IInv /\ [Next]_vars => IInv'
<1> SUFFICES ASSUME IInv, [Next]_vars PROVE IInv'
    OBVIOUS
<1>1. CASE FanOutChunk
    BY <1>1, FanOutInv
<1>2. CASE UNCHANGED <<last, at, queues, batch>> /\ call_active' \in BOOLEAN
    BY <1>2, Zenon DEF IInv, Counts, Shapes, ListenerOK
<1>3. CASE \E l \in Listeners : Add(l) \/ Handler(l) \/ Ends(l)
    BY <1>3, LoopInv, GetInv, TestInv, WriteInv DEF Handler
<1>4. CallFlag => UNCHANGED <<last, at, queues, batch>> /\ call_active' \in BOOLEAN
    BY DEF CallFlag
<1>5. UNCHANGED vars => UNCHANGED <<last, at, queues, batch>> /\ call_active' \in BOOLEAN
    BY DEF vars, IInv, Counts
<1> QED BY <1>1, <1>2, <1>3, <1>4, <1>5 DEF Next

LEMMA Invariant == Spec => []IInv
<1> QED BY InvInit, InvStep, PTL DEF Spec

\* The queues and batches keep their sizes, whoever listens and however slowly, and a handler
\* that has ended leaves nothing behind.
THEOREM TypeCorrect == Spec => []TypeOK
<1> QED BY InvTypeOK, Invariant, PTL

(***************************************************************************)
(* The refinement.                                                         *)
(***************************************************************************)

LEMMA MapsInit == Init => Promise!Init
BY DEF Init, Connected, Nothing, Promise!Init, Promise!Nothing

\* The fan-out is a Chunk, taken by those whose queues have room.
LEMMA MapsChunk ==
    ASSUME IInv, FanOutChunk
    PROVE  Promise!Chunk
<1> DEFINE takers == {l \in Connected : Len(queues[l]) < QUEUE_MAX}
<1>1. Counts /\ Shapes /\ \A l \in Listeners : ListenerOK(l)
    BY DEF IInv
<1>2. /\ last' = last + 1
      /\ queues' = [l \in Listeners |-> IF l \in Connected THEN Kept(queues[l], last')
                                        ELSE queues[l]]
      /\ batch' = batch /\ Connected' = Connected /\ heard' = Nothing
    BY DEF FanOutChunk, Connected
<1>3. takers \in SUBSET Connected /\ Connected \subseteq Listeners
    BY DEF Connected
<1>4. ASSUME NEW l \in Connected \ takers
      PROVE  Len(queues[l]) >= QUEUE_MAX
    <2>1. l \in Listeners /\ ~(Len(queues[l]) < QUEUE_MAX)
        BY <1>3, <1>4
    <2>2. Len(queues[l]) \in Nat
        BY <1>1, <2>1, LenProperties DEF ListenerOK
    <2> QED BY <2>1, <2>2, SizesNat
<1>5. ASSUME NEW l \in Listeners
      PROVE  queues'[l] = IF l \in takers THEN Append(queues[l], last') ELSE queues[l]
    BY <1>2 DEF Kept
<1>6. queues' = [l \in Listeners |-> IF l \in takers THEN Append(queues[l], last')
                                     ELSE queues[l]]
    <2> HIDE DEF takers
    <2> QED BY <1>2, <1>5
<1> HIDE DEF takers
<1> QED BY <1>2, <1>3, <1>4, <1>6 DEF Promise!Chunk, Promise!Nothing, Nothing

\* A chunk that a handler gets is taken; no chunk, and the tests of its loop, are nothing.
LEMMA MapsGet ==
    ASSUME IInv, NEW l \in Listeners, Get(l)
    PROVE  Promise!Take(l) \/ Promise!Quiet
<1>1. Shapes /\ ListenerOK(l)
    BY DEF IInv
<1>2. Connected' = Connected
    BY <1>1 DEF Get, Connected, Shapes
<1>3. heard' = Nothing /\ last' = last
    BY DEF Get
<1>4. CASE queues[l] = <<>>
    <2>1. queues' = queues /\ batch' = batch
        BY <1>4 DEF Get
    <2> QED BY <1>2, <1>3, <2>1 DEF Promise!Quiet, Promise!Nothing, Nothing
<1>5. CASE queues[l] # <<>>
    <2>1. /\ batch' = [batch EXCEPT ![l] = Append(batch[l], Head(queues[l]))]
          /\ queues' = [queues EXCEPT ![l] = Tail(queues[l])]
        BY <1>5 DEF Get
    <2>2. Len(batch[l]) < BATCH
        BY <1>1 DEF Get, ListenerOK
    <2> QED BY <1>2, <1>3, <1>5, <2>1, <2>2 DEF Promise!Take, Promise!Nothing, Nothing
<1> QED BY <1>4, <1>5

LEMMA MapsTest ==
    ASSUME IInv, NEW l \in Listeners, Loop(l) \/ Test(l)
    PROVE  Promise!Quiet
<1>1. Shapes
    BY DEF IInv
<1>2. queues' = queues /\ batch' = batch /\ heard' = Nothing /\ last' = last
    BY DEF Loop, Test
<1>3. Connected' = Connected
    BY <1>1 DEF Loop, Test, Connected, Shapes
<1> QED BY <1>2, <1>3 DEF Promise!Quiet, Promise!Nothing, Nothing

\* A batch that is written is delivered.
LEMMA MapsWrite ==
    ASSUME IInv, NEW l \in Listeners, Write(l)
    PROVE  Promise!Deliver(l)
<1>1. Shapes /\ batch[l] # <<>>
    BY DEF IInv, ListenerOK, Write
<1>2. /\ heard' = [Nothing EXCEPT ![l] = batch[l]] /\ last' = last
      /\ batch' = [batch EXCEPT ![l] = <<>>] /\ queues' = queues
    BY DEF Write
<1>3. Connected' = Connected
    BY <1>1 DEF Write, Connected, Shapes
<1> QED BY <1>1, <1>2, <1>3 DEF Promise!Deliver, Promise!Nothing, Nothing

LEMMA MapsAdd ==
    ASSUME IInv, NEW l \in Listeners, Add(l)
    PROVE  Promise!Join(l)
<1>1. Shapes
    BY DEF IInv
<1>2. queues' = queues /\ batch' = batch /\ heard' = Nothing /\ last' = last
    BY DEF Add
<1>3. l \notin Connected /\ Connected' = Connected \cup {l}
    BY <1>1 DEF Add, Connected, Shapes
<1> QED BY <1>2, <1>3 DEF Promise!Join, Promise!Nothing, Nothing

LEMMA MapsEnds ==
    ASSUME IInv, NEW l \in Listeners, Ends(l)
    PROVE  Promise!Leave(l)
<1>1. Shapes
    BY DEF IInv
<1>2. /\ queues' = [queues EXCEPT ![l] = <<>>] /\ batch' = [batch EXCEPT ![l] = <<>>]
      /\ heard' = Nothing /\ last' = last
    BY DEF Ends
<1>3. l \in Connected /\ Connected' = Connected \ {l}
    BY <1>1 DEF Ends, Connected, Shapes
<1> QED BY <1>2, <1>3 DEF Promise!Leave, Promise!Nothing, Nothing

LEMMA MapsStep == IInv /\ [Next]_vars => [Promise!Next]_(Promise!vars)
<1> SUFFICES ASSUME IInv, [Next]_vars PROVE [Promise!Next]_(Promise!vars)
    OBVIOUS
<1>1. CASE FanOutChunk
    BY <1>1, MapsChunk DEF Promise!Next
<1>2. CASE CallFlag
    <2>1. Promise!Quiet
        BY <1>2 DEF CallFlag, Promise!Quiet, Promise!Nothing, Nothing, Connected
    <2> QED BY <2>1 DEF Promise!Next
<1>3. ASSUME NEW l \in Listeners, Add(l) \/ Handler(l) \/ Ends(l)
      PROVE  Promise!Next
    BY <1>3, MapsGet, MapsTest, MapsWrite, MapsAdd, MapsEnds DEF Handler, Promise!Next
<1>4. CASE UNCHANGED vars
    BY <1>4 DEF vars, Promise!vars, Connected
<1> QED BY <1>1, <1>2, <1>3, <1>4 DEF Next

\* For any number of listeners and any size of queue and batch, the queues, the batches and
\* the loops of the handlers keep the promise of FanOut: chunks in order and once, and a
\* chunk is missed only by a listener whose own queue is full.
THEOREM Implements == Spec => ListenersPromised
<1>1. Init => Promise!Init
    BY MapsInit
<1>2. IInv /\ [Next]_vars => [Promise!Next]_(Promise!vars)
    BY MapsStep
<1>3. Spec => Promise!Spec
    BY <1>1, <1>2, Invariant, PTL DEF Spec, Promise!Spec
<1> QED BY <1>3 DEF ListenersPromised

=============================================================================

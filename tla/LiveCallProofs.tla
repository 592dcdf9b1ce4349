---------------------------- MODULE LiveCallProofs ----------------------------
(***************************************************************************)
(* Proofs about LiveCall, for any number of clients: types, and that a     *)
(* client neither leaves its call behind, nor ends or speaks into the call *)
(* of another.                                                             *)
(***************************************************************************)
EXTENDS LiveCall, TLAPS

---------------------------------------------------------------------------
(* What makes the three inductive.                                         *)

\* Where the main thread of a client is, when it has posted, begun its thread or been
\* given a handler.
Placed(c) ==
    /\ req[c] \in {"start", "busy", "ok"} => main[c] \in {"dialing", "exited"}
    /\ req[c] \in {"stop", "stopped"} => main[c] \in {"stopping", "exited"}
    /\ tx[c] \in {"connect", "reading", "ending"} \/ txh[c] # "none"
            => main[c] \in {"sends", "plays", "waiting", "stopping", "exited"}

\* The flag has an owner, who dialed and has not been told otherwise.
FlagOwned ==
    /\ owner # Nobody <=> call_active
    /\ \A c \in Clients : owner = c => main[c] # "new" /\ req[c] \in {"none", "ok", "stop"}

\* A call that outlives its client was given up.
Orphans == \A c \in Clients : main[c] = "exited" /\ owner = c => abandoned

\* A client that was told its call is on, or is about to end it, owns it.
Believes(c) == req[c] \in {"ok", "stop"} \/ main[c] \in Spawns \cup {"waiting"}

Owned == restarted \/ \A c \in Clients : Believes(c) => owner = c

CallInv == (\A c \in Clients : Placed(c)) /\ FlagOwned /\ Orphans /\ Owned

---------------------------------------------------------------------------
(* Types.                                                                  *)

\* A buffer that is emptied.
LEMMA EmptyPipe == <<>> \in Seq({"chunk", "final"}) /\ Len(<<>>) <= MaxPipe
BY BoundsNat

LEMMA TypeInit == Init => TypeOK
<1> SUFFICES ASSUME Init PROVE TypeOK
    OBVIOUS
<1>1. \A c \in Clients : pipe[c] = <<>>
    BY DEF Init
<1>2. 0 \in 0..MaxFaults
    BY BoundsNat
<1> QED BY <1>1, <1>2, EmptyPipe DEF Init, TypeOK

LEMMA TypeStep == TypeOK /\ [Next]_vars => TypeOK'
<1> USE NobodyIsNone, BoundsNat
<1> SUFFICES ASSUME TypeOK, [Next]_vars PROVE TypeOK'
    OBVIOUS
<1>1. ASSUME NEW c \in Clients, Dial(c) PROVE TypeOK'
    BY <1>1 DEF TypeOK, Dial, client, handlers, world, history
<1>2. ASSUME NEW c \in Clients, Started(c) PROVE TypeOK'
    BY <1>2 DEF TypeOK, Started, Connected, Spawns, client, handlers, world, history
<1>3. ASSUME NEW c \in Clients, Refused(c) PROVE TypeOK'
    BY <1>3 DEF TypeOK, Refused, Exits, client, handlers, world, history
<1>4. ASSUME NEW c \in Clients, Spawn(c) PROVE TypeOK'
    BY <1>4 DEF TypeOK, Spawn, Spawns, client, handlers, world, history
<1>5. ASSUME NEW c \in Clients, Stopped(c) PROVE TypeOK'
    BY <1>5 DEF TypeOK, Stopped, Exits, client, handlers, world, history
<1>6. ASSUME NEW c \in Clients, TimesOut(c) PROVE TypeOK'
    BY <1>6 DEF TypeOK, TimesOut, Leaves, Exits, client, handlers, world, history
<1>7. ASSUME NEW c \in Clients, HangUp(c) PROVE TypeOK'
    BY <1>7 DEF TypeOK, HangUp, client, handlers, world, history
<1>8. ASSUME NEW c \in Clients, GivesUp(c) PROVE TypeOK'
    BY <1>8 DEF TypeOK, GivesUp, Leaves, Exits, client, handlers, world, history
<1>9. ASSUME NEW c \in Clients, TxConnect(c) PROVE TypeOK'
    BY <1>9 DEF TypeOK, TxConnect, Polls, client, handlers, world, history
<1>10. ASSUME NEW c \in Clients, TxFails(c) PROVE TypeOK'
    BY <1>10 DEF TypeOK, TxFails, client, handlers, world, history
<1>11. ASSUME NEW c \in Clients, TxSend(c) PROVE TypeOK'
    BY <1>11 DEF TypeOK, TxSend, CanSend, Polls, client, handlers, world, history
<1>12. ASSUME NEW c \in Clients, TxFinish(c) PROVE TypeOK'
    BY <1>12 DEF TypeOK, TxFinish, CanSend, client, handlers, world, history
<1>13. ASSUME NEW c \in Clients, HandleStart(c) PROVE TypeOK'
    BY <1>13 DEF TypeOK, HandleStart, Answer, client, handlers, world, history
<1>14. ASSUME NEW c \in Clients, HandleStop(c) PROVE TypeOK'
    BY <1>14 DEF TypeOK, HandleStop, Answer, client, handlers, world, history
<1>15. ASSUME NEW c \in Clients, TxHead(c) PROVE TypeOK'
    <2>1. \A b \in Clients : pipe'[b] = pipe[b] \/ pipe'[b] = <<>>
        BY <1>15 DEF TypeOK, TxHead
    <2>2. \A b \in Clients : pipe'[b] \in Seq({"chunk", "final"}) /\ Len(pipe'[b]) <= MaxPipe
        BY <2>1, EmptyPipe DEF TypeOK
    <2> QED BY <1>15, <2>2 DEF TypeOK, TxHead, client, handlers, world, history
<1>16. ASSUME NEW c \in Clients, TxTest(c) PROVE TypeOK'
    <2>1. \A b \in Clients : pipe'[b] = pipe[b] \/ pipe'[b] = <<>>
        BY <1>16 DEF TypeOK, TxTest
    <2>2. \A b \in Clients : pipe'[b] \in Seq({"chunk", "final"}) /\ Len(pipe'[b]) <= MaxPipe
        BY <2>1, EmptyPipe DEF TypeOK
    <2> QED BY <1>16, <2>2 DEF TypeOK, TxTest, client, handlers, world, history
<1>17. ASSUME NEW c \in Clients, TxRead(c) PROVE TypeOK'
    BY <1>17 DEF TypeOK, TxRead, Reads, client, handlers, world, history
<1>18. ASSUME NEW c \in Clients, TxForward(c) PROVE TypeOK'
    BY <1>18 DEF TypeOK, TxForward, client, handlers, world, history
<1>19. ASSUME NEW c \in Clients, RxRequest(c) PROVE TypeOK'
    BY <1>19 DEF TypeOK, RxRequest, client, handlers, world, history
<1>20. ASSUME NEW c \in Clients, RxHead(c) PROVE TypeOK'
    BY <1>20 DEF TypeOK, RxHead, RxGoto, client, handlers, world, history
<1>21. ASSUME NEW c \in Clients, RxTest(c) PROVE TypeOK'
    BY <1>21 DEF TypeOK, RxTest, RxGoto, client, handlers, world, history
<1>22. ASSUME NEW c \in Clients, RxWritten(c) PROVE TypeOK'
    BY <1>22 DEF TypeOK, RxWritten, RxGoto, client, handlers, world, history
<1>23. ASSUME NEW c \in Clients, RxRaises(c) PROVE TypeOK'
    BY <1>23 DEF TypeOK, RxRaises, RxGoto, client, handlers, world, history
<1>24. ASSUME NEW c \in Clients, Cut(c) PROVE TypeOK'
    <2>1. faults' \in 0..MaxFaults
        BY <1>24 DEF TypeOK, Cut, Fault
    <2> QED BY <1>24, <2>1 DEF TypeOK, Cut, client, handlers, world, history
<1>25. ASSUME Restart PROVE TypeOK'
    <2>1. faults' \in 0..MaxFaults
        BY <1>25 DEF TypeOK, Restart, Fault
    <2>2. \A b \in Clients : pipe'[b] = <<>>
        BY <1>25 DEF Restart
    <2> QED BY <1>25, <2>1, <2>2, EmptyPipe DEF TypeOK, Restart
<1>26. ASSUME UNCHANGED vars PROVE TypeOK'
    BY <1>26 DEF TypeOK, vars, client, handlers, world, history
<1> QED BY <1>1, <1>2, <1>3, <1>4, <1>5, <1>6, <1>7, <1>8, <1>9, <1>10, <1>11, <1>12, <1>13, <1>14, <1>15, <1>16, <1>17, <1>18, <1>19, <1>20, <1>21, <1>22, <1>23, <1>24, <1>25, <1>26
    DEF Next, MainStep, ThreadStep, PostStep, TxHandlerStep

\* Every variable keeps its type, and tx_thread ends with its process.
THEOREM TypeCorrect == Spec => []TypeOK
BY TypeInit, TypeStep, PTL DEF Spec

---------------------------------------------------------------------------
(* Whose call it is.                                                       *)

LEMMA CallInit == Init => CallInv
BY NobodyIsNone DEF Init, CallInv, Placed, FlagOwned, Orphans, Owned, Believes, Spawns

LEMMA CallStep == TypeOK /\ CallInv /\ [Next]_vars => CallInv'
<1> USE NobodyIsNone
<1> SUFFICES ASSUME TypeOK, CallInv, [Next]_vars PROVE CallInv'
    OBVIOUS
<1>1. ASSUME NEW c \in Clients, Dial(c) PROVE CallInv'
    BY <1>1 DEF TypeOK, CallInv, Placed, FlagOwned, Orphans, Owned, Believes, Spawns, Dial, client, handlers, world, history
<1>2. ASSUME NEW c \in Clients, Started(c) PROVE CallInv'
    BY <1>2 DEF TypeOK, CallInv, Placed, FlagOwned, Orphans, Owned, Believes, Spawns, Started, Connected, client, handlers, world, history
<1>3. ASSUME NEW c \in Clients, Refused(c) PROVE CallInv'
    BY <1>3 DEF TypeOK, CallInv, Placed, FlagOwned, Orphans, Owned, Believes, Spawns, Refused, Exits, client, handlers, world, history
<1>4. ASSUME NEW c \in Clients, Spawn(c) PROVE CallInv'
    BY <1>4 DEF TypeOK, CallInv, Placed, FlagOwned, Orphans, Owned, Believes, Spawns, Spawn, client, handlers, world, history
<1>5. ASSUME NEW c \in Clients, Stopped(c) PROVE CallInv'
    BY <1>5 DEF TypeOK, CallInv, Placed, FlagOwned, Orphans, Owned, Believes, Spawns, Stopped, Exits, client, handlers, world, history
<1>6. ASSUME NEW c \in Clients, TimesOut(c) PROVE CallInv'
    BY <1>6 DEF TypeOK, CallInv, Placed, FlagOwned, Orphans, Owned, Believes, Spawns, TimesOut, Leaves, Exits, client, handlers, world, history
<1>7. ASSUME NEW c \in Clients, HangUp(c) PROVE CallInv'
    BY <1>7 DEF TypeOK, CallInv, Placed, FlagOwned, Orphans, Owned, Believes, Spawns, HangUp, client, handlers, world, history
<1>8. ASSUME NEW c \in Clients, GivesUp(c) PROVE CallInv'
    BY <1>8 DEF TypeOK, CallInv, Placed, FlagOwned, Orphans, Owned, Believes, Spawns, GivesUp, Leaves, Exits, client, handlers, world, history
<1>9. ASSUME NEW c \in Clients, TxConnect(c) PROVE CallInv'
    BY <1>9 DEF TypeOK, CallInv, Placed, FlagOwned, Orphans, Owned, Believes, Spawns, TxConnect, Polls, client, handlers, world, history
<1>10. ASSUME NEW c \in Clients, TxFails(c) PROVE CallInv'
    BY <1>10 DEF TypeOK, CallInv, Placed, FlagOwned, Orphans, Owned, Believes, Spawns, TxFails, client, handlers, world, history
<1>11. ASSUME NEW c \in Clients, TxSend(c) PROVE CallInv'
    BY <1>11 DEF TypeOK, CallInv, Placed, FlagOwned, Orphans, Owned, Believes, Spawns, TxSend, CanSend, Polls, client, handlers, world, history
<1>12. ASSUME NEW c \in Clients, TxFinish(c) PROVE CallInv'
    BY <1>12 DEF TypeOK, CallInv, Placed, FlagOwned, Orphans, Owned, Believes, Spawns, TxFinish, CanSend, client, handlers, world, history
<1>13. ASSUME NEW c \in Clients, HandleStart(c) PROVE CallInv'
    <2>1. CASE call_active
        BY <1>13, <2>1 DEF TypeOK, CallInv, Placed, FlagOwned, Orphans, Owned, Believes, Spawns, HandleStart, Answer, handlers, world, history
    <2>2. CASE ~call_active
        <3>1. /\ owner' = c /\ call_active' /\ main' = main /\ restarted' = restarted
              /\ abandoned' = (main[c] = "exited")
              /\ req'[c] \in {"none", "ok"} /\ \A b \in Clients \ {c} : req'[b] = req[b]
              /\ tx' = tx /\ txh' = txh
            BY <1>13, <2>2 DEF TypeOK, HandleStart, Answer, handlers, world
        <3>2. main[c] \in {"dialing", "exited"}
            BY <1>13 DEF CallInv, Placed, HandleStart
        <3>3. req'[c] = "ok" => main[c] = "dialing"
            BY <1>13, <2>2, <3>2 DEF TypeOK, HandleStart, Answer
        <3>4. \A b \in Clients : Placed(b)'
            BY <3>1, <3>3 DEF CallInv, Placed
        <3>5. FlagOwned'
            BY <3>1, <3>2 DEF FlagOwned
        <3>6. Orphans'
            BY <3>1 DEF Orphans
        <3>7. Owned'
            <4>1. restarted \/ \A b \in Clients : ~Believes(b)
                BY <2>2 DEF CallInv, FlagOwned, Owned
            <4> QED BY <3>1, <4>1 DEF Owned, Believes
        <3> QED BY <3>4, <3>5, <3>6, <3>7 DEF CallInv
    <2> QED BY <2>1, <2>2 DEF TypeOK
<1>14. ASSUME NEW c \in Clients, HandleStop(c) PROVE CallInv'
    BY <1>14 DEF TypeOK, CallInv, Placed, FlagOwned, Orphans, Owned, Believes, Spawns, HandleStop, Answer, client, handlers, world, history
<1>15. ASSUME NEW c \in Clients, TxHead(c) PROVE CallInv'
    BY <1>15 DEF TypeOK, CallInv, Placed, FlagOwned, Orphans, Owned, Believes, Spawns, TxHead, client, handlers, world, history
<1>16. ASSUME NEW c \in Clients, TxTest(c) PROVE CallInv'
    BY <1>16 DEF TypeOK, CallInv, Placed, FlagOwned, Orphans, Owned, Believes, Spawns, TxTest, client, handlers, world, history
<1>17. ASSUME NEW c \in Clients, TxRead(c) PROVE CallInv'
    BY <1>17 DEF TypeOK, CallInv, Placed, FlagOwned, Orphans, Owned, Believes, Spawns, TxRead, Reads, client, handlers, world, history
<1>18. ASSUME NEW c \in Clients, TxForward(c) PROVE CallInv'
    BY <1>18 DEF TypeOK, CallInv, Placed, FlagOwned, Orphans, Owned, Believes, Spawns, TxForward, client, handlers, world, history
<1>19. ASSUME NEW c \in Clients, RxRequest(c) PROVE CallInv'
    BY <1>19 DEF TypeOK, CallInv, Placed, FlagOwned, Orphans, Owned, Believes, Spawns, RxRequest, client, handlers, world, history
<1>20. ASSUME NEW c \in Clients, RxHead(c) PROVE CallInv'
    BY <1>20 DEF TypeOK, CallInv, Placed, FlagOwned, Orphans, Owned, Believes, Spawns, RxHead, RxGoto, client, handlers, world, history
<1>21. ASSUME NEW c \in Clients, RxTest(c) PROVE CallInv'
    BY <1>21 DEF TypeOK, CallInv, Placed, FlagOwned, Orphans, Owned, Believes, Spawns, RxTest, RxGoto, client, handlers, world, history
<1>22. ASSUME NEW c \in Clients, RxWritten(c) PROVE CallInv'
    BY <1>22 DEF TypeOK, CallInv, Placed, FlagOwned, Orphans, Owned, Believes, Spawns, RxWritten, RxGoto, client, handlers, world, history
<1>23. ASSUME NEW c \in Clients, RxRaises(c) PROVE CallInv'
    BY <1>23 DEF TypeOK, CallInv, Placed, FlagOwned, Orphans, Owned, Believes, Spawns, RxRaises, RxGoto, client, handlers, world, history
<1>24. ASSUME NEW c \in Clients, Cut(c) PROVE CallInv'
    BY <1>24 DEF TypeOK, CallInv, Placed, FlagOwned, Orphans, Owned, Believes, Spawns, Cut, Fault, client, handlers, world, history
<1>25. ASSUME Restart PROVE CallInv'
    BY <1>25 DEF TypeOK, CallInv, Placed, FlagOwned, Orphans, Owned, Believes, Spawns, Restart, Fault, client, handlers, world, history
<1>26. ASSUME UNCHANGED vars PROVE CallInv'
    BY <1>26 DEF TypeOK, CallInv, Placed, FlagOwned, Orphans, Owned, Believes, Spawns, vars, client, handlers, world, history
<1> QED BY <1>1, <1>2, <1>3, <1>4, <1>5, <1>6, <1>7, <1>8, <1>9, <1>10, <1>11, <1>12, <1>13, <1>14, <1>15, <1>16, <1>17, <1>18, <1>19, <1>20, <1>21, <1>22, <1>23, <1>24, <1>25, <1>26
    DEF Next, MainStep, ThreadStep, PostStep, TxHandlerStep

LEMMA CallInvariant == Spec => [](TypeOK /\ CallInv)
<1>1. Init => TypeOK /\ CallInv
    BY TypeInit, CallInit
<1>2. TypeOK /\ CallInv /\ [Next]_vars => (TypeOK /\ CallInv)'
    BY TypeStep, CallStep
<1> QED BY <1>1, <1>2, PTL DEF Spec

\* A client that got its answers and left by its finally block leaves no call behind.
THEOREM NoneLeft == Spec => []NoCallLeft
<1>1. CallInv => NoCallLeft
    BY DEF CallInv, Orphans, NoCallLeft
<1> QED BY <1>1, CallInvariant, PTL

\* Without a restart of the server, a call is ended only by the client that began it.
THEOREM OwnCalls == Spec => OwnCallOnly
<1> DEFINE Own == \A c \in Clients : HandleStop(c) /\ call_active /\ owner # c => restarted
<1>1. CallInv => Own
    BY DEF CallInv, Owned, Believes, HandleStop
<1>2. OwnCallOnly <=> [][Own]_vars
    BY DEF OwnCallOnly
<1> HIDE DEF Own
<1> QED BY <1>1, <1>2, CallInvariant, PTL

\* Without a restart, no client's voice is forwarded in another's call until it hangs up.
THEOREM OwnVoices == Spec => VoiceOfCaller
<1> DEFINE Own == \A c \in Clients : TxForward(c) /\ call_active /\ owner # c
                        => restarted \/ main[c] \in {"stopping", "exited"}
<1>1. CallInv => Own
    BY DEF CallInv, Placed, Owned, Believes, Spawns, TxForward
<1>2. VoiceOfCaller <=> [][Own]_vars
    BY DEF VoiceOfCaller
<1> HIDE DEF Own
<1> QED BY <1>1, <1>2, CallInvariant, PTL

=============================================================================

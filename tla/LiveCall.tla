------------------------------- MODULE LiveCall -------------------------------
(***************************************************************************)
(* A live call end to end: _do_call of client/luckfox_remote.py (its main  *)
(* thread, tx_thread, the ffmpeg that reads the Mac's microphone and the   *)
(* ffplay that plays the board's) and the handlers of call/start, call/tx, *)
(* call/rx and call/stop in http_api_server_v2.py.  Every run of the       *)
(* client is a client of its own.                                          *)
(*                                                                         *)
(* The server keeps one flag, _call_active, and does not know whose call   *)
(* it is.  The packets to the ESP32, the locks and the screen are in       *)
(* MicCall; a handler here takes the flag as its lock leaves it, and of    *)
(* the ESP32 there is only that its microphone may send, or not.           *)
(***************************************************************************)
EXTENDS Naturals, Sequences

CONSTANTS
    Clients,     \* runs of `luckfox_remote.py call`, numbered as they begin
    Nobody,
    MaxPipe,     \* chunks in the buffers of a call/tx connection
    MaxFaults    \* bound on cut networks and server restarts

ASSUME NobodyIsNone == Clients \subseteq Nat /\ Nobody \notin Clients
ASSUME BoundsNat == MaxPipe \in Nat \ {0} /\ MaxFaults \in Nat

VARIABLES
    call_active, \* _call_active
    main,        \* main[c]: where the main thread is, "waiting" in rx_proc.wait()
    req,         \* req[c]: its POST, from "start" to "ok" or "busy", from "stop" to "stopped"
    tx,          \* tx[c]: tx_thread; "ending" when it has seen _tx_stop
    player,      \* rx_proc of c, the ffplay: "asked" when it has sent its request
    pipe,        \* pipe[c]: what call/tx has not read, chunks and the final one
    txh, rxh,    \* handlers of call/tx and call/rx for c, "none" before and after
    cut,         \* clients whose network is gone, with no word to either side
    faults,
    \* History, read by no action.
    owner,       \* the client whose call/start set the flag
    abandoned,   \* it left by an exception, or without the answer to a post
    restarted    \* the server has restarted

client == <<main, req, tx, player>>
handlers == <<pipe, txh, rxh>>
history == <<owner, abandoned, restarted>>
world == <<cut, faults>>
vars == <<call_active, client, handlers, world, history>>

Fault == faults < MaxFaults /\ faults' = faults + 1

\* Fault: tx_thread is not a daemon.
ExitsButThread(c) ==
    main' = [main EXCEPT ![c] = "exited"] /\ tx' = tx /\ player' = [player EXCEPT ![c] = "gone"]

\* The process ends: tx_thread is a daemon, its connection is closed, and Ctrl-C reaches
\* rx_proc too.
Exits(c) == /\ main' = [main EXCEPT ![c] = "exited"]
            /\ tx' = [tx EXCEPT ![c] = "over"] /\ player' = [player EXCEPT ![c] = "gone"]

---------------------------------------------------------------------------
(* The main thread.                                                        *)

Dial(c) ==
    /\ main[c] = "new" /\ \A d \in Clients : d < c => main[d] # "new"
    /\ main' = [main EXCEPT ![c] = "dialing"] /\ req' = [req EXCEPT ![c] = "start"]
    /\ UNCHANGED <<call_active, tx, player, handlers, world, history>>

\* "Call connected. Press Ctrl-C to hang up."
Connected(c) ==
    /\ main' = [main EXCEPT ![c] = "connected"] /\ req' = [req EXCEPT ![c] = "none"]
    /\ UNCHANGED <<call_active, tx, player, handlers, world, history>>

Started(c) == main[c] = "dialing" /\ req[c] = "ok" /\ c \notin cut /\ Connected(c)

\* Fault: the 409 is taken for an answer like any other.
RefusedGoesOn(c) == main[c] = "dialing" /\ req[c] = "busy" /\ c \notin cut /\ Connected(c)

\* 409: the client leaves without touching the call.
Refused(c) ==
    /\ main[c] = "dialing" /\ req[c] = "busy" /\ c \notin cut
    /\ Exits(c) /\ req' = [req EXCEPT ![c] = "none"]
    /\ UNCHANGED <<call_active, handlers, world, history>>

\* mic_proc and tx_thread, then rx_proc; then the try begins, without which no finally
\* hangs up.
Spawns == {"connected", "sends", "plays"}

Spawn(c) ==
    /\ \/ /\ main[c] = "connected" /\ main' = [main EXCEPT ![c] = "sends"]
          /\ tx' = [tx EXCEPT ![c] = "connect"] /\ UNCHANGED player
       \/ /\ main[c] = "sends" /\ main' = [main EXCEPT ![c] = "plays"]
          /\ player' = [player EXCEPT ![c] = "on"] /\ UNCHANGED tx
       \/ /\ main[c] = "plays" /\ main' = [main EXCEPT ![c] = "waiting"]
          /\ UNCHANGED <<tx, player>>
    /\ UNCHANGED <<call_active, req, handlers, world, history>>

\* rx_proc ends, or Ctrl-C ends the wait for it: the finally block, up to its post.
HangUp(c) ==
    /\ main[c] = "waiting"
    /\ main' = [main EXCEPT ![c] = "stopping"] /\ req' = [req EXCEPT ![c] = "stop"]
    /\ player' = [player EXCEPT ![c] = "gone"]
    /\ UNCHANGED <<call_active, tx, handlers, world, history>>

Stopped(c) ==
    /\ main[c] = "stopping" /\ req[c] = "stopped" /\ c \notin cut
    /\ Exits(c) /\ req' = [req EXCEPT ![c] = "none"]
    /\ UNCHANGED <<call_active, handlers, world, history>>

\* An exception outside the try, or SystemExit from api_post, which `except Exception` does
\* not catch.
Leaves(c) ==
    /\ Exits(c) /\ abandoned' = (abandoned \/ owner = c)
    /\ UNCHANGED <<call_active, handlers, world, owner, restarted>>

\* Ctrl-C, or a post that fails; a request on its way is still handled, or lost.
GivesUp(c) ==
    /\ main[c] \in {"dialing", "stopping"} \cup Spawns
    /\ Leaves(c) /\ req' \in {req, [req EXCEPT ![c] = "none"]}

\* The timeout of a post that no answer can reach any more.
TimesOut(c) ==
    /\ main[c] \in {"dialing", "stopping"} /\ (req[c] = "none" \/ c \in cut)
    /\ Leaves(c) /\ UNCHANGED req

---------------------------------------------------------------------------
(* tx_thread.                                                              *)

\* `while not _tx_stop.is_set()`, whose next step is the wait in read.
Polls(c) == IF main[c] = "stopping" THEN "ending" ELSE "reading"

\* The connection and the request, which waits for the server.
TxConnect(c) ==
    /\ tx[c] = "connect" /\ c \notin cut
    /\ tx' = [tx EXCEPT ![c] = Polls(c)] /\ txh' = [txh EXCEPT ![c] = "head"]
    /\ UNCHANGED <<call_active, main, req, player, pipe, rxh, world, history>>

\* No connection, a closed one, or one that takes nothing for 60 s.
TxFails(c) ==
    /\ \/ tx[c] \in {"connect", "reading", "ending"} /\ c \in cut
       \/ tx[c] \in {"reading", "ending"} /\ txh[c] = "none"
    /\ tx' = [tx EXCEPT ![c] = "over"]
    /\ UNCHANGED <<call_active, main, req, player, handlers, world, history>>

CanSend(c) == c \notin cut /\ txh[c] # "none" /\ Len(pipe[c]) < MaxPipe

\* A chunk from ffmpeg, the Mac's microphone; _tx_stop may have been set while it came.
TxSend(c) ==
    /\ tx[c] = "reading" /\ CanSend(c)
    /\ pipe' = [pipe EXCEPT ![c] = Append(@, "chunk")] /\ tx' = [tx EXCEPT ![c] = Polls(c)]
    /\ UNCHANGED <<call_active, main, req, player, txh, rxh, world, history>>

\* _tx_stop, or no more from ffmpeg, which may end at any time: the final chunk.
TxFinish(c) ==
    /\ tx[c] \in {"reading", "ending"} /\ CanSend(c)
    /\ pipe' = [pipe EXCEPT ![c] = Append(@, "final")] /\ tx' = [tx EXCEPT ![c] = "over"]
    /\ UNCHANGED <<call_active, main, req, player, txh, rxh, world, history>>

---------------------------------------------------------------------------
(* The server.                                                             *)

\* An answer, which nobody reads when the client has left.
Answer(c, a) == req' = [req EXCEPT ![c] = IF main[c] = "exited" THEN "none" ELSE a]

\* call/start: call_acquire.
HandleStart(c) ==
    /\ req[c] = "start" /\ c \notin cut
    /\ IF call_active
       THEN Answer(c, "busy") /\ UNCHANGED <<call_active, owner, abandoned>>
       ELSE /\ Answer(c, "ok") /\ call_active' = TRUE /\ owner' = c
            /\ abandoned' = (main[c] = "exited")
    /\ UNCHANGED <<main, tx, player, handlers, world, restarted>>

\* Fault: call/stop answers and the flag stays.
HandleStopForgets(c) ==
    /\ req[c] = "stop" /\ c \notin cut
    /\ Answer(c, "stopped")
    /\ UNCHANGED <<call_active, main, tx, player, handlers, world, history>>

\* call/stop: call_release, whoever asks.
HandleStop(c) ==
    /\ req[c] = "stop" /\ c \notin cut
    /\ Answer(c, "stopped")
    /\ call_active' = FALSE
    /\ owner' = Nobody /\ abandoned' = FALSE
    /\ UNCHANGED <<main, tx, player, handlers, world, restarted>>

\* The head of call/tx: 400 without a call.
TxHead(c) ==
    /\ txh[c] = "head"
    /\ IF call_active
       THEN txh' = [txh EXCEPT ![c] = "loop"] /\ UNCHANGED pipe
       ELSE txh' = [txh EXCEPT ![c] = "none"] /\ pipe' = [pipe EXCEPT ![c] = <<>>]
    /\ UNCHANGED <<call_active, client, rxh, world, history>>

\* The loop of call/tx tests the flag; a handler that ends closes its connection.
TxTest(c) ==
    /\ txh[c] = "loop"
    /\ IF call_active
       THEN txh' = [txh EXCEPT ![c] = "read"] /\ UNCHANGED pipe
       ELSE txh' = [txh EXCEPT ![c] = "none"] /\ pipe' = [pipe EXCEPT ![c] = <<>>]
    /\ UNCHANGED <<call_active, client, rxh, world, history>>

\* readline, then read: a chunk, the final one, or the end of the connection.
Reads(c) == pipe[c] # <<>> \/ (tx[c] = "over" /\ c \notin cut)

TxRead(c) ==
    /\ txh[c] = "read" /\ Reads(c)
    /\ txh' = [txh EXCEPT ![c] = IF pipe[c] # <<>> /\ Head(pipe[c]) = "chunk"
                                 THEN "forward" ELSE "none"]
    /\ pipe' = [pipe EXCEPT ![c] = IF @ = <<>> THEN @ ELSE Tail(@)]
    /\ UNCHANGED <<call_active, client, rxh, world, history>>

\* _send_audio_chunks, if the flag is still set.
TxForward(c) ==
    /\ txh[c] = "forward"
    /\ txh' = [txh EXCEPT ![c] = "loop"]
    /\ UNCHANGED <<call_active, client, pipe, rxh, world, history>>

RxGoto(c, p) == /\ rxh' = [rxh EXCEPT ![c] = p]
                /\ UNCHANGED <<call_active, client, pipe, txh, world, history>>

\* rx_proc asks for its stream; the request waits for the server.
RxRequest(c) ==
    /\ player[c] = "on" /\ c \notin cut
    /\ player' = [player EXCEPT ![c] = "asked"] /\ rxh' = [rxh EXCEPT ![c] = "head"]
    /\ UNCHANGED <<call_active, main, req, tx, pipe, txh, world, history>>

\* The head of call/rx: 400 without a call.
RxHead(c) == rxh[c] = "head" /\ RxGoto(c, IF call_active THEN "loop" ELSE "none")

\* Fault: the loop of call/rx is that of /api/audio/stream, `while True`.
RxTestsNothing(c) == rxh[c] = "loop" /\ call_active /\ RxGoto(c, "write")

\* `while _call_active`, and the get, which waits until data come.
RxTest(c) == rxh[c] = "loop" /\ RxGoto(c, IF call_active THEN "write" ELSE "none")

\* The write returns when the client reads or buffers have room.
RxWritten(c) == rxh[c] = "write" /\ (player[c] # "gone" \/ c \in cut) /\ RxGoto(c, "loop")

\* To a client that has gone it raises; of a cut network TCP tires some time.
RxRaises(c) == rxh[c] = "write" /\ (player[c] = "gone" \/ c \in cut) /\ RxGoto(c, "none")

---------------------------------------------------------------------------
(* Faults.                                                                 *)

\* The Wi-Fi of the Mac goes, say: neither end is told.
Cut(c) ==
    /\ c \notin cut /\ main[c] \notin {"new", "exited"} /\ Fault
    /\ cut' = cut \cup {c}
    /\ UNCHANGED <<call_active, client, handlers, history>>

\* SIGTERM (signal_handler releases the call) or a crash, and a new server.
Restart ==
    /\ Fault
    /\ call_active' = FALSE
    /\ req' = [c \in Clients |-> IF req[c] \in {"start", "stop"} THEN "none" ELSE req[c]]
    /\ txh' = [c \in Clients |-> "none"] /\ rxh' = [c \in Clients |-> "none"]
    /\ pipe' = [c \in Clients |-> <<>>]
    /\ owner' = Nobody /\ abandoned' = FALSE /\ restarted' = TRUE
    /\ UNCHANGED <<main, tx, player, cut>>

---------------------------------------------------------------------------
Init ==
    /\ call_active = FALSE
    /\ main = [c \in Clients |-> "new"] /\ req = [c \in Clients |-> "none"]
    /\ tx = [c \in Clients |-> "none"]
    /\ player = [c \in Clients |-> "none"]
    /\ pipe = [c \in Clients |-> <<>>]
    /\ txh = [c \in Clients |-> "none"] /\ rxh = [c \in Clients |-> "none"]
    /\ cut = {} /\ faults = 0
    /\ owner = Nobody /\ abandoned = FALSE /\ restarted = FALSE

MainStep(c) == Started(c) \/ Refused(c) \/ Spawn(c) \/ Stopped(c) \/ TimesOut(c)

ThreadStep(c) == TxConnect(c) \/ TxFails(c) \/ TxSend(c) \/ TxFinish(c)

TxHandlerStep(c) == TxHead(c) \/ TxTest(c) \/ TxRead(c) \/ TxForward(c)

RxHandlerStep(c) == RxHead(c) \/ (~call_active /\ RxTest(c)) \/ RxRaises(c)

PostStep(c) == HandleStart(c) \/ HandleStop(c)

Next == \/ \E c \in Clients :
            \/ Dial(c) \/ MainStep(c) \/ HangUp(c) \/ GivesUp(c)
            \/ ThreadStep(c) \/ PostStep(c) \/ TxHandlerStep(c)
            \/ RxRequest(c) \/ RxHead(c) \/ RxTest(c) \/ RxWritten(c) \/ RxRaises(c)
            \/ Cut(c)
        \/ Restart

\* The final chunk is sent when there is room for it, and the handlers go on when they can.
\* Nobody need press Ctrl-C, a post need not be answered, a chunk need not come from either
\* microphone (CALL_START may be lost, a playback's STOP end the session of the call, the
\* ESP32 reboot), rx_proc need not read, nor end with its input (ffplay has no -autoexit).
\* Weak fairness of them together is enough: whoever left sends no more chunks.
FairStep(c) == (main[c] = "stopping" /\ TxFinish(c)) \/ TxHandlerStep(c) \/ RxHandlerStep(c)

Fairness == \A c \in Clients : WF_vars(FairStep(c))

Spec == Init /\ [][Next]_vars /\ Fairness

---------------------------------------------------------------------------
(* Properties.                                                             *)

\* Every variable keeps its type, and tx_thread ends with its process.
TypeOK ==
    /\ call_active \in BOOLEAN
    /\ main \in [Clients -> {"new", "dialing", "waiting", "stopping", "exited"} \cup Spawns]
    /\ req \in [Clients -> {"none", "start", "ok", "busy", "stop", "stopped"}]
    /\ tx \in [Clients -> {"none", "connect", "reading", "ending", "over"}]
    /\ player \in [Clients -> {"none", "on", "asked", "gone"}]
    /\ pipe \in [Clients -> Seq({"chunk", "final"})]
    /\ \A c \in Clients : Len(pipe[c]) <= MaxPipe
    /\ txh \in [Clients -> {"none", "head", "loop", "read", "forward"}]
    /\ rxh \in [Clients -> {"none", "head", "loop", "write"}]
    /\ cut \subseteq Clients /\ abandoned \in BOOLEAN
    /\ \A c \in Clients : main[c] = "exited" => tx[c] = "over"
    /\ owner \in Clients \cup {Nobody} /\ restarted \in BOOLEAN /\ faults \in 0..MaxFaults

\* Whoever dials, is refused, hangs up, gives up on its posts or loses its processes in the
\* meantime: a call is ended only by the client that began it.  (Not so after a server
\* restart: call/stop names no call, and a client of the old server hangs up on the new.)
OwnCallOnly ==
    [][\A c \in Clients : HandleStop(c) /\ call_active /\ owner # c => restarted]_vars

\* A client that got its answers and left by its finally block leaves no call behind, with
\* which every later call/start would be refused.
NoCallLeft ==
    \A c \in Clients : main[c] = "exited" /\ call_active /\ owner = c => abandoned

\* The speaker never plays one client's voice in another's call, but for the rest of a
\* client's voice that is hanging up: the loop of call/tx tests a flag that may be the next
\* call's already.  (A restarted server takes a client it does not know for the caller.)
VoiceOfCaller ==
    [][\A c \in Clients : TxForward(c) /\ call_active /\ owner # c
            => restarted \/ main[c] \in {"stopping", "exited"}]_vars

\* However a client ends, and while its call/stop is still waiting for an answer, its handlers
\* on the server end, even if its call goes on or another begins.  Two things can hold them: a
\* network that is cut without a word, call/tx in its readline; and a call for which no
\* microphone data come, call/rx in its loop, for without data it writes nothing.
HandlersEnd ==
    \A c \in Clients :
        <>[](main[c] \in {"stopping", "exited"} /\ c \notin cut
                => txh[c] = "none" /\ (rxh[c] = "none" \/ (rxh[c] = "loop" /\ call_active)))

=============================================================================

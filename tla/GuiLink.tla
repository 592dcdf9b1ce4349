------------------------------ MODULE GuiLink ------------------------------
(***************************************************************************)
(* The link between the server and the LVGL agent: GUIClient (gui_client.py)*)
(* with its reader thread, ipc_server.c and cmd_parser.c, and the CTRL     *)
(* button of main.c.                                                       *)
(*                                                                         *)
(* A connection is an id.  The server has it while _sock, the reader's     *)
(* local or a thread in _connect refers to it (CPython closes a socket with*)
(* its last reference); the agent has it in its backlog or in a slot.      *)
(* A `with self._lock` block is one step: nobody sees the inside of it.    *)
(*                                                                         *)
(* A command is a line of len units of which the last carries the state    *)
(* and the newline.  A line to the server is the number of a CTRL event    *)
(* (odd: pressed), Reply, or Half: a line whose newline was never written. *)
(* A reply only wakes the reader, so it is left out behind another line.   *)
(***************************************************************************)
EXTENDS GuiStates, Integers, Sequences, FiniteSets

CONSTANTS
    Handlers,    \* HTTP threads that call set_state
    Reader,      \* the thread of _read_loop, which runs the event callback
    Conns,       \* ids of connections
    None,        \* no connection
    Lens,        \* lengths of their command lines
    MaxClients,  \* MAX_CLIENTS
    RxCap,       \* RX_BUF_SIZE - 1
    MaxCmds,     \* bound on the commands of the handlers
    MaxClicks,   \* bound on the changes of the CTRL button
    MaxFaults    \* bound on callback failures, agent and server restarts

Threads == Handlers \cup {Reader}

ASSUME ThreadsDistinct == Reader \notin Handlers /\ None \notin Conns
ASSUME LensNat == Lens \subseteq Nat \ {0}
ASSUME BoundsNat == /\ MaxClients \in Nat \ {0} /\ RxCap \in Nat \ {0}
                    /\ MaxCmds \in Nat /\ MaxClicks \in Nat /\ MaxFaults \in Nat

VARIABLES
    pc, cmd,        \* of each thread; cmd: the command it sends
    local,          \* the socket a thread holds in _connect
    rsock, rbuf,    \* locals sock and buf of _read_loop
    sock,           \* GUIClient._sock
    current_state,  \* GUIClient._current_state
    c2s, s2c,       \* what is in a connection, to the agent and to the server
    backlog, slots, \* of the agent: connections not yet accepted, clients[i].fd
    buf,            \* clients[i].buf
    agent_up,       \* the agent runs
    shown,          \* the state on the screen
    btn_prev,       \* the button as the agent last saw it
    clicks,         \* changes of the button so far
    handled,        \* number of the last event given to the callback
    cmds, faults,
    overlong        \* history: a line that does not fit a slot's buffer was written

python == <<pc, cmd, local, rsock, rbuf, sock, current_state, handled>>
agent == <<backlog, slots, buf, agent_up, shown, btn_prev>>
issued == <<cmds, overlong>>
vars == <<python, c2s, s2c, agent, clicks, issued, faults>>

Reply == 0
Half == -1
Slots == 1..MaxClients

Commands == [state : AgentStates, len : Lens \cup {1}]

PyHas(c) == c \in {sock, rsock} \cup {local[t] : t \in Threads}
AgentHas(c) == c \in {backlog[i] : i \in DOMAIN backlog} \cup {slots[i] : i \in Slots}

\* A socket the server no longer refers to is closed, and what it had not read is lost.
DropUnread == s2c' = [c \in Conns |-> IF PyHas(c)' THEN s2c[c] ELSE <<>>]

Fault == faults < MaxFaults /\ faults' = faults + 1

Pressed == clicks % 2 = 1

\* A unit of a line: the state in the last one, "text" before.
Line(m) == [i \in 1..m.len |-> IF i = m.len THEN m.state ELSE "text"]

---------------------------------------------------------------------------
(* send_cmd and _connect.                                                  *)

Goto(t, p) == pc' = [pc EXCEPT ![t] = p]

NoCommand == [state |-> "idle", len |-> 1]

Forget(t) == cmd' = [cmd EXCEPT ![t] = NoCommand]

Done(t) == IF t = Reader THEN "lines" ELSE "idle"

\* None has no sendall: the AttributeError ends the request, or the reader thread.
Raise(t) == Goto(t, IF t = Reader THEN "dying" ELSE "idle") /\ Forget(t)

Begin(t) ==
    /\ pc[t] = "idle"
    /\ pc[Reader] \notin {"boot", "boot_store"}
    /\ cmds < MaxCmds /\ cmds' = cmds + 1
    /\ \E m \in [state : States, len : Lens] : /\ cmd' = [cmd EXCEPT ![t] = m]
                                              /\ overlong' = (overlong \/ m.len > RxCap)
    /\ Goto(t, "send")
    /\ UNCHANGED <<local, rsock, rbuf, sock, current_state, handled, c2s, s2c, agent, clicks,
                   faults>>

Put(t) == c2s' = [c2s EXCEPT ![sock] = @ \o Line(cmd[t])]

\* The first sendall: a broken pipe clears _sock.
Send(t) ==
    /\ pc[t] = "send"
    /\ \/ sock = None /\ Raise(t) /\ UNCHANGED <<sock, c2s>>
       \/ /\ sock # None /\ AgentHas(sock)
          /\ Put(t) /\ Goto(t, "check") /\ UNCHANGED <<cmd, sock>>
       \/ /\ sock # None /\ ~AgentHas(sock)
          /\ sock' = None /\ Goto(t, "check") /\ UNCHANGED <<cmd, c2s>>
    /\ UNCHANGED <<local, rsock, rbuf, current_state, handled, agent, clicks, issued, faults>>
    /\ DropUnread

\* `if self._sock is None`, without the lock.
Check(t) ==
    /\ pc[t] = "check"
    /\ Goto(t, IF sock = None THEN "connect" ELSE "note")
    /\ UNCHANGED <<cmd, local, rsock, rbuf, sock, current_state, handled, c2s, s2c, agent,
                   clicks, issued, faults>>

FreeConns == {c \in Conns : ~PyHas(c) /\ ~AgentHas(c)}

\* The loop of _connect goes on until the agent listens and its backlog has room.
ConnectFrom(t, from, to) ==
    /\ pc[t] = from
    /\ agent_up /\ Len(backlog) <= MaxClients
    /\ FreeConns # {}
    /\ LET c == CHOOSE d \in FreeConns : TRUE IN
          /\ local' = [local EXCEPT ![t] = c]
          /\ backlog' = Append(backlog, c)
          /\ c2s' = [c2s EXCEPT ![c] = <<>>] /\ s2c' = [s2c EXCEPT ![c] = <<>>]
    /\ Goto(t, to)
    /\ UNCHANGED <<cmd, rsock, rbuf, sock, current_state, handled, slots, buf, agent_up, shown,
                   btn_prev, clicks, issued, faults>>

StoreFrom(t, from, to) ==
    /\ pc[t] = from
    /\ sock' = local[t]
    /\ local' = [local EXCEPT ![t] = None]
    /\ Goto(t, to)
    /\ UNCHANGED <<cmd, rsock, rbuf, current_state, handled, c2s, agent, clicks, issued, faults>>
    /\ DropUnread

Connect(t) == ConnectFrom(t, "connect", "store")

\* Fault: a thread keeps its connection only if nobody stored another, and else tries again.
StoreFirst(t) == IF sock = None THEN StoreFrom(t, "store", IF t = Reader THEN "resend" ELSE "alive")
                 ELSE /\ pc[t] = "store"
                      /\ local' = [local EXCEPT ![t] = None] /\ Goto(t, "connect")
                      /\ UNCHANGED <<cmd, rsock, rbuf, sock, current_state, handled, c2s, agent,
                                     clicks, issued, faults>>
                      /\ DropUnread

Store(t) == StoreFrom(t, "store", IF t = Reader THEN "resend" ELSE "alive")

\* A handler starts another reader thread when there is none.  The test and the start are one
\* step: with two handlers in between, two readers would share a socket, which is left out.
Alive(t) ==
    /\ pc[t] = "alive"
    /\ pc' = [pc EXCEPT ![t] = "resend",
                        ![Reader] = IF pc[Reader] = "dead" THEN "look" ELSE @]
    /\ UNCHANGED <<cmd, local, rsock, rbuf, sock, current_state, handled, c2s, s2c, agent,
                   clicks, issued, faults>>

\* The second sendall: a broken pipe is ignored.
Resend(t) ==
    /\ pc[t] = "resend"
    /\ IF sock = None THEN Raise(t) ELSE Goto(t, "note") /\ UNCHANGED cmd
    /\ IF sock # None /\ AgentHas(sock) THEN Put(t) ELSE UNCHANGED c2s
    /\ UNCHANGED <<local, rsock, rbuf, sock, current_state, handled, s2c, agent, clicks,
                   issued, faults>>

\* The last line of set_state.
Note(t) ==
    /\ pc[t] = "note"
    /\ current_state' = cmd[t].state
    /\ Goto(t, Done(t)) /\ Forget(t)
    /\ UNCHANGED <<local, rsock, rbuf, sock, handled, c2s, s2c, agent, clicks, issued, faults>>

---------------------------------------------------------------------------
(* _read_loop.                                                             *)

\* __init__ connects before there is a reader thread, or a request.
Boot == \/ ConnectFrom(Reader, "boot", "boot_store")
        \/ StoreFrom(Reader, "boot_store", "look")

\* Without a socket the loop sleeps and looks again.
Look ==
    /\ pc[Reader] = "look"
    /\ rsock' = sock
    /\ Goto(Reader, IF sock = None THEN "look" ELSE "recv")
    /\ UNCHANGED <<cmd, local, rbuf, sock, current_state, handled, c2s, agent, clicks, issued,
                   faults>>
    /\ DropUnread

\* Of the lines in s the events, and the half line at its end.  A reply is no event; a line
\* that begins with half of another is no JSON.
Events(s) == LET whole == {i \in DOMAIN s : s[i] > 0 /\ (i > 1 => s[i - 1] # Half)}
             IN  [k \in 1..Cardinality(whole) |->
                    s[CHOOSE i \in whole : Cardinality({j \in whole : j < i}) = k - 1]]
                 \o IF s # <<>> /\ s[Len(s)] = Half THEN <<Half>> ELSE <<>>

\* recv: data, the end of the connection, or a timeout after which _sock is read again.
Recv ==
    /\ pc[Reader] = "recv"
    /\ \/ /\ s2c[rsock] # <<>>
          /\ rbuf' = Events(rbuf \o s2c[rsock]) /\ s2c' = [s2c EXCEPT ![rsock] = <<>>]
          /\ Goto(Reader, "lines")
       \/ /\ s2c[rsock] = <<>> /\ ~AgentHas(rsock)
          /\ Goto(Reader, "clear") /\ UNCHANGED <<rbuf, s2c>>
       \/ /\ s2c[rsock] = <<>> /\ AgentHas(rsock) /\ sock # rsock
          /\ Goto(Reader, "look") /\ UNCHANGED <<rbuf, s2c>>
    /\ UNCHANGED <<cmd, local, rsock, sock, current_state, handled, c2s, agent, clicks, issued,
                   faults>>

\* No newline in buf.
NoLine == rbuf = <<>> \/ rbuf = <<Half>>

LinesDone ==
    /\ pc[Reader] = "lines" /\ NoLine
    /\ Goto(Reader, "look")
    /\ UNCHANGED <<cmd, local, rsock, rbuf, sock, current_state, handled, c2s, s2c, agent,
                   clicks, issued, faults>>

\* The callback: pressed sets "listening", released "thinking".
EventLine ==
    /\ pc[Reader] = "lines" /\ ~NoLine
    /\ handled' = Head(rbuf)
    /\ rbuf' = Tail(rbuf)
    /\ cmd' = [cmd EXCEPT ![Reader] =
                 [state |-> IF Head(rbuf) % 2 = 1 THEN "listening" ELSE "thinking", len |-> 1]]
    /\ Goto(Reader, "send")
    /\ UNCHANGED <<local, rsock, sock, current_state, c2s, s2c, agent, clicks, issued, faults>>

\* What the callback does after set_state writes to the UART: a timeout there is an
\* OSError, for which _read_loop blames its socket.
CallbackFails ==
    /\ pc[Reader] = "note"
    /\ Fault
    /\ current_state' = cmd[Reader].state
    /\ Goto(Reader, "clear") /\ Forget(Reader)
    /\ UNCHANGED <<local, rsock, rbuf, sock, handled, c2s, s2c, agent, clicks, issued>>

\* Fault: the reader clears _sock only if it is still the socket that ended, and leaves the
\* reconnection to the next command.
ClearOwn ==
    /\ pc[Reader] = "clear"
    /\ sock' = IF sock = rsock THEN None ELSE sock
    /\ Goto(Reader, "look")
    /\ UNCHANGED <<cmd, local, rsock, rbuf, current_state, handled, c2s, agent, clicks, issued,
                   faults>>
    /\ DropUnread

\* _sock may be another socket by now.
Clear ==
    /\ pc[Reader] = "clear"
    /\ sock' = None
    /\ Goto(Reader, "reconnect")
    /\ UNCHANGED <<cmd, local, rsock, rbuf, current_state, handled, c2s, agent, clicks, issued,
                   faults>>
    /\ DropUnread

Reconnect == \/ ConnectFrom(Reader, "reconnect", "restore")
             \/ StoreFrom(Reader, "restore", "look")

\* The thread ends some time after the exception.
ReaderEnds ==
    /\ pc[Reader] = "dying"
    /\ Goto(Reader, "dead")
    /\ rsock' = None /\ rbuf' = <<>>
    /\ UNCHANGED <<cmd, local, sock, current_state, handled, c2s, agent, clicks, issued, faults>>
    /\ DropUnread

---------------------------------------------------------------------------
(* The agent's loop: accept, read each slot, poll the button, every 10 ms. *)
(* What the server does between two stages makes any order of them occur.  *)

FreeSlots == {i \in Slots : slots[i] = None}

AcceptClients ==
    /\ agent_up
    /\ backlog # <<>>
    /\ backlog' = Tail(backlog)
    /\ IF FreeSlots = {} THEN UNCHANGED <<slots, buf>>
       ELSE LET i == CHOOSE i \in FreeSlots : \A j \in FreeSlots : i <= j IN
               /\ slots' = [slots EXCEPT ![i] = Head(backlog)]
               /\ buf' = [buf EXCEPT ![i] = <<>>]
    /\ UNCHANGED <<python, c2s, s2c, agent_up, shown, btn_prev, clicks, issued, faults>>

\* The process is gone: every connection closes.
Dies == /\ agent_up' = FALSE /\ backlog' = <<>>
        /\ slots' = [i \in Slots |-> None] /\ buf' = [i \in Slots |-> <<>>]

LoseUnread == c2s' = [c \in Conns |-> <<>>]

Ends(line) == {i \in DOMAIN line : line[i] # "text"}

\* The units of a slot after its last whole line.
Remains(data) == IF Ends(data) = {} THEN data
                 ELSE SubSeq(data, 1 + CHOOSE i \in Ends(data) : \A j \in Ends(data) : j <= i,
                             Len(data))

\* Fault: no room is left for the NUL.
SpaceNoNul(i) == RxCap + 1 - Len(buf[i])

\* Fault: the room for the NUL is taken off twice.
SpaceOneLess(i) == RxCap - 1 - Len(buf[i])

\* What read may put in the buffer of a slot.
Space(i) == RxCap - Len(buf[i])

\* process_client with something to read: every whole line is a command, and answered.
\* The answer to a client that has gone is a SIGPIPE, which nobody handles.
ReadSlot(i) ==
    LET c == slots[i]
        n == IF Len(c2s[c]) < Space(i) THEN Len(c2s[c]) ELSE Space(i)
        data == buf[i] \o SubSeq(c2s[c], 1, n)
        ends == Ends(data)
    IN  /\ agent_up /\ c # None
        /\ n > 0
        /\ shown' = IF ends = {} THEN shown
                    ELSE data[CHOOSE k \in ends : \A j \in ends : j <= k]
        /\ IF ends = {} \/ PyHas(c)
           THEN /\ s2c' = [s2c EXCEPT ![c] = IF ends # {} /\ @ = <<>> THEN <<Reply>> ELSE @]
                /\ buf' = [buf EXCEPT ![i] = Remains(data)]
                /\ c2s' = [c2s EXCEPT ![c] = SubSeq(@, n + 1, Len(@))]
                /\ UNCHANGED <<backlog, slots, agent_up>>
           ELSE Dies /\ LoseUnread /\ UNCHANGED s2c
        /\ UNCHANGED <<python, btn_prev, clicks, issued, faults>>

\* read returns 0: the client has gone, or the buffer is full without a newline.
EndSlot(i) ==
    /\ agent_up /\ slots[i] # None
    /\ Space(i) = 0 \/ (c2s[slots[i]] = <<>> /\ ~PyHas(slots[i]))
    /\ slots' = [slots EXCEPT ![i] = None] /\ buf' = [buf EXCEPT ![i] = <<>>]
    /\ c2s' = [c2s EXCEPT ![slots[i]] = <<>>]
    /\ UNCHANGED <<python, s2c, backlog, agent_up, shown, btn_prev, clicks, issued, faults>>

\* Fault: the last slot is left out.
FirstClients == {i \in 1..(MaxClients - 1) : slots[i] # None}

\* The slots of a broadcast.
Clients == {i \in Slots : slots[i] # None}

\* gpio_poll_buttons: an event goes to every client; one that has gone is a SIGPIPE.
PollButtons ==
    LET gone == {i \in Clients : ~PyHas(slots[i])}
        told == {slots[i] : i \in {j \in Clients : \A k \in gone : j < k}}
    IN  /\ agent_up /\ Pressed # btn_prev
        /\ s2c' = [c \in Conns |-> IF c \in told THEN Append(s2c[c], clicks) ELSE s2c[c]]
        /\ IF gone = {} THEN UNCHANGED <<c2s, backlog, slots, buf, agent_up>>
                         ELSE Dies /\ LoseUnread
        /\ btn_prev' = Pressed
        /\ UNCHANGED <<python, shown, clicks, issued, faults>>

---------------------------------------------------------------------------
(* The user, and faults.                                                   *)

Click ==
    /\ clicks < MaxClicks /\ clicks' = clicks + 1
    /\ UNCHANGED <<python, c2s, s2c, agent, issued, faults>>

\* The agent is killed, perhaps between the two writes of a line.
AgentKilled ==
    /\ agent_up
    /\ Fault
    /\ Dies
    /\ \/ \E i \in Slots : /\ slots[i] # None /\ PyHas(slots[i])
                           /\ s2c' = [s2c EXCEPT ![slots[i]] = Append(@, Half)]
       \/ UNCHANGED s2c
    /\ LoseUnread
    /\ UNCHANGED <<python, shown, btn_prev, clicks, issued>>

\* main: the screen is idle, and a button that is held is no event.
AgentStart ==
    /\ ~agent_up
    /\ agent_up' = TRUE /\ shown' = "idle" /\ btn_prev' = Pressed
    /\ UNCHANGED <<python, c2s, s2c, backlog, slots, buf, clicks, issued, faults>>

\* The server is killed and started again.
ServerRestart ==
    /\ Fault
    /\ pc' = [t \in Threads |-> IF t = Reader THEN "boot" ELSE "idle"]
    /\ local' = [t \in Threads |-> None]
    /\ rsock' = None /\ rbuf' = <<>> /\ sock' = None
    /\ current_state' = "idle"
    /\ s2c' = [c \in Conns |-> <<>>]
    /\ cmd' = [t \in Threads |-> NoCommand]
    /\ UNCHANGED <<handled, c2s, agent, clicks, issued>>

Init ==
    /\ pc = [t \in Threads |-> IF t = Reader THEN "boot" ELSE "idle"]
    /\ cmd = [t \in Threads |-> NoCommand]
    /\ local = [t \in Threads |-> None]
    /\ rsock = None /\ rbuf = <<>> /\ sock = None
    /\ current_state = "idle" /\ handled = 0
    /\ c2s = [c \in Conns |-> <<>>] /\ s2c = [c \in Conns |-> <<>>]
    /\ backlog = <<>> /\ slots = [i \in Slots |-> None] /\ buf = [i \in Slots |-> <<>>]
    /\ agent_up = TRUE /\ shown = "idle" /\ btn_prev = FALSE
    /\ clicks = 0 /\ cmds = 0 /\ faults = 0 /\ overlong = FALSE

CmdStep(t) == \/ Send(t) \/ Check(t) \/ Connect(t) \/ Store(t) \/ Alive(t)
              \/ Resend(t) \/ Note(t)

ReadStep == \/ Boot \/ Look \/ Recv \/ LinesDone \/ EventLine
            \/ Clear \/ Reconnect \/ ReaderEnds

AgentStep == \/ AcceptClients \/ PollButtons
             \/ \E i \in Slots : ReadSlot(i) \/ EndSlot(i)

Next == \/ \E t \in Handlers : Begin(t)
        \/ \E t \in Threads : CmdStep(t)
        \/ ReadStep \/ CallbackFails
        \/ AgentStep \/ Click
        \/ AgentKilled \/ AgentStart \/ ServerRestart

Spec == Init /\ [][Next]_vars

\* Every thread that can go on does, and the agent's loop runs.
Fairness == /\ \A t \in Threads : WF_vars(CmdStep(t))
            /\ WF_vars(ReadStep)
            /\ WF_vars(AcceptClients) /\ WF_vars(PollButtons)
            /\ \A i \in Slots : WF_vars(ReadSlot(i)) /\ WF_vars(EndSlot(i))

FairSpec == Spec /\ Fairness

---------------------------------------------------------------------------
(* Properties.                                                             *)

Points == {"idle", "send", "check", "connect", "store", "alive", "resend", "note"}
ReaderPoints == {"boot", "boot_store", "look", "recv", "lines", "clear", "reconnect", "restore",
                 "dying", "dead", "send", "check", "connect", "store", "resend", "note"}

\* Every variable keeps its type; a slot's buffer never holds more than RX_BUF_SIZE - 1.
TypeOK ==
    /\ pc \in [Threads -> Points \cup ReaderPoints]
    /\ \A t \in Handlers : pc[t] \in Points
    /\ pc[Reader] \in ReaderPoints
    /\ cmd \in [Threads -> Commands]
    /\ local \in [Threads -> Conns \cup {None}]
    /\ rsock \in Conns \cup {None} /\ sock \in Conns \cup {None}
    /\ rbuf \in Seq(Half..MaxClicks)
    /\ current_state \in AgentStates /\ shown \in AgentStates
    /\ c2s \in [Conns -> Seq(AgentStates \cup {"text"})]
    /\ s2c \in [Conns -> Seq(Half..MaxClicks)]
    /\ backlog \in Seq(Conns)
    /\ slots \in [Slots -> Conns \cup {None}]
    /\ buf \in [Slots -> Seq({"text"})] /\ \A i \in Slots : Len(buf[i]) <= RxCap
    /\ agent_up \in BOOLEAN /\ btn_prev \in BOOLEAN /\ overlong \in BOOLEAN
    /\ clicks \in 0..MaxClicks /\ cmds \in 0..MaxCmds /\ faults \in 0..MaxFaults
    /\ handled \in 0..MaxClicks

Booting == pc[Reader] \in {"boot", "boot_store"}

\* Its events are newer than the last one handled, and each newer than those before it.
InOrder(line) == \A i \in DOMAIN line :
                    line[i] > 0 => line[i] > handled /\ \A j \in 1..(i - 1) : line[j] < line[i]

\* As long as nobody kills a process, no callback fails and every line fits the buffer of a
\* slot, the connection that __init__ made is the only one: two threads, a full buffer or a
\* button never bring about another, so no write meets a client that has gone and ends the
\* agent; and an event is handled once, and after those before it.
Undisturbed ==
    faults = 0 /\ ~overlong =>
        /\ agent_up
        /\ ~Booting => /\ {c \in Conns : AgentHas(c)} = {sock}
                       /\ InOrder(rbuf \o s2c[sock])

Attached ==
    /\ sock # None /\ rsock = sock
    /\ {slots[i] : i \in Slots} \ {None} = {sock}
    /\ backlog = <<>>

\* While the agent runs, the link ends up as one connection, which the agent has in a
\* slot and the reader thread listens to, unless that thread died of an exception of its
\* callback: two threads that reconnect do not do so for ever, and no slot is lost.
Reattaches ==
    <>[]agent_up => <>[](Attached \/ pc[Reader] \in {"dying", "dead"})

\* Every set_state ends while the agent runs: no request waits for ever in _connect.
CommandsEnd == <>[]agent_up => \A t \in Handlers : (pc[t] # "idle") ~> (pc[t] = "idle")

\* The reader hears the button: an edge the agent sees while the link is whole, and no half
\* line of a lost connection is before it, is given to the callback, unless the link breaks
\* first or the button changes again.
ButtonHeard ==
    \A n \in 1..MaxClicks :
        (clicks = n /\ Pressed # btn_prev /\ Attached /\ \A k \in DOMAIN rbuf : rbuf[k] # Half)
            ~> (handled = n \/ clicks # n \/ ~Attached)

=============================================================================

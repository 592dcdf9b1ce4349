--------------------------- MODULE MicCallProofs ---------------------------
(***************************************************************************)
(* Proofs about MicCall, for any number of handler threads, any requests   *)
(* and any bounds: its types, the discipline of its two locks, and the     *)
(* safety properties of the reference count and of the call flag.          *)
(***************************************************************************)
EXTENDS MicCall, TLAPS

USE DEF host, receiver, wire, esp

---------------------------------------------------------------------------
(* The control flow of the handlers.                                       *)

\* A shared operation always returns to a point outside the critical sections.
LEMMA Flow ==
    ASSUME NEW j
    PROVE  /\ FirstPoint(j) \in OpenPoints \ ({"headers", "remove"} \cup LoopPoints)
           /\ AfterAcquire(j) \in OpenPoints \ ({"headers", "remove"} \cup LoopPoints)
           /\ AfterRelease(j) \in OpenPoints \ ({"headers", "remove"} \cup LoopPoints)
           /\ AfterShow(j) \in OpenPoints \ ({"headers", "remove"} \cup LoopPoints)
           /\ Shown(j) \in AgentStates
  BY DEF FirstPoint, AfterAcquire, AfterRelease, AfterShow, Shown, OpenPoints, LoopPoints, AgentStates

\* Each point is of one kind: inside one critical section or outside both.
LEMMA Kinds ==
    /\ \A p \in OpenPoints : p \notin MicCritical /\ p \notin CallCritical
    /\ \A p \in MicCritical : p \notin CallCritical
    /\ \A p \in CallCritical : p \notin MicCritical
  BY DEF MicCritical, CallCritical, OpenPoints

\* Moving a thread to a known point keeps the types of pc and job.
LEMMA GotoType ==
    ASSUME TypeOK, NEW t \in Threads, NEW p \in Points, Goto(t, p)
    PROVE  /\ pc' \in [Threads -> Points]
           /\ job' \in [Threads -> Jobs \cup {"none"}]
  BY DEF TypeOK, Goto

---------------------------------------------------------------------------
(* Types.                                                                  *)

LEMMA InitTypeOK == Init => TypeOK
<1> SUFFICES ASSUME Init PROVE TypeOK
    OBVIOUS
<1>1. pc \in [Threads -> Points] /\ job \in [Threads -> Jobs \cup {"none"}]
    BY DEF Init, Points, OpenPoints
<1>2. uart \in Seq(Controls)
    BY DEF Init
<1>3. call_active \in BOOLEAN /\ recording \in BOOLEAN
    BY DEF Init
<1> QED
    BY <1>1, <1>2, <1>3 DEF Init, TypeOK, AgentStates, Sessions, Peers

\* What one thread does, or its client does to it, keeps the types.
LEMMA ThreadTypeOK ==
    ASSUME TypeOK, NEW t \in Threads, Step(t) \/ Outside(t)
    PROVE  TypeOK'
<1> USE DEF TypeOK, Points, OpenPoints, MicCritical, CallCritical, Peers
<1>1. CASE Acq(t)
    BY <1>1, Flow, GotoType DEF Acq
<1>2. CASE AcqCount(t)
    BY <1>2, Flow, GotoType DEF AcqCount, NoteSlip
<1>3. CASE AcqSend(t)
    BY <1>3, Flow, GotoType DEF AcqSend, Write, Controls
<1>4. CASE Rel(t)
    BY <1>4, Flow, GotoType DEF Rel
<1>5. CASE RelCount(t)
    BY <1>5, Flow, GotoType DEF RelCount, NoteSlip
<1>6. CASE RelSend(t)
    BY <1>6, Flow, GotoType DEF RelSend, Write, Controls
<1>7. CASE CallTest(t)
    BY <1>7, GotoType DEF CallTest
<1>8. CASE CallSet(t)
    BY <1>8, GotoType DEF CallSet
<1>9. CASE CallSend(t)
    BY <1>9, GotoType DEF CallSend, Write, Controls
<1>10. CASE StopTest(t)
    BY <1>10, GotoType DEF StopTest
<1>11. CASE StopClear(t)
    BY <1>11, GotoType DEF StopClear
<1>12. CASE StopSend(t)
    BY <1>12, GotoType DEF StopSend, Write, Controls
<1>13. CASE BtnCheck(t)
    BY <1>13, GotoType DEF BtnCheck
<1>14. CASE Show(t)
    BY <1>14, Flow, GotoType DEF Show
<1>15. CASE RecOn(t)
    BY <1>15, GotoType DEF RecOn
<1>16. CASE RecOff(t)
    BY <1>16, GotoType DEF RecOff
<1>17. CASE RxCheck(t)
    BY <1>17, GotoType DEF RxCheck
<1>18. CASE Add(t)
    BY <1>18, GotoType DEF Add
<1>19. CASE Headers(t)
    BY <1>19, GotoType DEF Headers
<1>20. CASE LoopEnds(t)
    BY <1>20, GotoType DEF LoopEnds
<1>21. CASE LoopGet(t)
    BY <1>21, GotoType DEF LoopGet
<1>29. CASE LoopWrite(t)
    BY <1>29, GotoType DEF LoopWrite
<1>22. CASE Remove(t)
    BY <1>22, GotoType DEF Remove
<1>23. CASE RawStart(t)
    BY <1>23, GotoType DEF RawStart, Write, Controls
<1>24. CASE RawStop(t)
    BY <1>24, GotoType DEF RawStop, Write, Controls
<1>25. CASE Begin(t)
  <2>1. JobsOf[t] \subseteq Jobs
      BY JobsKnown DEF Threads, Jobs
  <2>2. PICK j \in JobsOf[t] : /\ pc' = [pc EXCEPT ![t] = FirstPoint(j)]
                               /\ job' = [job EXCEPT ![t] = j]
      BY <1>25 DEF Begin
  <2>3. UNCHANGED <<host, receiver, agent_state, wire, esp, slips, faults>>
      BY <1>25 DEF Begin
  <2>4. pc' \in [Threads -> Points] /\ job' \in [Threads -> Jobs \cup {"none"}]
      BY <2>1, <2>2, Flow
  <2> QED
      BY <2>3, <2>4
<1>26. CASE ClientGone(t)
    BY <1>26 DEF ClientGone
<1>30. CASE ClientStalls(t)
    BY <1>30 DEF ClientStalls
<1>27. CASE HeadersFail(t)
    BY <1>27, GotoType DEF HeadersFail, Fault
<1>28. CASE WriteFails(t)
    BY <1>28, GotoType DEF WriteFails, Fault, WritePoints
<1> QED
    BY <1>1, <1>2, <1>3, <1>4, <1>5, <1>6, <1>7, <1>8, <1>9, <1>10, <1>11, <1>12, <1>13, <1>14, <1>15, <1>16, <1>17, <1>18, <1>19, <1>20, <1>21, <1>22, <1>23, <1>24, <1>25, <1>26, <1>27, <1>28, <1>29, <1>30
    DEF Step, Outside, MicStep, CallStep, HandlerStep

\* The ESP32, the receiver thread, faults and restarts keep the types.
LEMMA SystemTypeOK ==
    ASSUME TypeOK,
           \/ EspHandle \/ MicStopArrives \/ UartLoses \/ EspReboot
           \/ \E graceful \in BOOLEAN : Restart(graceful)
    PROVE  TypeOK'
<1>1. CASE EspHandle
    BY <1>1 DEF EspHandle, TypeOK, SessionOf, Sessions, Peers
<1>2. CASE MicStopArrives
  <2>1. recording' \in BOOLEAN
      BY <1>2 DEF MicStopArrives
  <2> QED
      BY <1>2, <2>1 DEF MicStopArrives, TypeOK
<1>3. CASE UartLoses
    BY <1>3 DEF UartLoses, TypeOK, Fault
<1>4. CASE EspReboot
    BY <1>4 DEF EspReboot, TypeOK, Fault, Sessions
<1>5. ASSUME NEW graceful \in BOOLEAN, Restart(graceful)
      PROVE  TypeOK'
  <2>1. recording' \in BOOLEAN /\ call_active' \in BOOLEAN
      BY <1>5 DEF Restart
  <2>2. uart' = uart \/ uart' = Append(uart, "CALL_STOP")
      BY <1>5 DEF Restart
  <2>3. uart' \in Seq(Controls)
      BY <2>2 DEF TypeOK, Controls
  <2>4. pc' \in [Threads -> Points] /\ job' \in [Threads -> Jobs \cup {"none"}]
      BY <1>5 DEF Restart, Points, OpenPoints
  <2> QED
      BY <1>5, <2>1, <2>3, <2>4 DEF Restart, TypeOK, Fault, AgentStates, Peers
<1> QED
    BY <1>1, <1>2, <1>3, <1>4, <1>5

\* Every variable keeps its type in every behaviour of the voice core.
THEOREM TypeCorrect == Spec => []TypeOK
<1>1. Init => TypeOK
    BY InitTypeOK
<1>2. TypeOK /\ [Next]_vars => TypeOK'
    BY ThreadTypeOK, SystemTypeOK DEF Next, vars, TypeOK
<1> QED
    BY <1>1, <1>2, PTL DEF Spec

---------------------------------------------------------------------------
(* Locks.                                                                  *)

\* Leaving the mic_acquire or mic_release block frees _mic_lock.
LEMMA LeaveMic ==
    ASSUME TypeOK, LockOwner, NEW t \in Threads, NEW p \in OpenPoints,
           pc[t] \in MicCritical, Goto(t, p), mic_lock' = NoThread, call_lock' = call_lock
    PROVE  LockOwner'
<1>1. \A u \in Threads : pc'[u] = IF u = t THEN p ELSE pc[u]
    BY DEF TypeOK, Goto
<1>2. \A u \in Threads : pc'[u] \notin MicCritical
  <2>1. mic_lock = t
      BY DEF LockOwner, MicCritical, CallCritical, OpenPoints
  <2>2. \A u \in Threads : u # t => pc[u] \notin MicCritical
      BY <2>1 DEF LockOwner, MicCritical, CallCritical, OpenPoints
  <2> QED
      BY <1>1, <2>2, Kinds
<1>3. \A u \in Threads : mic_lock' # u
    BY ThreadsDistinct
<1>4. \A u \in Threads : pc'[u] \in CallCritical <=> call_lock' = u
    BY <1>1 DEF LockOwner, MicCritical, CallCritical, OpenPoints
<1> QED
    BY <1>2, <1>3, <1>4 DEF LockOwner

\* Entering the call_acquire or call_release block takes _call_lock.
LEMMA EnterCall ==
    ASSUME TypeOK, LockOwner, NEW t \in Threads, NEW p \in CallCritical,
           pc[t] \in OpenPoints, Goto(t, p), call_lock = NoThread, call_lock' = t,
           mic_lock' = mic_lock
    PROVE  LockOwner'
<1>1. \A u \in Threads : pc'[u] = IF u = t THEN p ELSE pc[u]
    BY DEF TypeOK, Goto
<1>2. \A u \in Threads : pc[u] \notin CallCritical
    BY ThreadsDistinct DEF LockOwner, MicCritical, CallCritical, OpenPoints
<1>3. \A u \in Threads : pc'[u] \in MicCritical <=> mic_lock' = u
    BY <1>1 DEF LockOwner, MicCritical, CallCritical, OpenPoints
<1> QED
    BY <1>1, <1>2, <1>3 DEF LockOwner

\* Leaving it frees _call_lock.
LEMMA LeaveCall ==
    ASSUME TypeOK, LockOwner, NEW t \in Threads, NEW p \in OpenPoints,
           pc[t] \in CallCritical, Goto(t, p), call_lock' = NoThread, mic_lock' = mic_lock
    PROVE  LockOwner'
<1>1. \A u \in Threads : pc'[u] = IF u = t THEN p ELSE pc[u]
    BY DEF TypeOK, Goto
<1>2. \A u \in Threads : pc'[u] \notin CallCritical
  <2>1. call_lock = t
      BY DEF LockOwner, MicCritical, CallCritical, OpenPoints
  <2>2. \A u \in Threads : u # t => pc[u] \notin CallCritical
      BY <2>1 DEF LockOwner, MicCritical, CallCritical, OpenPoints
  <2> QED
      BY <1>1, <2>2, Kinds
<1>3. \A u \in Threads : call_lock' # u
    BY ThreadsDistinct
<1>4. \A u \in Threads : pc'[u] \in MicCritical <=> mic_lock' = u
    BY <1>1 DEF LockOwner, MicCritical, CallCritical, OpenPoints
<1> QED
    BY <1>2, <1>3, <1>4 DEF LockOwner

\* Moving between points of one kind leaves both locks alone.
LEMMA KeepLocks ==
    ASSUME TypeOK, LockOwner, NEW t \in Threads, NEW p \in Points,
           \/ pc[t] \in OpenPoints /\ p \in OpenPoints
           \/ pc[t] \in MicCritical /\ p \in MicCritical,
           Goto(t, p), UNCHANGED <<mic_lock, call_lock>>
    PROVE  LockOwner'
<1>1. \A u \in Threads : pc'[u] = IF u = t THEN p ELSE pc[u]
    BY DEF TypeOK, Goto
<1> QED
    BY <1>1, Kinds DEF LockOwner

\* A thread's step takes a lock on entry, frees it on exit, and touches no other's.
LEMMA ThreadLockOwner ==
    ASSUME TypeOK, LockOwner, NEW t \in Threads, Step(t) \/ Outside(t)
    PROVE  LockOwner'

<1>1. CASE Acq(t)
    BY <1>1, Flow, ThreadsDistinct
    DEF Acq, Goto, TypeOK, LockOwner, MicCritical, CallCritical, OpenPoints
<1>2. CASE AcqCount(t)
  <2>1. CASE mic_users = 0
      BY <1>2, <2>1, KeepLocks DEF AcqCount, Points, MicCritical
  <2>2. CASE mic_users # 0
      BY <1>2, <2>2, Flow, LeaveMic DEF AcqCount, MicCritical
  <2> QED
      BY <2>1, <2>2
<1>3. CASE AcqSend(t)
    BY <1>3, Flow, LeaveMic DEF AcqSend, MicCritical
<1>4. CASE Rel(t)
    BY <1>4, Flow, ThreadsDistinct
    DEF Rel, Goto, TypeOK, LockOwner, MicCritical, CallCritical, OpenPoints
<1>5. CASE RelCount(t)
  <2>1. CASE mic_users' = 0
      BY <1>5, <2>1, KeepLocks DEF RelCount, Points, MicCritical
  <2>2. CASE mic_users' # 0
      BY <1>5, <2>2, Flow, LeaveMic DEF RelCount, MicCritical
  <2> QED
      BY <2>1, <2>2
<1>6. CASE RelSend(t)
    BY <1>6, Flow, LeaveMic DEF RelSend, MicCritical
<1>7. CASE CallTest(t)
  <2>1. CASE call_active
      BY <1>7, <2>1, KeepLocks DEF CallTest, Points, OpenPoints
  <2>2. CASE ~call_active
      BY <1>7, <2>2, EnterCall DEF CallTest, OpenPoints, CallCritical
  <2> QED
      BY <2>1, <2>2
<1>8. CASE CallSet(t)
    BY <1>8, LeaveCall DEF CallSet, CallCritical, OpenPoints
<1>9. CASE CallSend(t)
    BY <1>9, KeepLocks DEF CallSend, Write, Points, OpenPoints
<1>10. CASE StopTest(t)
  <2>1. CASE call_active
      BY <1>10, <2>1, EnterCall DEF StopTest, OpenPoints, CallCritical
  <2>2. CASE ~call_active
      BY <1>10, <2>2, KeepLocks DEF StopTest, Points, OpenPoints
  <2> QED
      BY <2>1, <2>2
<1>11. CASE StopClear(t)
    BY <1>11, LeaveCall DEF StopClear, CallCritical, OpenPoints
<1>12. CASE StopSend(t)
    BY <1>12, KeepLocks DEF StopSend, Write, Points, OpenPoints
<1>13. CASE BtnCheck(t)
    BY <1>13, KeepLocks DEF BtnCheck, Write, Points, OpenPoints
<1>14. CASE Show(t)
    BY <1>14, Flow, KeepLocks DEF Show, Write, Points, OpenPoints
<1>15. CASE RecOn(t)
    BY <1>15, KeepLocks DEF RecOn, Write, Points, OpenPoints
<1>16. CASE RecOff(t)
    BY <1>16, KeepLocks DEF RecOff, Write, Points, OpenPoints
<1>17. CASE RxCheck(t)
    BY <1>17, KeepLocks DEF RxCheck, Write, Points, OpenPoints
<1>18. CASE Add(t)
    BY <1>18, KeepLocks DEF Add, Write, Points, OpenPoints
<1>19. CASE Headers(t)
    BY <1>19, KeepLocks DEF Headers, Write, Points, OpenPoints
<1>20. CASE LoopEnds(t)
    BY <1>20, KeepLocks DEF LoopEnds, Write, Points, OpenPoints
<1>21. CASE LoopGet(t)
    BY <1>21, KeepLocks DEF LoopGet, Write, Points, OpenPoints
<1>29. CASE LoopWrite(t)
    BY <1>29, KeepLocks DEF LoopWrite, Write, Points, OpenPoints
<1>22. CASE Remove(t)
    BY <1>22, KeepLocks DEF Remove, Write, Points, OpenPoints
<1>23. CASE RawStart(t)
    BY <1>23, KeepLocks DEF RawStart, Write, Points, OpenPoints
<1>24. CASE RawStop(t)
    BY <1>24, KeepLocks DEF RawStop, Write, Points, OpenPoints
<1>25. CASE Begin(t)
    BY <1>25, Flow, ThreadsDistinct
    DEF Begin, TypeOK, LockOwner, MicCritical, CallCritical, OpenPoints
<1>26. CASE ClientGone(t)
    BY <1>26, ThreadsDistinct
    DEF ClientGone, TypeOK, LockOwner, MicCritical, CallCritical, OpenPoints
<1>30. CASE ClientStalls(t)
    BY <1>30, ThreadsDistinct
    DEF ClientStalls, TypeOK, LockOwner, MicCritical, CallCritical, OpenPoints
<1>27. CASE HeadersFail(t)
    BY <1>27, KeepLocks DEF HeadersFail, Write, Points, OpenPoints
<1>28. CASE WriteFails(t)
    BY <1>28, ThreadsDistinct
    DEF WriteFails, Fault, WritePoints, Goto, TypeOK, LockOwner, MicCritical, CallCritical, OpenPoints
<1> QED
    BY <1>1, <1>2, <1>3, <1>4, <1>5, <1>6, <1>7, <1>8, <1>9, <1>10, <1>11, <1>12, <1>13, <1>14, <1>15, <1>16, <1>17, <1>18, <1>19, <1>20, <1>21, <1>22, <1>23, <1>24, <1>25, <1>26, <1>27, <1>28, <1>29, <1>30
    DEF Step, Outside, MicStep, CallStep, HandlerStep

\* A lock is held exactly by the thread inside its `with` block, for any number of
\* threads, whatever is lost, broken or restarted.
THEOREM LocksOwned == Spec => []LockOwner
<1>1. Init => LockOwner
    BY ThreadsDistinct DEF Init, LockOwner, MicCritical, CallCritical
<1>2. TypeOK /\ LockOwner /\ [Next]_vars => LockOwner'
  <2> SUFFICES ASSUME TypeOK, LockOwner, [Next]_vars PROVE LockOwner'
      OBVIOUS
  <2>1. ASSUME NEW t \in Threads, Step(t) \/ Outside(t) PROVE LockOwner'
      BY <2>1, ThreadLockOwner
  <2>2. CASE EspHandle \/ MicStopArrives \/ UartLoses \/ EspReboot
      BY <2>2 DEF EspHandle, MicStopArrives, UartLoses, EspReboot, LockOwner
  <2>3. ASSUME NEW graceful \in BOOLEAN, Restart(graceful) PROVE LockOwner'
      BY <2>3, ThreadsDistinct DEF Restart, LockOwner, MicCritical, CallCritical
  <2>4. CASE UNCHANGED vars
      BY <2>4 DEF vars, LockOwner
  <2> QED
      BY <2>1, <2>2, <2>3, <2>4 DEF Next
<1> QED
    BY <1>1, <1>2, TypeCorrect, PTL DEF Spec

---------------------------------------------------------------------------
(* The call flag.                                                          *)

\* Only the holder of _call_lock writes the flag, so the others' tests still hold.
LEMMA ThreadCallTestHolds ==
    ASSUME TypeOK, LockOwner, CallTestHolds, NEW t \in Threads, Step(t) \/ Outside(t)
    PROVE  CallTestHolds'
<1> USE ThreadsDistinct DEF TypeOK, LockOwner, CallTestHolds, CallCritical, OpenPoints
<1>1. CASE Acq(t)
    BY <1>1, Flow DEF Acq, Goto
<1>2. CASE AcqCount(t)
    BY <1>2, Flow DEF AcqCount, NoteSlip, Goto
<1>3. CASE AcqSend(t)
    BY <1>3, Flow DEF AcqSend, Write, Goto
<1>4. CASE Rel(t)
    BY <1>4, Flow DEF Rel, Goto
<1>5. CASE RelCount(t)
    BY <1>5, Flow DEF RelCount, NoteSlip, Goto
<1>6. CASE RelSend(t)
    BY <1>6, Flow DEF RelSend, Write, Goto
<1>7. CASE CallTest(t)
    BY <1>7 DEF CallTest, Goto
<1>8. CASE CallSet(t)
    BY <1>8 DEF CallSet, Goto
<1>9. CASE CallSend(t)
    BY <1>9 DEF CallSend, Write, Goto
<1>10. CASE StopTest(t)
    BY <1>10 DEF StopTest, Goto
<1>11. CASE StopClear(t)
    BY <1>11 DEF StopClear, Goto
<1>12. CASE StopSend(t)
    BY <1>12 DEF StopSend, Write, Goto
<1>13. CASE BtnCheck(t)
    BY <1>13 DEF BtnCheck, Goto
<1>14. CASE Show(t)
    BY <1>14, Flow DEF Show, Goto
<1>15. CASE RecOn(t)
    BY <1>15 DEF RecOn, Goto
<1>16. CASE RecOff(t)
    BY <1>16 DEF RecOff, Goto
<1>17. CASE RxCheck(t)
    BY <1>17 DEF RxCheck, Goto
<1>18. CASE Add(t)
    BY <1>18 DEF Add, Goto
<1>19. CASE Headers(t)
    BY <1>19 DEF Headers, Goto
<1>20. CASE LoopEnds(t)
    BY <1>20 DEF LoopEnds, Goto
<1>21. CASE LoopGet(t)
    BY <1>21 DEF LoopGet, Goto
<1>29. CASE LoopWrite(t)
    BY <1>29 DEF LoopWrite, Goto
<1>22. CASE Remove(t)
    BY <1>22 DEF Remove, Goto
<1>23. CASE RawStart(t)
    BY <1>23 DEF RawStart, Write, Goto
<1>24. CASE RawStop(t)
    BY <1>24 DEF RawStop, Write, Goto
<1>25. CASE Begin(t)
    BY <1>25, Flow DEF Begin
<1>26. CASE ClientGone(t)
    BY <1>26 DEF ClientGone
<1>30. CASE ClientStalls(t)
    BY <1>30 DEF ClientStalls
<1>27. CASE HeadersFail(t)
    BY <1>27 DEF HeadersFail, Fault, Goto
<1>28. CASE WriteFails(t)
    BY <1>28 DEF WriteFails, Fault, WritePoints, Goto
<1> QED
    BY <1>1, <1>2, <1>3, <1>4, <1>5, <1>6, <1>7, <1>8, <1>9, <1>10, <1>11, <1>12, <1>13, <1>14, <1>15, <1>16, <1>17, <1>18, <1>19, <1>20, <1>21, <1>22, <1>23, <1>24, <1>25, <1>26, <1>27, <1>28, <1>29, <1>30
    DEF Step, Outside, MicStep, CallStep, HandlerStep

\* The flag a thread tested under _call_lock is still what it read when it sets or
\* clears it, whatever the number of threads.
THEOREM CallTestsHold == Spec => []CallTestHolds
<1>1. Init => CallTestHolds
    BY DEF Init, CallTestHolds
<1>2. TypeOK /\ LockOwner /\ CallTestHolds /\ [Next]_vars => CallTestHolds'
  <2> SUFFICES ASSUME TypeOK, LockOwner, CallTestHolds, [Next]_vars PROVE CallTestHolds'
      OBVIOUS
  <2>1. ASSUME NEW t \in Threads, Step(t) \/ Outside(t) PROVE CallTestHolds'
      BY <2>1, ThreadCallTestHolds
  <2>2. CASE EspHandle \/ MicStopArrives \/ UartLoses \/ EspReboot
      BY <2>2 DEF EspHandle, MicStopArrives, UartLoses, EspReboot, CallTestHolds
  <2>3. ASSUME NEW graceful \in BOOLEAN, Restart(graceful) PROVE CallTestHolds'
      BY <2>3 DEF Restart, CallTestHolds
  <2>4. CASE UNCHANGED vars
      BY <2>4 DEF vars, CallTestHolds
  <2> QED
      BY <2>1, <2>2, <2>3, <2>4 DEF Next
<1> QED
    BY <1>1, <1>2, TypeCorrect, LocksOwned, PTL DEF Spec

---------------------------------------------------------------------------
(* Count changes during a call.                                            *)

\* The strengthening: while a thread stands between its test of the flag and its
\* count, no other has counted since the call began.
SlipInv ==
    call_active => /\ slips <= 1
                   /\ (\E t \in Threads : pc[t] \in {"acq_count", "rel_count"}) => slips = 0

LEMMA ThreadSlipInv ==
    ASSUME TypeOK, LockOwner, SlipInv, NEW t \in Threads, Step(t) \/ Outside(t)
    PROVE  SlipInv'
<1> USE ThreadsDistinct DEF TypeOK, LockOwner, SlipInv, MicCritical, OpenPoints
<1>1. CASE Acq(t)
    BY <1>1, Flow DEF Acq, Goto
<1>2. CASE AcqCount(t)
    BY <1>2, Flow DEF AcqCount, NoteSlip, Goto
<1>3. CASE AcqSend(t)
    BY <1>3, Flow DEF AcqSend, Write, Goto
<1>4. CASE Rel(t)
    BY <1>4, Flow DEF Rel, Goto
<1>5. CASE RelCount(t)
    BY <1>5, Flow DEF RelCount, NoteSlip, Goto
<1>6. CASE RelSend(t)
    BY <1>6, Flow DEF RelSend, Write, Goto
<1>7. CASE CallTest(t)
    BY <1>7 DEF CallTest, Goto
<1>8. CASE CallSet(t)
    BY <1>8 DEF CallSet, Goto
<1>9. CASE CallSend(t)
    BY <1>9 DEF CallSend, Write, Goto
<1>10. CASE StopTest(t)
    BY <1>10 DEF StopTest, Goto
<1>11. CASE StopClear(t)
    BY <1>11 DEF StopClear, Goto
<1>12. CASE StopSend(t)
    BY <1>12 DEF StopSend, Write, Goto
<1>13. CASE BtnCheck(t)
    BY <1>13 DEF BtnCheck, Goto
<1>14. CASE Show(t)
    BY <1>14, Flow DEF Show, Goto
<1>15. CASE RecOn(t)
    BY <1>15 DEF RecOn, Goto
<1>16. CASE RecOff(t)
    BY <1>16 DEF RecOff, Goto
<1>17. CASE RxCheck(t)
    BY <1>17 DEF RxCheck, Goto
<1>18. CASE Add(t)
    BY <1>18 DEF Add, Goto
<1>19. CASE Headers(t)
    BY <1>19 DEF Headers, Goto
<1>20. CASE LoopEnds(t)
    BY <1>20 DEF LoopEnds, Goto
<1>21. CASE LoopGet(t)
    BY <1>21 DEF LoopGet, Goto
<1>29. CASE LoopWrite(t)
    BY <1>29 DEF LoopWrite, Goto
<1>22. CASE Remove(t)
    BY <1>22 DEF Remove, Goto
<1>23. CASE RawStart(t)
    BY <1>23 DEF RawStart, Write, Goto
<1>24. CASE RawStop(t)
    BY <1>24 DEF RawStop, Write, Goto
<1>25. CASE Begin(t)
    BY <1>25, Flow DEF Begin
<1>26. CASE ClientGone(t)
    BY <1>26 DEF ClientGone
<1>30. CASE ClientStalls(t)
    BY <1>30 DEF ClientStalls
<1>27. CASE HeadersFail(t)
    BY <1>27 DEF HeadersFail, Fault, Goto
<1>28. CASE WriteFails(t)
    BY <1>28 DEF WriteFails, Fault, WritePoints, Goto
<1> QED
    BY <1>1, <1>2, <1>3, <1>4, <1>5, <1>6, <1>7, <1>8, <1>9, <1>10, <1>11, <1>12, <1>13, <1>14, <1>15, <1>16, <1>17, <1>18, <1>19, <1>20, <1>21, <1>22, <1>23, <1>24, <1>25, <1>26, <1>27, <1>28, <1>29, <1>30
    DEF Step, Outside, MicStep, CallStep, HandlerStep

\* Between the start of a call and its end at most one mic_acquire or mic_release
\* changes the count, whatever the number of threads.
THEOREM OneSlip == Spec => []AtMostOneSlip
<1>1. Init => SlipInv
    BY DEF Init, SlipInv
<1>2. TypeOK /\ LockOwner /\ SlipInv /\ [Next]_vars => SlipInv'
  <2> SUFFICES ASSUME TypeOK, LockOwner, SlipInv, [Next]_vars PROVE SlipInv'
      OBVIOUS
  <2>1. ASSUME NEW t \in Threads, Step(t) \/ Outside(t) PROVE SlipInv'
      BY <2>1, ThreadSlipInv
  <2>2. CASE EspHandle \/ MicStopArrives \/ UartLoses \/ EspReboot
      BY <2>2 DEF EspHandle, MicStopArrives, UartLoses, EspReboot, SlipInv
  <2>3. ASSUME NEW graceful \in BOOLEAN, Restart(graceful) PROVE SlipInv'
      BY <2>3 DEF Restart, SlipInv
  <2>4. CASE UNCHANGED vars
      BY <2>4 DEF vars, SlipInv
  <2> QED
      BY <2>1, <2>2, <2>3, <2>4 DEF Next
<1>3. SlipInv => AtMostOneSlip
    BY DEF SlipInv, AtMostOneSlip
<1> QED
    BY <1>1, <1>2, <1>3, TypeCorrect, LocksOwned, PTL DEF Spec

---------------------------------------------------------------------------
(* The count and the wire.                                                 *)

\* The strengthening: the packet that is still to be written says what the count says.
AgreeInv ==
    /\ \A t \in Threads : /\ pc[t] = "acq_send" => mic_users = 1
                          /\ pc[t] = "rel_send" => mic_users = 0
    /\ last_by = "mic" /\ (\A t \in Threads : pc[t] \notin {"acq_send", "rel_send"}) =>
          ((Settled = "audio") <=> (mic_users > 0))

\* Writing a packet makes it the one that decides.
LEMMA SettledAppend ==
    ASSUME uart \in Seq(Controls), NEW p \in Controls, uart' = Append(uart, p)
    PROVE  Settled' = SessionOf(p)
<1>1. Len(uart') = Len(uart) + 1 /\ uart' # <<>>
    OBVIOUS
<1>2. uart'[Len(uart')] = p
    BY <1>1
<1> QED
    BY <1>1, <1>2 DEF Settled, SessionOf

\* The last packet of a longer wire survives the loss of the first.
LEMMA LastOfTail ==
    ASSUME NEW s \in Seq(Controls), s # <<>>, Len(s) # 1
    PROVE  Tail(s) # <<>> /\ Tail(s)[Len(Tail(s))] = s[Len(s)]
<1>1. Len(s) \in Nat /\ Len(s) > 1
    BY s # <<>>
<1>2. Tail(s) \in Seq(Controls) /\ Len(Tail(s)) = Len(s) - 1
    BY <1>1
<1>3. Tail(s)[Len(s) - 1] = s[Len(s)]
    BY <1>1
<1>4. Len(Tail(s)) # 0
    BY <1>1, <1>2
<1>5. Tail(s) # <<>>
  <2>1. \A q \in Seq(Controls) : Len(q) # 0 => q # <<>>
      OBVIOUS
  <2> QED
      BY <1>2, <1>4, <2>1, Zenon
<1>6. Tail(s)[Len(Tail(s))] = Tail(s)[Len(s) - 1]
    BY <1>2
<1> QED
    BY <1>3, <1>5, <1>6

\* Handling the first packet does not change what the last one decides.
LEMMA SettledHandled ==
    ASSUME uart \in Seq(Controls), uart # <<>>, uart' = Tail(uart),
           session' = SessionOf(Head(uart))
    PROVE  Settled' = Settled
<1>1. CASE Len(uart) = 1
    BY <1>1 DEF Settled, SessionOf
<1>2. CASE Len(uart) # 1
  <2>1. uart' # <<>> /\ uart'[Len(uart')] = uart[Len(uart)]
      BY <1>2, LastOfTail
  <2> QED
      BY <2>1 DEF Settled, SessionOf
<1> QED
    BY <1>1, <1>2

\* Nor does losing the first of several.
LEMMA SettledLost ==
    ASSUME uart \in Seq(Controls), uart # <<>>, Len(uart) # 1, uart' = Tail(uart),
           session' = session
    PROVE  Settled' = Settled
<1>1. uart' # <<>> /\ uart'[Len(uart')] = uart[Len(uart)]
    BY LastOfTail
<1> QED
    BY <1>1 DEF Settled, SessionOf

\* What one thread does, or its client does to it, keeps the count and the wire in step.
LEMMA ThreadAgreeInv ==
    ASSUME TypeOK, LockOwner, AgreeInv, NEW t \in Threads, Step(t) \/ Outside(t)
    PROVE  AgreeInv'
<1>a. \A u \in Threads : u # t /\ pc[t] \in MicCritical => pc[u] \notin MicCritical
    BY DEF LockOwner
<1>b. session' = session /\ uart' = uart => Settled' = Settled
    BY DEF Settled, SessionOf
<1> USE DEF TypeOK, AgreeInv, MicCritical, OpenPoints
<1>1. CASE Acq(t)
    BY <1>1, <1>a, <1>b, Flow DEF Acq, Goto
<1>2. CASE AcqCount(t)
    BY <1>2, <1>a, <1>b, Flow DEF AcqCount, NoteSlip, Goto
<1>3. CASE AcqSend(t)
    BY <1>3, <1>a, <1>b, Flow, SettledAppend DEF AcqSend, Write, Goto, Controls, SessionOf
<1>4. CASE Rel(t)
    BY <1>4, <1>a, <1>b, Flow DEF Rel, Goto
<1>5. CASE RelCount(t)
    BY <1>5, <1>a, <1>b, Flow DEF RelCount, NoteSlip, Goto
<1>6. CASE RelSend(t)
    BY <1>6, <1>a, <1>b, Flow, SettledAppend DEF RelSend, Write, Goto, Controls, SessionOf
<1>7. CASE CallTest(t)
    BY <1>7, <1>a, <1>b DEF CallTest, Goto
<1>8. CASE CallSet(t)
    BY <1>8, <1>a, <1>b DEF CallSet, Goto
<1>9. CASE CallSend(t)
    BY <1>9, <1>a, <1>b DEF CallSend, Write, Goto
<1>10. CASE StopTest(t)
    BY <1>10, <1>a, <1>b DEF StopTest, Goto
<1>11. CASE StopClear(t)
    BY <1>11, <1>a, <1>b DEF StopClear, Goto
<1>12. CASE StopSend(t)
    BY <1>12, <1>a, <1>b DEF StopSend, Write, Goto
<1>13. CASE BtnCheck(t)
    BY <1>13, <1>a, <1>b DEF BtnCheck, Goto
<1>14. CASE Show(t)
    BY <1>14, <1>a, <1>b, Flow DEF Show, Goto
<1>15. CASE RecOn(t)
    BY <1>15, <1>a, <1>b DEF RecOn, Goto
<1>16. CASE RecOff(t)
    BY <1>16, <1>a, <1>b DEF RecOff, Goto
<1>17. CASE RxCheck(t)
    BY <1>17, <1>a, <1>b DEF RxCheck, Goto
<1>18. CASE Add(t)
    BY <1>18, <1>a, <1>b DEF Add, Goto
<1>19. CASE Headers(t)
    BY <1>19, <1>a, <1>b DEF Headers, Goto
<1>20. CASE LoopEnds(t)
    BY <1>20, <1>a, <1>b DEF LoopEnds, Goto
<1>21. CASE LoopGet(t)
    BY <1>21, <1>a, <1>b DEF LoopGet, Goto
<1>29. CASE LoopWrite(t)
    BY <1>29, <1>a, <1>b DEF LoopWrite, Goto
<1>22. CASE Remove(t)
    BY <1>22, <1>a, <1>b DEF Remove, Goto
<1>23. CASE RawStart(t)
    BY <1>23, <1>a, <1>b DEF RawStart, Write, Goto
<1>24. CASE RawStop(t)
    BY <1>24, <1>a, <1>b DEF RawStop, Write, Goto
<1>25. CASE Begin(t)
    BY <1>25, <1>a, <1>b, Flow DEF Begin
<1>26. CASE ClientGone(t)
    BY <1>26, <1>a, <1>b DEF ClientGone
<1>30. CASE ClientStalls(t)
    BY <1>30, <1>a, <1>b DEF ClientStalls
<1>27. CASE HeadersFail(t)
    BY <1>27, <1>a, <1>b DEF HeadersFail, Fault, Goto
<1>28. CASE WriteFails(t)
    BY <1>28, <1>a, <1>b DEF WriteFails, Fault, WritePoints, Goto
<1> QED
    BY <1>1, <1>2, <1>3, <1>4, <1>5, <1>6, <1>7, <1>8, <1>9, <1>10, <1>11, <1>12, <1>13, <1>14, <1>15, <1>16, <1>17, <1>18, <1>19, <1>20, <1>21, <1>22, <1>23, <1>24, <1>25, <1>26, <1>27, <1>28, <1>29, <1>30
    DEF Step, Outside, MicStep, CallStep, HandlerStep

\* The microphone count and the packets on the wire agree whenever nobody holds
\* _mic_lock, for any number of threads, any depth of the wire and any faults.
THEOREM CountAndWireAgree == Spec => []MicAgreement
<1>1. Init => AgreeInv
    BY DEF Init, AgreeInv
<1>2. TypeOK /\ LockOwner /\ AgreeInv /\ [Next]_vars => AgreeInv'
  <2> SUFFICES ASSUME TypeOK, LockOwner, AgreeInv, [Next]_vars PROVE AgreeInv'
      OBVIOUS
  <2>1. ASSUME NEW t \in Threads, Step(t) \/ Outside(t) PROVE AgreeInv'
      BY <2>1, ThreadAgreeInv
  <2>2. CASE EspHandle
    <3>1. Settled' = Settled
        BY <2>2, SettledHandled DEF EspHandle, TypeOK
    <3> QED
        BY <2>2, <3>1 DEF EspHandle, AgreeInv
  <2>3. CASE MicStopArrives
    <3>1. Settled' = Settled
        BY <2>3 DEF MicStopArrives, Settled, SessionOf
    <3> QED
        BY <2>3, <3>1 DEF MicStopArrives, AgreeInv
  <2>4. CASE UartLoses
    <3>1. CASE Len(uart) = 1
        BY <2>4, <3>1 DEF UartLoses, AgreeInv
    <3>2. CASE Len(uart) # 1
      <4>1. Settled' = Settled
          BY <2>4, <3>2, SettledLost DEF UartLoses, TypeOK
      <4> QED
          BY <2>4, <3>2, <4>1 DEF UartLoses, AgreeInv
    <3> QED
        BY <3>1, <3>2
  <2>5. CASE EspReboot
      BY <2>5 DEF EspReboot, AgreeInv
  <2>6. ASSUME NEW graceful \in BOOLEAN, Restart(graceful) PROVE AgreeInv'
      BY <2>6 DEF Restart, AgreeInv
  <2>7. CASE UNCHANGED vars
      BY <2>7 DEF vars, AgreeInv, Settled, SessionOf
  <2> QED
      BY <2>1, <2>2, <2>3, <2>4, <2>5, <2>6, <2>7 DEF Next
<1>3. TypeOK /\ LockOwner /\ AgreeInv => MicAgreement
    BY ThreadsDistinct DEF LockOwner, AgreeInv, MicAgreement, MicCritical
<1> QED
    BY <1>1, <1>2, <1>3, TypeCorrect, LocksOwned, PTL DEF Spec

---------------------------------------------------------------------------
(* The queues of the listeners.                                            *)

\* Only add_stream and remove_stream change the queues, and only the fault of a client that
\* is gone before the headers leaves one behind.
LEMMA ThreadStreams ==
    ASSUME TypeOK, StreamsAccounted, NEW t \in Threads, Step(t) \/ Outside(t)
    PROVE  StreamsAccounted'
<1> USE DEF TypeOK, StreamsAccounted, MicCritical, CallCritical, OpenPoints, LoopPoints
<1>1. CASE Acq(t)
    BY <1>1, Flow DEF Acq, Goto
<1>2. CASE AcqCount(t)
    BY <1>2, Flow DEF AcqCount, NoteSlip, Goto
<1>3. CASE AcqSend(t)
    BY <1>3, Flow DEF AcqSend, Write, Goto
<1>4. CASE Rel(t)
    BY <1>4, Flow DEF Rel, Goto
<1>5. CASE RelCount(t)
    BY <1>5, Flow DEF RelCount, NoteSlip, Goto
<1>6. CASE RelSend(t)
    BY <1>6, Flow DEF RelSend, Write, Goto
<1>7. CASE CallTest(t)
    BY <1>7 DEF CallTest, Goto
<1>8. CASE CallSet(t)
    BY <1>8 DEF CallSet, Goto
<1>9. CASE CallSend(t)
    BY <1>9 DEF CallSend, Write, Goto
<1>10. CASE StopTest(t)
    BY <1>10 DEF StopTest, Goto
<1>11. CASE StopClear(t)
    BY <1>11 DEF StopClear, Goto
<1>12. CASE StopSend(t)
    BY <1>12 DEF StopSend, Write, Goto
<1>13. CASE BtnCheck(t)
    BY <1>13 DEF BtnCheck, Goto
<1>14. CASE Show(t)
    BY <1>14, Flow DEF Show, Goto
<1>15. CASE RecOn(t)
    BY <1>15 DEF RecOn, Goto
<1>16. CASE RecOff(t)
    BY <1>16 DEF RecOff, Goto
<1>17. CASE RxCheck(t)
    BY <1>17 DEF RxCheck, Goto
<1>18. CASE Add(t)
    BY <1>18 DEF Add, Goto
<1>19. CASE Headers(t)
    BY <1>19 DEF Headers, Goto
<1>20. CASE LoopEnds(t)
    BY <1>20 DEF LoopEnds, Goto
<1>21. CASE LoopGet(t)
    BY <1>21 DEF LoopGet, Goto
<1>29. CASE LoopWrite(t)
    BY <1>29 DEF LoopWrite, Goto
<1>22. CASE Remove(t)
    BY <1>22 DEF Remove, Goto
<1>23. CASE RawStart(t)
    BY <1>23 DEF RawStart, Write, Goto
<1>24. CASE RawStop(t)
    BY <1>24 DEF RawStop, Write, Goto
<1>25. CASE Begin(t)
    BY <1>25, Flow DEF Begin
<1>26. CASE ClientGone(t)
    BY <1>26 DEF ClientGone
<1>30. CASE ClientStalls(t)
    BY <1>30 DEF ClientStalls
<1>27. CASE HeadersFail(t)
    BY <1>27 DEF HeadersFail, Fault, Goto
<1>28. CASE WriteFails(t)
    BY <1>28 DEF WriteFails, Fault, WritePoints, Goto
<1> QED
    BY <1>1, <1>2, <1>3, <1>4, <1>5, <1>6, <1>7, <1>8, <1>9, <1>10, <1>11, <1>12, <1>13, <1>14, <1>15, <1>16, <1>17, <1>18, <1>19, <1>20, <1>21, <1>22, <1>23, <1>24, <1>25, <1>26, <1>27, <1>28, <1>29, <1>30
    DEF Step, Outside, MicStep, CallStep, HandlerStep

\* A queue is registered exactly while its handler is between add_stream and remove_stream,
\* or its client was gone before the headers, for any number of handlers and faults.
THEOREM QueuesAccounted == Spec => []StreamsAccounted
<1>1. Init => StreamsAccounted
    BY DEF Init, StreamsAccounted, LoopPoints
<1>2. TypeOK /\ StreamsAccounted /\ [Next]_vars => StreamsAccounted'
  <2> SUFFICES ASSUME TypeOK, StreamsAccounted, [Next]_vars PROVE StreamsAccounted'
      OBVIOUS
  <2>1. ASSUME NEW t \in Threads, Step(t) \/ Outside(t) PROVE StreamsAccounted'
      BY <2>1, ThreadStreams
  <2>2. CASE EspHandle \/ MicStopArrives \/ UartLoses \/ EspReboot
      BY <2>2 DEF EspHandle, MicStopArrives, UartLoses, EspReboot, Fault, StreamsAccounted, TypeOK
  <2>3. ASSUME NEW graceful \in BOOLEAN, Restart(graceful) PROVE StreamsAccounted'
      BY <2>3 DEF Restart, Fault, StreamsAccounted, LoopPoints, TypeOK
  <2>4. CASE UNCHANGED vars
      BY <2>4 DEF vars, StreamsAccounted
  <2> QED
      BY <2>1, <2>2, <2>3, <2>4 DEF Next
<1> QED
    BY <1>1, <1>2, TypeCorrect, PTL DEF Spec

=============================================================================

------------------------- MODULE StrategyDaemonProofs -------------------------
(* Proofs about StrategyDaemon for every setting of the daemon and every     *)
(* bound.                                                                    *)
EXTENDS StrategyDaemon, FiniteSetTheorems, TLAPS

-----------------------------------------------------------------------------
(* Type correctness                                                         *)

Session == [status : Statuses, stopped : BOOLEAN]
StoreOK ==
    /\ runs \in 0..MaxRuns
    /\ session \in [1..MaxRuns -> Session]
    /\ row \in [run : 0..MaxRuns, status : Statuses, saved : Memory \cup {NoState}]
    /\ age \in 0..(Stale + 1)
    /\ kept \in Memory

LEMMA InitType == Init => TypeOK
<1> SUFFICES ASSUME Init PROVE TypeOK
    OBVIOUS
<1>1. "NONE" \in Statuses /\ 0 \in Memory
    BY BoundAssumption DEF Statuses, Memory
<1>2. session \in [1..MaxRuns -> [status : Statuses, stopped : BOOLEAN]]
    BY <1>1 DEF Init
<1>3. row \in [run : 0..MaxRuns, status : Statuses, saved : Memory \cup {NoState}]
    BY BoundAssumption, <1>1 DEF Init
<1>4. task \in [Tasks -> {"none", "pending", "done", "failed"}]
    BY DEF Init, NoTasks
<1>5. age \in 0..(Stale + 1) /\ delay \in Nat /\ crashes \in 0..MaxCrashes /\ runs \in 0..MaxRuns
      /\ cut \subseteq 0..MaxRuns
    BY DelayAssumption, BoundAssumption DEF Init
<1> QED
    BY <1>1, <1>2, <1>3, <1>4, <1>5 DEF Init, TypeOK, Gone, Aborted

\* The transactions keep the tables well formed.
LEMMA StartType ==
    ASSUME StoreOK, runs < MaxRuns, StartRuntimeSession
    PROVE  StoreOK' /\ row'.saved = NoState
<1>1. [status |-> "STARTING", stopped |-> FALSE] \in Session
    BY DEF Session, Statuses
<1>2. row' \in [run : 0..MaxRuns, status : Statuses, saved : Memory \cup {NoState}]
    BY BoundAssumption DEF StoreOK, StartRuntimeSession, Statuses
<1>3. session' \in [1..MaxRuns -> Session]
    BY <1>1 DEF StoreOK, StartRuntimeSession
<1> QED
    BY <1>2, <1>3, BoundAssumption, DelayAssumption DEF StoreOK, StartRuntimeSession

LEMMA UpdateType ==
    ASSUME StoreOK, NEW s \in Statuses, NEW v \in Memory \cup {NoState},
           UpdateRuntimeStatus(s, v)
    PROVE  StoreOK'
<1>1. row' \in [run : 0..MaxRuns, status : Statuses, saved : Memory \cup {NoState}]
    BY DEF StoreOK, UpdateRuntimeStatus
<1>2. session' \in [1..MaxRuns -> Session]
    BY DEF StoreOK, UpdateRuntimeStatus, Session
<1> QED
    BY <1>1, <1>2, DelayAssumption DEF StoreOK, UpdateRuntimeStatus

LEMMA StopType ==
    ASSUME StoreOK, NEW s \in Statuses, StopRuntimeSession(s)
    PROVE  StoreOK'
<1>1. row' \in [run : 0..MaxRuns, status : Statuses, saved : Memory \cup {NoState}]
    BY DEF StoreOK, StopRuntimeSession
<1>2. [status |-> s, stopped |-> TRUE] \in Session
    BY DEF Session
<1>3. session' \in [1..MaxRuns -> Session]
    BY <1>2 DEF StoreOK, StopRuntimeSession
<1> QED
    BY <1>1, <1>3, DelayAssumption DEF StoreOK, StopRuntimeSession

LEMMA TypeStep == TypeOK /\ [Next]_vars => TypeOK'
<1> DEFINE LoopOK ==
        /\ pc \in Alive \cup Gone
        /\ stopEvent \in BOOLEAN /\ restartable \in BOOLEAN
        /\ restarts \in Nat /\ delay \in Nat /\ timer \in Nat
        /\ mem \in Memory /\ file \in Statuses
        /\ cut \subseteq 0..MaxRuns /\ crashes \in 0..MaxCrashes
<1> DEFINE TaskOK ==
        /\ task \in [Tasks -> {"none", "pending", "done", "failed"}]
        /\ pump \in {"none", "alive", "dead"}
<1>a. /\ TypeOK => LoopOK /\ TaskOK /\ StoreOK
      /\ LoopOK' /\ TaskOK' /\ StoreOK' => TypeOK'
    BY DEF TypeOK, StoreOK, Session
<1>b. 0 \in Memory /\ NoState \in Memory \cup {NoState} /\ Memory \subseteq Memory \cup {NoState}
    BY BoundAssumption DEF Memory
<1>c. {"RUNNING", "STOPPED", "FAILED", "RESTARTING"} \subseteq Statuses
    BY DEF Statuses
<1>d. NoTasks \in [Tasks -> {"none", "pending", "done", "failed"}]
    BY DEF NoTasks
<1> SUFFICES ASSUME LoopOK, TaskOK, StoreOK, [Next]_vars
             PROVE  LoopOK' /\ TaskOK' /\ StoreOK'
    BY <1>a
<1> USE <1>b, <1>c, <1>d, DelayAssumption, BoundAssumption
<1> USE DEF taskVars, cycleVars, storeVars, cutVars, Busy, Alive, Ended, Aborted, Gone, InCycle
<1>1. CASE Launch
    <2>1. LoopOK'
        BY <1>1 DEF Launch
    <2>2. TaskOK'
        BY <1>1 DEF Launch
    <2>3. StoreOK'
        BY <1>1 DEF Launch, StoreOK
    <2> QED
        BY <2>1, <2>2, <2>3
<1>2. CASE BeginCycle
    <2>1. StoreOK' /\ row'.saved = NoState
        <3>1. runs < MaxRuns /\ StartRuntimeSession
            BY <1>2 DEF BeginCycle
        <3> QED
            BY <3>1, StartType
    <2>2. LoopOK'
        BY <1>2, <2>1 DEF BeginCycle
    <2>3. TaskOK'
        BY <1>2 DEF BeginCycle
    <2> QED
        BY <2>1, <2>2, <2>3
<1>3. CASE LeaveLoop
    <2>1. LoopOK'
        BY <1>3 DEF LeaveLoop
    <2>2. TaskOK'
        BY <1>3 DEF LeaveLoop
    <2>3. StoreOK'
        BY <1>3 DEF LeaveLoop, StoreOK
    <2> QED
        BY <2>1, <2>2, <2>3
<1>4. CASE StartupFails
    <2>1. LoopOK'
        BY <1>4 DEF StartupFails
    <2>2. TaskOK'
        BY <1>4 DEF StartupFails
    <2>3. StoreOK'
        BY <1>4 DEF StartupFails, StoreOK
    <2> QED
        BY <2>1, <2>2, <2>3
<1>5. CASE CreateTasks
    <2>1. LoopOK'
        BY <1>5 DEF CreateTasks, PersistRuntimeSnapshot
    <2>2. TaskOK'
        BY <1>5 DEF CreateTasks, PersistRuntimeSnapshot
    <2>3. StoreOK'
        <3>1. UpdateRuntimeStatus("RUNNING", mem)
            BY <1>5 DEF CreateTasks, PersistRuntimeSnapshot
        <3> QED
            BY <3>1, UpdateType
    <2> QED
        BY <2>1, <2>2, <2>3
<1>6. CASE HandleEvent
    <2>1. LoopOK'
        BY <1>6 DEF HandleEvent, Step, Memory
    <2>2. TaskOK'
        BY <1>6 DEF HandleEvent, Step
    <2>3. StoreOK'
        BY <1>6 DEF HandleEvent, Step, StoreOK
    <2> QED
        BY <2>1, <2>2, <2>3
<1>7. CASE PumpDies
    <2>1. LoopOK'
        BY <1>7 DEF PumpDies, Step
    <2>2. TaskOK'
        BY <1>7 DEF PumpDies, Step
    <2>3. StoreOK'
        BY <1>7 DEF PumpDies, Step, StoreOK
    <2> QED
        BY <2>1, <2>2, <2>3
<1>8. CASE RunnerExits
    <2>1. LoopOK'
        BY <1>8 DEF RunnerExits, Step, Finish
    <2>2. TaskOK'
        BY <1>8 DEF RunnerExits, Step, Finish
    <2>3. StoreOK'
        BY <1>8 DEF RunnerExits, Step, Finish, StoreOK
    <2> QED
        BY <2>1, <2>2, <2>3
<1>9. CASE RunnerFails
    <2>1. LoopOK'
        BY <1>9 DEF RunnerFails, Step, Finish
    <2>2. TaskOK'
        BY <1>9 DEF RunnerFails, Step, Finish
    <2>3. StoreOK'
        BY <1>9 DEF RunnerFails, Step, Finish, StoreOK
    <2> QED
        BY <2>1, <2>2, <2>3
<1>10. CASE HeartbeatLoop
    <2>1. LoopOK'
        BY <1>10 DEF HeartbeatLoop, Step, PersistRuntimeSnapshot
    <2>2. TaskOK'
        BY <1>10 DEF HeartbeatLoop, Step, PersistRuntimeSnapshot
    <2>3. StoreOK'
        <3>1. UpdateRuntimeStatus("RUNNING", mem)
            BY <1>10 DEF HeartbeatLoop, Step, PersistRuntimeSnapshot
        <3> QED
            BY <3>1, UpdateType
    <2> QED
        BY <2>1, <2>2, <2>3
<1>11. CASE ReconcileLoop
    <2>1. LoopOK'
        BY <1>11 DEF ReconcileLoop, Step, PersistRuntimeSnapshot
    <2>2. TaskOK'
        BY <1>11 DEF ReconcileLoop, Step, PersistRuntimeSnapshot
    <2>3. StoreOK'
        <3>1. UpdateRuntimeStatus("RUNNING", mem)
            BY <1>11 DEF ReconcileLoop, Step, PersistRuntimeSnapshot
        <3> QED
            BY <3>1, UpdateType
    <2> QED
        BY <2>1, <2>2, <2>3
<1>12. CASE LoopFails
    <2>1. LoopOK'
        BY <1>12 DEF LoopFails, Step, Finish
    <2>2. TaskOK'
        BY <1>12 DEF LoopFails, Step, Finish
    <2>3. StoreOK'
        BY <1>12 DEF LoopFails, Step, Finish, StoreOK
    <2> QED
        BY <2>1, <2>2, <2>3
<1>13. CASE StopWakes
    <2>1. LoopOK'
        BY <1>13 DEF StopWakes, Step, Finish
    <2>2. TaskOK'
        BY <1>13 DEF StopWakes, Step, Finish
    <2>3. StoreOK'
        BY <1>13 DEF StopWakes, Step, Finish, StoreOK
    <2> QED
        BY <2>1, <2>2, <2>3
<1>14. CASE CycleRaises
    <2>1. LoopOK'
        BY <1>14 DEF CycleRaises, Cleared
    <2>2. TaskOK'
        BY <1>14 DEF CycleRaises, Cleared
    <2>3. StoreOK'
        BY <1>14 DEF CycleRaises, Cleared, StoreOK
    <2> QED
        BY <2>1, <2>2, <2>3
<1>15. CASE CycleStops
    <2>1. LoopOK'
        BY <1>15 DEF CycleStops, Cleared, PersistRuntimeSnapshot
    <2>2. TaskOK'
        BY <1>15 DEF CycleStops, Cleared, PersistRuntimeSnapshot
    <2>3. StoreOK'
        <3>1. UpdateRuntimeStatus("STOPPED", mem)
            BY <1>15 DEF CycleStops, Cleared, PersistRuntimeSnapshot
        <3> QED
            BY <3>1, UpdateType
    <2> QED
        BY <2>1, <2>2, <2>3
<1>16. CASE StrategyExits
    <2>1. LoopOK'
        BY <1>16 DEF StrategyExits, Cleared, PersistRuntimeSnapshot
    <2>2. TaskOK'
        BY <1>16 DEF StrategyExits, Cleared, PersistRuntimeSnapshot
    <2>3. StoreOK'
        <3>1. UpdateRuntimeStatus("STOPPED", mem)
            BY <1>16 DEF StrategyExits, Cleared, PersistRuntimeSnapshot
        <3> QED
            BY <3>1, UpdateType
    <2> QED
        BY <2>1, <2>2, <2>3
<1>17. CASE CloseSession
    <2>1. LoopOK'
        BY <1>17 DEF CloseSession
    <2>2. TaskOK'
        BY <1>17 DEF CloseSession
    <2>3. StoreOK'
        <3>1. StopRuntimeSession("STOPPED")
            BY <1>17 DEF CloseSession
        <3> QED
            BY <3>1, StopType
    <2> QED
        BY <2>1, <2>2, <2>3
<1>18. CASE RecordFailure
    <2>1. LoopOK'
        BY <1>18 DEF RecordFailure
    <2>2. TaskOK'
        BY <1>18 DEF RecordFailure
    <2>3. StoreOK'
        <3>1. UpdateRuntimeStatus("FAILED", NoState)
            BY <1>18 DEF RecordFailure
        <3> QED
            BY <3>1, UpdateType
    <2> QED
        BY <2>1, <2>2, <2>3
<1>19. CASE CloseFailedSession
    <2>1. LoopOK'
        BY <1>19 DEF CloseFailedSession
    <2>2. TaskOK'
        BY <1>19 DEF CloseFailedSession
    <2>3. StoreOK'
        <3>1. StopRuntimeSession("FAILED")
            BY <1>19 DEF CloseFailedSession
        <3> QED
            BY <3>1, StopType
    <2> QED
        BY <2>1, <2>2, <2>3
<1>20. CASE TransitionToRestart
    <2>1. LoopOK'
        BY <1>20 DEF TransitionToRestart
    <2>2. TaskOK'
        BY <1>20 DEF TransitionToRestart
    <2>3. StoreOK'
        <3>1. UpdateRuntimeStatus("RESTARTING", NoState)
            BY <1>20 DEF TransitionToRestart
        <3> QED
            BY <3>1, UpdateType
    <2> QED
        BY <2>1, <2>2, <2>3
<1>21. CASE WakeUp
    <2>1. LoopOK'
        BY <1>21 DEF WakeUp, Lesser
    <2>2. TaskOK'
        BY <1>21 DEF WakeUp, Lesser
    <2>3. StoreOK'
        BY <1>21 DEF WakeUp, Lesser, StoreOK
    <2> QED
        BY <2>1, <2>2, <2>3
<1>22. CASE RequestStop
    <2>1. LoopOK'
        BY <1>22 DEF RequestStop
    <2>2. TaskOK'
        BY <1>22 DEF RequestStop
    <2>3. StoreOK'
        BY <1>22 DEF RequestStop, StoreOK
    <2> QED
        BY <2>1, <2>2, <2>3
<1>23. CASE Crash
    <2>1. LoopOK'
        BY <1>23 DEF Crash, Cleared, Interrupted, StoreOK
    <2>2. TaskOK'
        BY <1>23 DEF Crash, Cleared, Interrupted
    <2>3. StoreOK'
        BY <1>23 DEF Crash, Cleared, Interrupted, StoreOK
    <2> QED
        BY <2>1, <2>2, <2>3
<1>24. CASE Cancel
    <2>1. LoopOK'
        BY <1>24 DEF Cancel, Cleared, Interrupted, StoreOK
    <2>2. TaskOK'
        BY <1>24 DEF Cancel, Cleared, Interrupted
    <2>3. StoreOK'
        BY <1>24 DEF Cancel, Cleared, Interrupted, StoreOK
    <2> QED
        BY <2>1, <2>2, <2>3
<1>25. CASE LoopRaises
    <2>1. LoopOK'
        BY <1>25 DEF LoopRaises, Interrupted, StoreOK
    <2>2. TaskOK'
        BY <1>25 DEF LoopRaises, Interrupted
    <2>3. StoreOK'
        BY <1>25 DEF LoopRaises, Interrupted, StoreOK
    <2> QED
        BY <2>1, <2>2, <2>3
<1>26. CASE Tick
    <2>1. LoopOK'
        BY <1>26 DEF Tick, Lesser
    <2>2. TaskOK'
        BY <1>26 DEF Tick, Lesser
    <2>3. StoreOK'
        BY <1>26 DEF Tick, Lesser, StoreOK
    <2> QED
        BY <2>1, <2>2, <2>3
<1>27. CASE UNCHANGED vars
    BY <1>27 DEF vars, StoreOK
<1> QED
    BY <1>1, <1>2, <1>3, <1>4, <1>5, <1>6, <1>7, <1>8, <1>9, <1>10, <1>11, <1>12, <1>13,
       <1>14, <1>15, <1>16, <1>17, <1>18, <1>19, <1>20, <1>21, <1>22, <1>23, <1>24, <1>25,
       <1>26, <1>27 DEF Next, Loop, Running

\* Every variable of the daemon keeps its type.
THEOREM TypeCorrect == Spec => []TypeOK
<1> QED
    BY InitType, TypeStep, PTL DEF Spec

-----------------------------------------------------------------------------
(* runtime_status and runtime_sessions                                      *)

LEMMA AgreeStep == TypeOK /\ TablesAgree /\ [Next]_vars => TablesAgree'
<1> SUFFICES ASSUME TypeOK, TablesAgree, [Next]_vars PROVE TablesAgree'
    OBVIOUS
<1> USE BoundAssumption
<1> USE DEF taskVars, cycleVars, storeVars, cutVars, Busy, Alive, Ended, Aborted, Gone, InCycle, Awaiting, Tasks, TypeOK, TablesAgree
<1>1. CASE Launch
    BY <1>1 DEF Launch
<1>2. CASE BeginCycle
    BY <1>2 DEF BeginCycle, StartRuntimeSession
<1>3. CASE LeaveLoop
    BY <1>3 DEF LeaveLoop
<1>4. CASE StartupFails
    BY <1>4 DEF StartupFails
<1>5. CASE CreateTasks
    BY <1>5 DEF CreateTasks, PersistRuntimeSnapshot, UpdateRuntimeStatus
<1>6. CASE HandleEvent
    BY <1>6 DEF HandleEvent, Step
<1>7. CASE PumpDies
    BY <1>7 DEF PumpDies, Step
<1>8. CASE RunnerExits
    BY <1>8 DEF RunnerExits, Step, Finish
<1>9. CASE RunnerFails
    BY <1>9 DEF RunnerFails, Step, Finish
<1>10. CASE HeartbeatLoop
    BY <1>10 DEF HeartbeatLoop, Step, PersistRuntimeSnapshot, UpdateRuntimeStatus
<1>11. CASE ReconcileLoop
    BY <1>11 DEF ReconcileLoop, Step, PersistRuntimeSnapshot, UpdateRuntimeStatus
<1>12. CASE LoopFails
    BY <1>12 DEF LoopFails, Step, Finish
<1>13. CASE StopWakes
    BY <1>13 DEF StopWakes, Step, Finish
<1>14. CASE CycleRaises
    BY <1>14 DEF CycleRaises, Cleared
<1>15. CASE CycleStops
    BY <1>15 DEF CycleStops, Cleared, PersistRuntimeSnapshot, UpdateRuntimeStatus
<1>16. CASE StrategyExits
    BY <1>16 DEF StrategyExits, Cleared, PersistRuntimeSnapshot, UpdateRuntimeStatus
<1>17. CASE CloseSession
    BY <1>17 DEF CloseSession, StopRuntimeSession
<1>18. CASE RecordFailure
    BY <1>18 DEF RecordFailure, UpdateRuntimeStatus
<1>19. CASE CloseFailedSession
    BY <1>19 DEF CloseFailedSession, StopRuntimeSession
<1>20. CASE TransitionToRestart
    BY <1>20 DEF TransitionToRestart, UpdateRuntimeStatus
<1>21. CASE WakeUp
    BY <1>21 DEF WakeUp, Lesser
<1>22. CASE RequestStop
    BY <1>22 DEF RequestStop
<1>23. CASE Crash
    BY <1>23 DEF Crash, Cleared, Interrupted
<1>24. CASE Cancel
    BY <1>24 DEF Cancel, Cleared, Interrupted
<1>25. CASE LoopRaises
    BY <1>25 DEF LoopRaises, Interrupted
<1>26. CASE Tick
    BY <1>26 DEF Tick, Lesser, SomeEnded
<1>27. CASE UNCHANGED vars
    BY <1>27 DEF vars
<1> QED
    BY <1>1, <1>2, <1>3, <1>4, <1>5, <1>6, <1>7, <1>8, <1>9, <1>10, <1>11, <1>12, <1>13,
       <1>14, <1>15, <1>16, <1>17, <1>18, <1>19, <1>20, <1>21, <1>22, <1>23, <1>24, <1>25,
       <1>26, <1>27 DEF Next, Loop, Running

\* Whatever the daemon was doing when it was last killed, the status row names
\* the newest session and the two tables give it one status.
THEOREM TablesAlwaysAgree == Spec => []TablesAgree
<1>1. Init => TablesAgree
    BY DEF Init, TablesAgree
<1> QED
    BY <1>1, TypeCorrect, AgreeStep, PTL DEF Spec

-----------------------------------------------------------------------------
(* Sessions are closed                                                      *)

LEMMA CloseStep == TypeOK /\ CloseInv /\ [Next]_vars => CloseInv'
<1> SUFFICES ASSUME TypeOK, CloseInv, [Next]_vars PROVE CloseInv'
    OBVIOUS
<1> USE BoundAssumption
<1> USE DEF taskVars, cycleVars, storeVars, cutVars, Busy, Alive, Ended, Aborted, Gone, InCycle, Awaiting, Tasks, TypeOK,
        CloseInv, SessionsClosed
<1>1. CASE Launch
    BY <1>1 DEF Launch
<1>2. CASE BeginCycle
    BY <1>2 DEF BeginCycle, StartRuntimeSession
<1>3. CASE LeaveLoop
    BY <1>3 DEF LeaveLoop
<1>4. CASE StartupFails
    BY <1>4 DEF StartupFails
<1>5. CASE CreateTasks
    BY <1>5 DEF CreateTasks, PersistRuntimeSnapshot, UpdateRuntimeStatus
<1>6. CASE HandleEvent
    BY <1>6 DEF HandleEvent, Step
<1>7. CASE PumpDies
    BY <1>7 DEF PumpDies, Step
<1>8. CASE RunnerExits
    BY <1>8 DEF RunnerExits, Step, Finish
<1>9. CASE RunnerFails
    BY <1>9 DEF RunnerFails, Step, Finish
<1>10. CASE HeartbeatLoop
    BY <1>10 DEF HeartbeatLoop, Step, PersistRuntimeSnapshot, UpdateRuntimeStatus
<1>11. CASE ReconcileLoop
    BY <1>11 DEF ReconcileLoop, Step, PersistRuntimeSnapshot, UpdateRuntimeStatus
<1>12. CASE LoopFails
    BY <1>12 DEF LoopFails, Step, Finish
<1>13. CASE StopWakes
    BY <1>13 DEF StopWakes, Step, Finish
<1>14. CASE CycleRaises
    BY <1>14 DEF CycleRaises, Cleared
<1>15. CASE CycleStops
    BY <1>15 DEF CycleStops, Cleared, PersistRuntimeSnapshot, UpdateRuntimeStatus
<1>16. CASE StrategyExits
    BY <1>16 DEF StrategyExits, Cleared, PersistRuntimeSnapshot, UpdateRuntimeStatus
<1>17. CASE CloseSession
    BY <1>17 DEF CloseSession, StopRuntimeSession
<1>18. CASE RecordFailure
    BY <1>18 DEF RecordFailure, UpdateRuntimeStatus
<1>19. CASE CloseFailedSession
    BY <1>19 DEF CloseFailedSession, StopRuntimeSession
<1>20. CASE TransitionToRestart
    BY <1>20 DEF TransitionToRestart, UpdateRuntimeStatus
<1>21. CASE WakeUp
    BY <1>21 DEF WakeUp, Lesser
<1>22. CASE RequestStop
    BY <1>22 DEF RequestStop
<1>23. CASE Crash
    BY <1>23 DEF Crash, Cleared, Interrupted
<1>24. CASE Cancel
    BY <1>24 DEF Cancel, Cleared, Interrupted
<1>25. CASE LoopRaises
    BY <1>25 DEF LoopRaises, Interrupted
<1>26. CASE Tick
    BY <1>26 DEF Tick, Lesser, SomeEnded
<1>27. CASE UNCHANGED vars
    BY <1>27 DEF vars
<1> QED
    BY <1>1, <1>2, <1>3, <1>4, <1>5, <1>6, <1>7, <1>8, <1>9, <1>10, <1>11, <1>12, <1>13,
       <1>14, <1>15, <1>16, <1>17, <1>18, <1>19, <1>20, <1>21, <1>22, <1>23, <1>24, <1>25,
       <1>26, <1>27 DEF Next, Loop, Running

\* However many cycles end in whatever way, no session is left open but one that a kill,
\* a cancellation or a failed write of the loop itself came into.
THEOREM SessionsAlwaysClosed == Spec => []SessionsClosed
<1>1. Init => CloseInv
    BY BoundAssumption DEF Init, CloseInv, SessionsClosed, InCycle
<1>2. Spec => []CloseInv
    BY <1>1, TypeCorrect, CloseStep, PTL DEF Spec
<1>3. CloseInv => SessionsClosed
    BY DEF CloseInv
<1> QED
    BY <1>2, <1>3, PTL

-----------------------------------------------------------------------------
(* Health                                                                   *)

\* A heartbeat just written is no older than the await it opens is long.
LEMMA FreshBeat ==
    ASSUME NEW a, NEW t, NEW m \in Nat, a = 0, t \in 0..m
    PROVE  a + t <= m
OBVIOUS

LEMMA TimingStep == TypeOK /\ TimingInv /\ [Next]_vars => TimingInv'
<1> SUFFICES ASSUME TypeOK, TimingInv, [Next]_vars PROVE TimingInv'
    OBVIOUS
<1> USE DelayAssumption, BoundAssumption
<1> USE DEF taskVars, cycleVars, storeVars, cutVars, Busy, Alive, Ended, Aborted, Gone, InCycle, Awaiting, Tasks, TypeOK, TimingInv
<1>1. CASE Launch
    BY <1>1 DEF Launch
<1>2. CASE BeginCycle
    <2>1. timer' \in 0..MaxAwait /\ age' = 0 /\ row'.status = "STARTING"
        BY <1>2 DEF BeginCycle, StartRuntimeSession
    <2>2. delay' = delay /\ pc' = "starting"
        BY <1>2 DEF BeginCycle
    <2>3. age' + timer' <= MaxAwait
        BY <2>1, FreshBeat
    <2> QED
        BY <2>1, <2>2, <2>3
<1>3. CASE LeaveLoop
    BY <1>3 DEF LeaveLoop
<1>4. CASE StartupFails
    BY <1>4 DEF StartupFails
<1>5. CASE CreateTasks
    BY <1>5 DEF CreateTasks, PersistRuntimeSnapshot, UpdateRuntimeStatus
<1>6. CASE HandleEvent
    BY <1>6 DEF HandleEvent, Step
<1>7. CASE PumpDies
    BY <1>7 DEF PumpDies, Step
<1>8. CASE RunnerExits
    BY <1>8 DEF RunnerExits, Step, Finish
<1>9. CASE RunnerFails
    BY <1>9 DEF RunnerFails, Step, Finish
<1>10. CASE HeartbeatLoop
    BY <1>10 DEF HeartbeatLoop, Step, PersistRuntimeSnapshot, UpdateRuntimeStatus
<1>11. CASE ReconcileLoop
    BY <1>11 DEF ReconcileLoop, Step, PersistRuntimeSnapshot, UpdateRuntimeStatus
<1>12. CASE LoopFails
    BY <1>12 DEF LoopFails, Step, Finish
<1>13. CASE StopWakes
    BY <1>13 DEF StopWakes, Step, Finish
<1>14. CASE CycleRaises
    BY <1>14 DEF CycleRaises, Cleared
<1>15. CASE CycleStops
    BY <1>15 DEF CycleStops, Cleared, PersistRuntimeSnapshot, UpdateRuntimeStatus
<1>16. CASE StrategyExits
    BY <1>16 DEF StrategyExits, Cleared, PersistRuntimeSnapshot, UpdateRuntimeStatus
<1>17. CASE CloseSession
    BY <1>17 DEF CloseSession, StopRuntimeSession
<1>18. CASE RecordFailure
    BY <1>18 DEF RecordFailure, UpdateRuntimeStatus
<1>19. CASE CloseFailedSession
    BY <1>19 DEF CloseFailedSession, StopRuntimeSession
<1>20. CASE TransitionToRestart
    BY <1>20 DEF TransitionToRestart, UpdateRuntimeStatus
<1>21. CASE WakeUp
    BY <1>21 DEF WakeUp, Lesser
<1>22. CASE RequestStop
    BY <1>22 DEF RequestStop
<1>23. CASE Crash
    BY <1>23 DEF Crash, Cleared, Interrupted
<1>24. CASE Cancel
    BY <1>24 DEF Cancel, Cleared, Interrupted
<1>25. CASE LoopRaises
    BY <1>25 DEF LoopRaises, Interrupted
<1>26. CASE Tick
    BY <1>26 DEF Tick, Lesser, SomeEnded
<1>27. CASE UNCHANGED vars
    BY <1>27 DEF vars
<1> QED
    BY <1>1, <1>2, <1>3, <1>4, <1>5, <1>6, <1>7, <1>8, <1>9, <1>10, <1>11, <1>12, <1>13,
       <1>14, <1>15, <1>16, <1>17, <1>18, <1>19, <1>20, <1>21, <1>22, <1>23, <1>24, <1>25,
       <1>26, <1>27 DEF Next, Loop, Running

\* With heartbeat interval, longest backoff and startup within stale_after, the
\* health check never reports a daemon that lives and waits as dead.
THEOREM AliveAlwaysHealthy == Spec => []AliveIsHealthy
<1>1. Init => TimingInv
    BY DelayAssumption DEF Init, TimingInv
<1>2. Spec => []TimingInv
    BY <1>1, TypeCorrect, TimingStep, PTL DEF Spec
<1>3. TypeOK /\ TimingInv => AliveIsHealthy
    BY DelayAssumption, BoundAssumption DEF TypeOK, TimingInv, AliveIsHealthy, Healthy, Awaiting
<1> QED
    BY <1>2, <1>3, TypeCorrect, PTL
-----------------------------------------------------------------------------
(* The backoff.  Integers has no facts about powers for the provers; the    *)
(* number of subsets gives them.                                            *)

LEMMA OneDoubling == 2^0 = 1
<1>1. IsFiniteSet({}) /\ Cardinality({}) = 0
    BY FS_EmptySet
<1>2. Cardinality(SUBSET {}) = 2^0
    BY <1>1, FS_SUBSET
<1>3. SUBSET {} = {{}}
    OBVIOUS
<1>4. Cardinality({{}}) = 1
    BY FS_Singleton
<1> QED
    BY <1>2, <1>3, <1>4

\* Every subset of 1..n is one of 1..n+1 without n+1, and gives one with it.
LEMMA Doubling ==
    ASSUME NEW n \in Nat
    PROVE  2^n \in Nat /\ 2^(n + 1) = 2 * 2^n
<1> DEFINE A == SUBSET (1..n)
           B == {T \cup {n + 1} : T \in A}
           add == [T \in A |-> T \cup {n + 1}]
<1>1. IsFiniteSet(A) /\ Cardinality(A) = 2^n /\ Cardinality(A) \in Nat
    <2>1. IsFiniteSet(1..n) /\ Cardinality(1..n) = n
        BY FS_Interval
    <2> QED
        BY <2>1, FS_SUBSET, FS_CardinalityType
<1>2. Cardinality(SUBSET (1..(n + 1))) = 2^(n + 1)
    <2>1. IsFiniteSet(1..(n + 1)) /\ Cardinality(1..(n + 1)) = n + 1
        BY FS_Interval
    <2> QED
        BY <2>1, FS_SUBSET
<1>3. ExistsBijection(A, B)
    <2>1. add \in [A -> B]
        OBVIOUS
    <2>2. ASSUME NEW S \in A, NEW T \in A, S \cup {n + 1} = T \cup {n + 1}
          PROVE  S = T
        <3>1. n + 1 \notin S /\ n + 1 \notin T
            BY DEF A
        <3> QED
            BY <3>1, <2>2
    <2>3. \A S, T \in A : add[S] = add[T] => S = T
        BY <2>2
    <2>4. add \in Injection(A, B)
        BY <2>1, <2>3 DEF Injection, IsInjective
    <2>5. add \in Surjection(A, B)
        BY <2>1 DEF Surjection
    <2>6. add \in Bijection(A, B)
        BY <2>4, <2>5 DEF Bijection
    <2> QED
        BY <2>6 DEF ExistsBijection
<1>4. IsFiniteSet(B) /\ Cardinality(B) = 2^n
    BY <1>1, <1>3, FS_Bijection
<1>5. A \cap B = {}
    BY DEF A, B
<1>6. A \cup B = SUBSET (1..(n + 1))
    <2>1. ASSUME NEW T \in SUBSET (1..(n + 1)) PROVE T \in A \cup B
        <3>1. CASE n + 1 \in T
            <4>1. T \ {n + 1} \in A /\ T = (T \ {n + 1}) \cup {n + 1}
                BY <3>1
            <4> QED
                BY <4>1
        <3>2. CASE n + 1 \notin T
            BY <3>2
        <3> QED
            BY <3>1, <3>2
    <2>2. 1..n \subseteq 1..(n + 1) /\ n + 1 \in 1..(n + 1)
        OBVIOUS
    <2>3. ASSUME NEW T \in A \cup B PROVE T \in SUBSET (1..(n + 1))
        BY <2>2
    <2> QED
        BY <2>1, <2>3
<1>7. Cardinality(A \cup B) = Cardinality(A) + Cardinality(B) - Cardinality(A \cap B)
    BY <1>1, <1>4, FS_Union
<1>8. Cardinality(A \cap B) = 0
    BY <1>5, FS_EmptySet
<1> HIDE DEF A, B
<1>9. Cardinality(A \cup B) = 2 * Cardinality(A)
    <2>1. Cardinality(B) = Cardinality(A)
        BY <1>1, <1>4
    <2> QED
        BY <2>1, <1>1, <1>7, <1>8
<1>10. Cardinality(A \cup B) = 2^(n + 1)
    BY <1>2, <1>6
<1> QED
    BY <1>1, <1>9, <1>10

LEMMA FirstDelay == InitialDelay = Lesser(InitialDelay * 2^0, MaxDelay)
    BY OneDoubling, DelayAssumption DEF Lesser

\* Doubling the capped delay and capping again is capping the doubled one.
LEMMA NextDelay ==
    ASSUME NEW n \in Nat
    PROVE  Lesser(2 * Lesser(InitialDelay * 2^n, MaxDelay), MaxDelay)
             = Lesser(InitialDelay * 2^(n + 1), MaxDelay)
<1>1. \A p \in Nat : InitialDelay * (2 * p) = 2 * (InitialDelay * p) /\ InitialDelay * p \in Nat
    BY DelayAssumption
<1>2. \A x \in Nat : Lesser(2 * Lesser(x, MaxDelay), MaxDelay) = Lesser(2 * x, MaxDelay)
    BY DelayAssumption DEF Lesser
<1>3. 2^n \in Nat /\ 2^(n + 1) = 2 * 2^n
    BY Doubling
<1> QED
    BY <1>1, <1>2, <1>3

LEMMA BackoffStep == TypeOK /\ BackoffInv /\ [Next]_vars => BackoffInv'
<1> SUFFICES ASSUME TypeOK, BackoffInv, [Next]_vars PROVE BackoffInv'
    OBVIOUS
<1> USE DelayAssumption, BoundAssumption
<1> USE DEF taskVars, cycleVars, storeVars, cutVars, Busy, Alive, Ended, Aborted, Gone, InCycle, Awaiting, TypeOK, BackoffInv
<1>1. CASE Launch
    BY <1>1, OneDoubling, FirstDelay DEF Launch, Lesser
<1>2. CASE BeginCycle
    BY <1>2 DEF BeginCycle, StartRuntimeSession
<1>3. CASE LeaveLoop
    BY <1>3 DEF LeaveLoop
<1>4. CASE StartupFails
    BY <1>4 DEF StartupFails
<1>5. CASE CreateTasks
    BY <1>5 DEF CreateTasks, PersistRuntimeSnapshot, UpdateRuntimeStatus
<1>6. CASE HandleEvent
    BY <1>6 DEF HandleEvent, Step
<1>7. CASE PumpDies
    BY <1>7 DEF PumpDies, Step
<1>8. CASE RunnerExits
    BY <1>8 DEF RunnerExits, Step, Finish
<1>9. CASE RunnerFails
    BY <1>9 DEF RunnerFails, Step, Finish
<1>10. CASE HeartbeatLoop
    BY <1>10 DEF HeartbeatLoop, Step, PersistRuntimeSnapshot, UpdateRuntimeStatus
<1>11. CASE ReconcileLoop
    BY <1>11 DEF ReconcileLoop, Step, PersistRuntimeSnapshot, UpdateRuntimeStatus
<1>12. CASE LoopFails
    BY <1>12 DEF LoopFails, Step, Finish
<1>13. CASE StopWakes
    BY <1>13 DEF StopWakes, Step, Finish
<1>14. CASE CycleRaises
    BY <1>14 DEF CycleRaises, Cleared
<1>15. CASE CycleStops
    BY <1>15 DEF CycleStops, Cleared, PersistRuntimeSnapshot, UpdateRuntimeStatus
<1>16. CASE StrategyExits
    BY <1>16 DEF StrategyExits, Cleared, PersistRuntimeSnapshot, UpdateRuntimeStatus
<1>17. CASE CloseSession
    BY <1>17 DEF CloseSession, StopRuntimeSession
<1>18. CASE RecordFailure
    BY <1>18 DEF RecordFailure, UpdateRuntimeStatus
<1>19. CASE CloseFailedSession
    BY <1>19 DEF CloseFailedSession, StopRuntimeSession
<1>20. CASE TransitionToRestart
    BY <1>20 DEF TransitionToRestart, UpdateRuntimeStatus
<1>21. CASE WakeUp
    <2>1. /\ delay = Lesser(InitialDelay * 2^restarts, MaxDelay)
          /\ delay' = Lesser(2 * delay, MaxDelay)
          /\ restarts' = restarts + 1 /\ restarts \in Nat /\ pc' = "top"
        BY <1>21 DEF WakeUp
    <2> QED
        BY <2>1, NextDelay
<1>22. CASE RequestStop
    BY <1>22 DEF RequestStop
<1>23. CASE Crash
    BY <1>23 DEF Crash, Cleared, Interrupted
<1>24. CASE Cancel
    BY <1>24 DEF Cancel, Cleared, Interrupted
<1>25. CASE LoopRaises
    BY <1>25 DEF LoopRaises, Interrupted
<1>26. CASE Tick
    BY <1>26 DEF Tick
<1>27. CASE UNCHANGED vars
    BY <1>27 DEF vars
<1> QED
    BY <1>1, <1>2, <1>3, <1>4, <1>5, <1>6, <1>7, <1>8, <1>9, <1>10, <1>11, <1>12, <1>13,
       <1>14, <1>15, <1>16, <1>17, <1>18, <1>19, <1>20, <1>21, <1>22, <1>23, <1>24, <1>25,
       <1>26, <1>27 DEF Next, Loop, Running

\* "supervised restarts with bounded backoff" (README): whatever ends the cycles, the
\* n-th restart of a process waits InitialDelay * 2^n, at most MaxDelay.
THEOREM BackoffAlwaysBounded == Spec => []BoundedBackoff
<1>1. Init => BackoffInv
    BY FirstDelay DEF Init, BackoffInv
<1>2. Spec => []BackoffInv
    BY <1>1, TypeCorrect, BackoffStep, PTL DEF Spec
<1>3. BackoffInv => BoundedBackoff
    BY DEF BackoffInv, BoundedBackoff
<1> QED
    BY <1>2, <1>3, PTL

-----------------------------------------------------------------------------
(* The status file                                                          *)

LEMMA FileStep == TypeOK /\ FileInv /\ [Next]_vars => FileInv'
<1> SUFFICES ASSUME TypeOK, FileInv, [Next]_vars PROVE FileInv'
    OBVIOUS
<1> USE BoundAssumption
<1> USE DEF taskVars, cycleVars, storeVars, cutVars, Busy, Alive, Ended, Aborted, Gone, InCycle, Awaiting, TypeOK, FileInv
<1>1. CASE Launch
    BY <1>1 DEF Launch
<1>2. CASE BeginCycle
    BY <1>2 DEF BeginCycle, StartRuntimeSession
<1>3. CASE LeaveLoop
    BY <1>3 DEF LeaveLoop
<1>4. CASE StartupFails
    BY <1>4 DEF StartupFails
<1>5. CASE CreateTasks
    BY <1>5 DEF CreateTasks, PersistRuntimeSnapshot, UpdateRuntimeStatus
<1>6. CASE HandleEvent
    BY <1>6 DEF HandleEvent, Step
<1>7. CASE PumpDies
    BY <1>7 DEF PumpDies, Step
<1>8. CASE RunnerExits
    BY <1>8 DEF RunnerExits, Step, Finish
<1>9. CASE RunnerFails
    BY <1>9 DEF RunnerFails, Step, Finish
<1>10. CASE HeartbeatLoop
    BY <1>10 DEF HeartbeatLoop, Step, PersistRuntimeSnapshot, UpdateRuntimeStatus
<1>11. CASE ReconcileLoop
    BY <1>11 DEF ReconcileLoop, Step, PersistRuntimeSnapshot, UpdateRuntimeStatus
<1>12. CASE LoopFails
    BY <1>12 DEF LoopFails, Step, Finish
<1>13. CASE StopWakes
    BY <1>13 DEF StopWakes, Step, Finish
<1>14. CASE CycleRaises
    BY <1>14 DEF CycleRaises, Cleared
<1>15. CASE CycleStops
    BY <1>15 DEF CycleStops, Cleared, PersistRuntimeSnapshot, UpdateRuntimeStatus
<1>16. CASE StrategyExits
    BY <1>16 DEF StrategyExits, Cleared, PersistRuntimeSnapshot, UpdateRuntimeStatus
<1>17. CASE CloseSession
    BY <1>17 DEF CloseSession, StopRuntimeSession
<1>18. CASE RecordFailure
    BY <1>18 DEF RecordFailure, UpdateRuntimeStatus
<1>19. CASE CloseFailedSession
    BY <1>19 DEF CloseFailedSession, StopRuntimeSession
<1>20. CASE TransitionToRestart
    BY <1>20 DEF TransitionToRestart, UpdateRuntimeStatus
<1>21. CASE WakeUp
    BY <1>21 DEF WakeUp
<1>22. CASE RequestStop
    BY <1>22 DEF RequestStop
<1>23. CASE Crash
    BY <1>23 DEF Crash, Cleared, Interrupted
<1>24. CASE Cancel
    BY <1>24 DEF Cancel, Cleared, Interrupted
<1>25. CASE LoopRaises
    BY <1>25 DEF LoopRaises, Interrupted
<1>26. CASE Tick
    BY <1>26 DEF Tick
<1>27. CASE UNCHANGED vars
    BY <1>27 DEF vars
<1> QED
    BY <1>1, <1>2, <1>3, <1>4, <1>5, <1>6, <1>7, <1>8, <1>9, <1>10, <1>11, <1>12, <1>13,
       <1>14, <1>15, <1>16, <1>17, <1>18, <1>19, <1>20, <1>21, <1>22, <1>23, <1>24, <1>25,
       <1>26, <1>27 DEF Next, Loop, Running

\* The row and the file are two writes.  Who reads the file while the strategy runs, in
\* a backoff or after run() has ended by itself sees the status of the database, also in
\* a process that follows a killed or cancelled one; during startup it can be wrong by
\* saying RUNNING only after such a one.
THEOREM FileAlwaysMirrors == Spec => []FileMirrorsRow
<1>1. Init => FileInv
    BY DEF Init, FileInv
<1>2. Spec => []FileInv
    BY <1>1, TypeCorrect, FileStep, PTL DEF Spec
<1>3. FileInv => FileMirrorsRow
    BY DEF FileInv, FileMirrorsRow, Gone
<1> QED
    BY <1>2, <1>3, PTL
=============================================================================

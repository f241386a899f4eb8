---------------------------- MODULE StrategyDaemon ----------------------------
(***************************************************************************)
(* One supervised strategy: StrategyDaemon.run and _run_once (daemon.py),  *)
(* the tasks they start, and the runtime_sessions / runtime_status rows of *)
(* state.py in which a run is reported.  The daemon starts a session,      *)
(* restores and reconciles, runs the strategy next to a heartbeat and a    *)
(* reconcile loop, and when one of the tasks ends records the outcome and  *)
(* stops, raises, or backs off and starts the next cycle.                  *)
(*                                                                         *)
(* The code between two awaits is one event-loop step, but every database  *)
(* transaction is an action of its own: the process may be killed between  *)
(* two of them and be launched again by Docker or the operator.  As a      *)
(* member of a stack its task can also be cancelled in any of its awaits.   *)
(* Time passes only in awaits.  A tick is any fixed number of seconds.     *)
(***************************************************************************)
EXTENDS Integers

CONSTANTS
    AutoRestart, StopOnExit,    \* DaemonSettings.auto_restart, stop_on_strategy_exit
    Reconciling,                \* credentials are present: startup and periodic reconcile
    InitialDelay, MaxDelay,     \* restart_initial_delay, restart_max_delay
    Beat, Stale,                \* heartbeat_interval, stale_after
    MaxAwait,                   \* bound: ticks the startup reconcile may take
    MaxRuns,                    \* bound: sessions in a behaviour; what fails leaves room for one more
    MaxCrashes,                 \* bound: killed processes in a behaviour
    MaxMem                      \* bound: what the strategy can have learnt

ASSUME SwitchAssumption ==
    AutoRestart \in BOOLEAN /\ StopOnExit \in BOOLEAN /\ Reconciling \in BOOLEAN
ASSUME DelayAssumption ==
    /\ InitialDelay \in Nat \ {0} /\ MaxDelay \in Nat /\ InitialDelay <= MaxDelay
    /\ Beat \in Nat \ {0} /\ Stale \in Nat \ {0}
ASSUME BoundAssumption ==
    MaxAwait \in Nat /\ MaxRuns \in Nat /\ MaxCrashes \in Nat /\ MaxMem \in Nat

NoState == -1   \* NULL in ctx_state_json / strategy_state_json
Memory == 0..MaxMem
Statuses == {"NONE", "STARTING", "RUNNING", "RESTARTING", "FAILED", "STOPPED"}

VARIABLES
    pc,         \* where run() stands
    stopEvent,  \* stop_event.is_set()
    task,       \* the tasks _run_once waits for
    pump,       \* the pump tasks that feed the runner's queue
    mem,        \* what the strategy and ctx.state know
    restartable,\* of the result _run_once returned
    restarts,   \* restart_count
    delay,      \* restart_delay
    timer,      \* ticks left in the await at hand
    runs,       \* sessions started so far; the run_id of the newest
    session,    \* runtime_sessions
    row,        \* the runtime_status row of the service
    file,       \* status in RUNTIME_DIR/<service-name>.json
    age,        \* ticks since row.last_heartbeat_at, counted to Stale + 1
    kept,       \* history: the last strategy state written to the row
    cut,        \* history: the sessions an interruption came into
    crashes

vars == <<pc, stopEvent, task, pump, mem, restartable, restarts, delay, timer,
          runs, session, row, file, age, kept, cut, crashes>>

cycleVars == <<restarts, delay>>
storeVars == <<runs, session, row, age, kept>>
taskVars  == <<task, pump>>
cutVars   == <<cut, crashes>>

Tasks == {"runner", "heartbeat", "reconcile", "stop"}
NoTasks == [t \in Tasks |-> "none"]

Alive == {"top", "starting", "running", "closing", "failing", "failed", "retry", "backoff"}
Ended == {"returned", "raised"}                 \* run() came to an end of its own
Aborted == {"down", "cancelled", "broken"}      \* killed, cancelled, a write of run() itself raised
Gone == Ended \cup Aborted
InCycle == {"starting", "running", "closing", "failing", "failed"}
Awaiting == {"starting", "running", "backoff"}

TypeOK ==
    /\ pc \in Alive \cup Gone
    /\ stopEvent \in BOOLEAN /\ restartable \in BOOLEAN
    /\ task \in [Tasks -> {"none", "pending", "done", "failed"}]
    /\ pump \in {"none", "alive", "dead"}
    /\ mem \in Memory
    /\ restarts \in Nat /\ delay \in Nat /\ timer \in Nat
    /\ runs \in 0..MaxRuns
    /\ session \in [1..MaxRuns -> [status : Statuses, stopped : BOOLEAN]]
    /\ row \in [run : 0..MaxRuns, status : Statuses, saved : Memory \cup {NoState}]
    /\ file \in Statuses
    /\ age \in 0..(Stale + 1)
    /\ kept \in Memory
    /\ cut \subseteq 0..MaxRuns
    /\ crashes \in 0..MaxCrashes

Init ==
    /\ pc = "down" /\ stopEvent = FALSE /\ restartable = FALSE
    /\ task = NoTasks /\ pump = "none" /\ mem = 0
    /\ restarts = 0 /\ delay = InitialDelay /\ timer = 0
    /\ runs = 0 /\ session = [r \in 1..MaxRuns |-> [status |-> "NONE", stopped |-> FALSE]]
    /\ row = [run |-> 0, status |-> "NONE", saved |-> NoState]
    /\ file = "NONE" /\ age = 0 /\ kept = 0 /\ cut = {} /\ crashes = 0

Lesser(a, b) == IF a <= b THEN a ELSE b

-----------------------------------------------------------------------------
(* Transactions of SQLiteStateStore                                         *)

StartRuntimeSession ==
    /\ runs' = runs + 1
    /\ session' = [session EXCEPT ![runs + 1] = [status |-> "STARTING", stopped |-> FALSE]]
    /\ row' = [run |-> runs + 1, status |-> "STARTING", saved |-> NoState]
    /\ age' = 0
    /\ UNCHANGED kept

\* saved is NULL wherever the caller passes no ctx_state and strategy_state.
UpdateRuntimeStatus_RowOnly(status, saved) ==   \* mutated: the session is forgotten
    /\ row' = [run |-> runs, status |-> status, saved |-> saved]
    /\ age' = 0
    /\ kept' = IF saved = NoState THEN kept ELSE saved
    /\ UNCHANGED <<runs, session>>
UpdateRuntimeStatus(status, saved) ==
    /\ session' = [session EXCEPT ![runs].status = status]
    /\ row' = [run |-> runs, status |-> status, saved |-> saved]
    /\ age' = 0
    /\ kept' = IF saved = NoState THEN kept ELSE saved
    /\ UNCHANGED runs

StopRuntimeSession(status) ==
    /\ session' = [session EXCEPT ![runs] = [status |-> status, stopped |-> TRUE]]
    /\ row' = IF row.run = runs THEN [row EXCEPT !.status = status] ELSE row
    /\ age' = 0
    /\ UNCHANGED <<runs, kept>>

\* _persist_runtime_snapshot: the row with the state of the strategy, then the file.
PersistRuntimeSnapshot_NoBeat(status) ==    \* mutated: last_heartbeat_at left alone
    /\ session' = [session EXCEPT ![runs].status = status]
    /\ row' = [run |-> runs, status |-> status, saved |-> mem]
    /\ kept' = mem
    /\ file' = status
    /\ UNCHANGED <<runs, age>>
PersistRuntimeSnapshot(status) ==
    /\ UpdateRuntimeStatus(status, mem)
    /\ file' = status

-----------------------------------------------------------------------------
(* run(): the head of the loop and the startup of a cycle                   *)

Launch ==
    /\ pc \in Gone /\ runs < MaxRuns
    /\ pc' = "top"
    /\ stopEvent' = FALSE /\ mem' = 0 /\ restarts' = 0 /\ delay' = InitialDelay
    /\ UNCHANGED <<taskVars, restartable, timer, storeVars, file, cutVars>>

\* The snapshot is read back from the row the new session has just replaced.
BeginCycle ==
    /\ pc = "top" /\ ~stopEvent /\ runs < MaxRuns
    /\ StartRuntimeSession
    /\ mem' = IF row'.saved = NoState THEN 0 ELSE row'.saved
    /\ timer' \in IF Reconciling THEN 0..MaxAwait ELSE {0}
    /\ pc' = "starting"
    /\ UNCHANGED <<stopEvent, taskVars, restartable, cycleVars, file, cutVars>>

\* request_stop came before the cycle, in the backoff: nothing is recorded.
LeaveLoop ==
    /\ pc = "top" /\ stopEvent
    /\ pc' = "returned"
    /\ UNCHANGED <<stopEvent, taskVars, mem, restartable, cycleVars, timer, storeVars,
                   file, cutVars>>

\* Loading the strategy, the restore or the startup reconcile raises.
StartupFails ==
    /\ pc = "starting" /\ runs < MaxRuns
    /\ pc' = "failing" /\ timer' = 0
    /\ UNCHANGED <<stopEvent, taskVars, mem, restartable, cycleVars, storeVars, file, cutVars>>

CreateTasks ==
    /\ pc = "starting" /\ timer = 0
    /\ PersistRuntimeSnapshot("RUNNING")
    /\ task' = [t \in Tasks |-> IF t = "reconcile" /\ ~Reconciling THEN "none" ELSE "pending"]
    /\ pump' = "alive"
    /\ timer' = Beat
    /\ pc' = "running"
    /\ UNCHANGED <<stopEvent, mem, restartable, cycleVars, cutVars>>

-----------------------------------------------------------------------------
(* The tasks of a running cycle.  They go on until the wait has woken up:   *)
(* several may have ended by then.                                          *)

Busy == <<pc, stopEvent, restartable, cycleVars, cutVars>>
Step(t) == pc = "running" /\ task[t] = "pending"
Finish(t, how) == task' = [task EXCEPT ![t] = how]

\* The runner handles an event of its queue.
HandleEvent ==
    /\ Step("runner") /\ mem < MaxMem
    /\ mem' = mem + 1
    /\ UNCHANGED <<Busy, taskVars, timer, storeVars, file>>

\* A pump raises (a stream that cannot be opened again): nobody awaits it.
PumpDies ==
    /\ Step("runner") /\ pump = "alive"
    /\ pump' = "dead"
    /\ UNCHANGED <<Busy, task, mem, timer, storeVars, file>>

\* StopStrategy: run()'s finally awaits the pumps and passes on their exception.
RunnerExits ==
    /\ Step("runner") /\ runs < MaxRuns
    /\ Finish("runner", IF pump = "dead" THEN "failed" ELSE "done")
    /\ UNCHANGED <<Busy, pump, mem, timer, storeVars, file>>

\* The strategy or submit_order raises (a rejected order does).
RunnerFails ==
    /\ Step("runner") /\ runs < MaxRuns
    /\ Finish("runner", "failed")
    /\ UNCHANGED <<Busy, pump, mem, timer, storeVars, file>>

HeartbeatLoop ==
    /\ Step("heartbeat") /\ timer = 0
    /\ PersistRuntimeSnapshot("RUNNING")
    /\ timer' = Beat
    /\ UNCHANGED <<Busy, taskVars, mem>>

ReconcileLoop ==
    /\ Step("reconcile")
    /\ PersistRuntimeSnapshot("RUNNING")
    /\ UNCHANGED <<Busy, taskVars, mem, timer>>

\* snapshot_state() raises, the database is locked for too long, a request fails.
LoopFails ==
    /\ runs < MaxRuns
    /\ \/ Step("heartbeat") /\ timer = 0 /\ Finish("heartbeat", "failed")
       \/ Step("reconcile") /\ Finish("reconcile", "failed")
    /\ UNCHANGED <<Busy, pump, mem, timer, storeVars, file>>

StopWakes ==
    /\ Step("stop") /\ stopEvent
    /\ Finish("stop", "done")
    /\ UNCHANGED <<Busy, pump, mem, timer, storeVars, file>>

-----------------------------------------------------------------------------
(* asyncio.wait(FIRST_COMPLETED) returns: what is pending is cancelled and  *)
(* awaited, then the first ended task in the order of the code decides.     *)

SomeEnded == \E t \in Tasks : task[t] \in {"done", "failed"}

\* Only CancelledError is suppressed: a cancelled runner with a dead pump raises.
CancelRaises == task["runner"] = "pending" /\ pump = "dead"

Cleared ==
    /\ task' = NoTasks /\ pump' = "none" /\ timer' = 0

CycleRaises ==
    /\ pc = "running" /\ SomeEnded
    /\ \/ CancelRaises
       \/ task["stop"] # "done" /\ \E t \in Tasks : task[t] = "failed"
    /\ Cleared
    /\ pc' = "failing"
    /\ UNCHANGED <<stopEvent, mem, restartable, cycleVars, storeVars, file, cutVars>>

CycleStops ==
    /\ pc = "running" /\ ~CancelRaises
    /\ task["stop"] = "done"
    /\ PersistRuntimeSnapshot("STOPPED")
    /\ Cleared
    /\ restartable' = FALSE
    /\ pc' = "closing"
    /\ UNCHANGED <<stopEvent, mem, cycleVars, cutVars>>

StrategyExits ==
    /\ pc = "running" /\ task["stop"] # "done"
    /\ task["runner"] = "done"
    /\ \A t \in {"heartbeat", "reconcile"} : task[t] # "failed"
    /\ PersistRuntimeSnapshot("STOPPED")
    /\ Cleared
    /\ restartable' = TRUE
    /\ pc' = "closing"
    /\ UNCHANGED <<stopEvent, mem, cycleVars, cutVars>>

-----------------------------------------------------------------------------
(* run(): the tail of the loop                                              *)

CloseSession ==
    /\ pc = "closing"
    /\ StopRuntimeSession("STOPPED")
    /\ pc' = IF restartable /\ AutoRestart /\ ~StopOnExit THEN "retry" ELSE "returned"
    /\ UNCHANGED <<stopEvent, taskVars, mem, restartable, cycleVars, timer, file, cutVars>>

RecordFailure ==
    /\ pc = "failing"
    /\ UpdateRuntimeStatus("FAILED", NoState)
    /\ pc' = "failed"
    /\ UNCHANGED <<stopEvent, taskVars, mem, restartable, cycleVars, timer, file, cutVars>>

CloseFailedSession_Quiet ==     \* mutated: raises before it closes the session
    /\ pc = "failed"
    /\ file' = "FAILED"
    /\ pc' = IF AutoRestart /\ ~stopEvent THEN "retry" ELSE "raised"
    /\ UNCHANGED <<stopEvent, taskVars, mem, restartable, cycleVars, timer, storeVars, cutVars>>
CloseFailedSession_Raises ==    \* mutated: a failure is never retried
    /\ pc = "failed"
    /\ StopRuntimeSession("FAILED")
    /\ file' = "FAILED"
    /\ pc' = "raised"
    /\ UNCHANGED <<stopEvent, taskVars, mem, restartable, cycleVars, timer, cutVars>>
CloseFailedSession ==
    /\ pc = "failed"
    /\ StopRuntimeSession("FAILED")
    /\ file' = "FAILED"
    /\ pc' = IF AutoRestart /\ ~stopEvent THEN "retry" ELSE "raised"
    /\ UNCHANGED <<stopEvent, taskVars, mem, restartable, cycleVars, timer, cutVars>>

TransitionToRestart_NoFile ==   \* mutated: the status file is not written
    /\ pc = "retry"
    /\ UpdateRuntimeStatus("RESTARTING", NoState)
    /\ timer' = delay
    /\ pc' = "backoff"
    /\ UNCHANGED <<stopEvent, taskVars, mem, restartable, cycleVars, file, cutVars>>
TransitionToRestart ==
    /\ pc = "retry"
    /\ UpdateRuntimeStatus("RESTARTING", NoState)
    /\ file' = "RESTARTING"
    /\ timer' = delay
    /\ pc' = "backoff"
    /\ UNCHANGED <<stopEvent, taskVars, mem, restartable, cycleVars, cutVars>>

WakeUp_Uncapped ==      \* mutated: the backoff grows without bound
    /\ pc = "backoff" /\ timer = 0
    /\ restarts' = restarts + 1
    /\ delay' = 2 * delay
    /\ pc' = "top"
    /\ UNCHANGED <<stopEvent, taskVars, mem, restartable, timer, storeVars, file, cutVars>>
WakeUp_Forever ==       \* mutated: the loop does not look at stop_event
    /\ pc = "backoff" /\ timer = 0 /\ ~stopEvent
    /\ restarts' = restarts + 1
    /\ delay' = Lesser(2 * delay, MaxDelay)
    /\ pc' = "top"
    /\ UNCHANGED <<stopEvent, taskVars, mem, restartable, timer, storeVars, file, cutVars>>
WakeUp ==
    /\ pc = "backoff" /\ timer = 0
    /\ restarts' = restarts + 1
    /\ delay' = Lesser(2 * delay, MaxDelay)
    /\ pc' = "top"
    /\ UNCHANGED <<stopEvent, taskVars, mem, restartable, timer, storeVars, file, cutVars>>

-----------------------------------------------------------------------------
(* The environment                                                          *)

\* SIGINT, SIGTERM or the stack: handlers run in the event loop only.
RequestStop ==
    /\ pc \in Awaiting \cup {"top"} /\ ~stopEvent
    /\ stopEvent' = TRUE
    /\ UNCHANGED <<pc, taskVars, mem, restartable, cycleVars, timer, storeVars, file, cutVars>>

Interrupted(cycle) == cut' = IF pc \in cycle THEN cut \cup {runs} ELSE cut

Crash ==
    /\ pc \in Alive /\ crashes < MaxCrashes
    /\ crashes' = crashes + 1
    /\ Interrupted(InCycle \cup {"retry"})
    /\ pc' = "down" /\ Cleared
    /\ UNCHANGED <<stopEvent, mem, restartable, cycleVars, storeVars, file>>

\* The stack cancels a member that is slow to stop, and asyncio.run what is left when
\* the stack raises.  CancelledError comes out of the await at hand, also out of the
\* closing of the service that a cycle ends with, and run() passes it on unrecorded.
Cancel ==
    /\ pc \in {"starting", "running", "closing", "failing", "backoff"}
    /\ Interrupted(InCycle)
    /\ pc' = "cancelled" /\ Cleared
    /\ UNCHANGED <<stopEvent, mem, restartable, cycleVars, storeVars, file, crashes>>

\* A write that run() makes outside its try raises: a locked database, a full disk.
LoopRaises ==
    /\ pc \in {"top", "closing", "failing", "failed", "retry"}
    /\ Interrupted(InCycle \cup {"retry"})
    /\ pc' = "broken"
    /\ UNCHANGED <<stopEvent, taskVars, mem, restartable, cycleVars, timer, storeVars, file,
                   crashes>>

\* No tick overtakes a due timer or a wait that has something to return.
Tick ==
    /\ \/ pc \in Awaiting /\ timer > 0 /\ ~SomeEnded /\ timer' = timer - 1
       \/ pc \in Gone /\ age <= Stale /\ timer' = timer
    /\ age' = Lesser(age + 1, Stale + 1)
    /\ UNCHANGED <<pc, stopEvent, taskVars, mem, restartable, cycleVars, runs, session,
                   row, file, kept, cutVars>>

Loop ==
    \/ BeginCycle \/ LeaveLoop \/ CreateTasks
    \/ CycleRaises \/ CycleStops \/ StrategyExits
    \/ CloseSession \/ RecordFailure \/ CloseFailedSession \/ TransitionToRestart \/ WakeUp

Running ==
    \/ HandleEvent \/ PumpDies \/ RunnerExits \/ RunnerFails
    \/ HeartbeatLoop \/ ReconcileLoop \/ LoopFails \/ StopWakes

Next == Loop \/ Running \/ StartupFails \/ Launch \/ RequestStop \/ Crash \/ Cancel \/ LoopRaises \/ Tick

Spec == Init /\ [][Next]_vars

(***************************************************************************)
(* The event loop runs what is ready, sleeps end, and the startup reconcile *)
(* is made of HTTP requests with a timeout.  No event, failure, signal or   *)
(* launch has to happen.                                                    *)
(***************************************************************************)
FairSpec == Spec /\ WF_vars(Loop) /\ WF_vars(StopWakes) /\ WF_vars(HeartbeatLoop) /\ WF_vars(Tick)

-----------------------------------------------------------------------------
(* Properties                                                               *)

\* is_runtime_status_healthy
Healthy == row.status \in {"STARTING", "RUNNING", "RESTARTING"} /\ age <= Stale

\* The two tables tell one story: runtime_status names the newest session and
\* both give it the same status, whatever transaction a crash came after.
TablesAgree ==
    /\ row.run = runs
    /\ runs > 0 => session[runs].status = row.status

\* Whatever ends a cycle, its session is closed before run() goes on, returns or raises,
\* and so before the next one starts.  One is left open for ever only by a kill, by the
\* stack's cancelling it, or by a write of the closing itself that raised.
SessionsClosed ==
    /\ \A r \in 1..(runs - 1) : session[r].stopped \/ r \in cut
    /\ pc \notin InCycle /\ runs > 0 => session[runs].stopped \/ runs \in cut

\* While the daemon lives and awaits something its row is healthy, through
\* startup, heartbeats and backoff: none of the awaits outlasts stale_after.
\* The settings are only checked to be positive; this needs them ordered.
AliveIsHealthy ==
    (Beat <= Stale /\ MaxDelay <= Stale /\ MaxAwait <= Stale)
        => (pc \in Awaiting => Healthy)

\* "supervised restarts with bounded backoff": the n-th restart of a process
\* waits min(initial * 2^n, max).
BoundedBackoff ==
    pc = "backoff" => /\ delay = Lesser(InitialDelay * 2^restarts, MaxDelay)
                      /\ timer <= delay

\* The heartbeat file and the row are written separately.  A reader finds them equal
\* while the strategy runs, in a backoff, and after run() has ended.  Not during startup:
\* the session is STARTING and the file as the last one left it; it says RUNNING there
\* only after a session that was interrupted.
FileMirrorsRow ==
    /\ pc \in {"running", "backoff"} => file = row.status
    /\ pc \in Ended /\ runs > 0 /\ runs \notin cut => file = row.status
    /\ pc = "starting" /\ file = "RUNNING" => (runs - 1) \in cut

\* A stop request ends the process, whatever it was doing and whatever fails on
\* the way, also in a backoff or while the strategy keeps trading.
StopHonoured == stopEvent ~> pc \in Gone

\* With auto_restart each failed cycle, the first or a later one, is followed by a next
\* attempt, unless a stop is requested or the process is killed, cancelled or cannot
\* write.  The next may fail in turn: nothing says that a strategy ever runs again.
FailureRestarts ==
    AutoRestart =>
        \A r \in 1..MaxRuns :
            (pc = "failing" /\ runs = r)
                ~> ((pc = "starting" /\ runs = r + 1) \/ stopEvent \/ pc \in Aborted)

\* "state_restored": a cycle begins with the state the last one saved.
StateSurvivesRestart == [][pc = "top" /\ pc' = "starting" => mem' = kept]_vars

\* Supervision covers the streams: a strategy that no longer gets events is
\* restarted.
PumpFailureRestarts == pump = "dead" ~> pump # "dead"

-----------------------------------------------------------------------------
(* The inductive invariant behind AliveIsHealthy: the age of the heartbeat  *)
(* and what is left of the await never exceed the await's length.           *)

TimingInv ==
    /\ delay \in 1..MaxDelay
    /\ pc = "starting" => /\ row.status = "STARTING" /\ age + timer <= MaxAwait
    /\ pc = "running" => /\ row.status = "RUNNING" /\ age + timer <= Beat
    /\ pc = "backoff" => /\ row.status = "RESTARTING" /\ age + timer <= MaxDelay

\* A session the loop has finished with is closed, unless an interruption came into it.
CloseInv ==
    /\ pc \in InCycle \cup {"retry", "backoff"} => runs > 0
    /\ SessionsClosed

\* The delay is the closed form of the doublings so far, whatever the path to them.
BackoffInv ==
    /\ delay = Lesser(InitialDelay * 2^restarts, MaxDelay)
    /\ pc = "backoff" => timer <= delay

\* Where the file is written after the row, and where the row is written first.  What
\* a cycle leaves in the file is never RUNNING.
FileInv ==
    /\ pc = "closing" => file = "STOPPED"
    /\ pc = "failed" => row.status = "FAILED"
    /\ pc \in {"running", "closing", "retry", "backoff"} => file = row.status
    /\ pc \in {"retry", "backoff"} => file # "RUNNING"
    /\ pc \in Gone \cup {"top"} /\ runs \notin cut => file = row.status /\ file # "RUNNING"
    /\ pc = "starting" /\ file = "RUNNING" => (runs - 1) \in cut

DaemonInv == TimingInv /\ CloseInv /\ BackoffInv /\ FileInv
=============================================================================

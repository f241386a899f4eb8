------------------------------ MODULE DaemonStack ------------------------------
(***************************************************************************)
(* StrategyDaemonStack (daemon.py): one process that runs a StrategyDaemon *)
(* per profile as an asyncio task, watches them next to its own heartbeat, *)
(* and reports the whole in runtime_stack_sessions / runtime_stack_status. *)
(* A member is seen from outside, as StrategyDaemon shows itself: the      *)
(* status of its runtime_status row and how its task ended.                *)
(***************************************************************************)
EXTENDS Naturals, FiniteSets

CONSTANTS
    Members,        \* profile names
    Settings,       \* stop_on_member_exit and _failure: the sets of switches in use
    Beat, Stale,    \* heartbeat_interval, stale_after
    Grace           \* the 5 seconds of _stop_member_tasks

ASSUME MembersAssumption == IsFiniteSet(Members) /\ Members # {}
ASSUME SettingsAssumption == Settings \subseteq SUBSET {"exit", "failure"}
ASSUME TimeAssumption == Beat \in Nat \ {0} /\ Stale \in Nat /\ Grace \in Nat

VARIABLES
    stopOn,     \* RuntimeStackSettings: what makes the stack stop its members
    pc,         \* where run() stands
    why,        \* what made it stop the members
    stopEvent,  \* stop_event of the stack
    stopping,   \* stop_event of the daemons: request_stop has been called on all
    tasks,      \* the keys of the dict "tasks": members not yet taken out
    completed,  \* completed_members still to be looked at
    task,       \* the task of a member
    row,        \* runtime_status.status of a member
    heartbeat,  \* the stack's heartbeat task
    session,    \* runtime_stack_sessions
    stackRow,   \* runtime_stack_status: status and healthy_profile_count
    age,        \* ticks since stackRow was written, counted to Stale + 1
    timer,      \* ticks to the next heartbeat
    grace,      \* ticks left in _stop_member_tasks
    downFor     \* ticks since a member's row became terminal, counted likewise

vars == <<stopOn, pc, why, stopEvent, stopping, tasks, completed, task, row, heartbeat,
          session, stackRow, age, timer, grace, downFor>>
memberVars == <<task, row>>
reportVars == <<session, stackRow, age>>

Ended == {"returned", "raised"}
Over  == {"done", "failed", "cancelled"}
Shown == {"NONE", "STARTING", "RUNNING", "RESTARTING", "FAILED", "STOPPED"}
HealthyStatus == {"STARTING", "RUNNING", "RESTARTING"}
Horizon == Stale + Beat + 1

TypeOK ==
    /\ pc \in {"waiting", "noting", "grace"} \cup Ended
    /\ stopOn \in Settings
    /\ why \in {"none", "shutdown", "exit", "failure"}
    /\ stopEvent \in BOOLEAN /\ stopping \in BOOLEAN
    /\ tasks \subseteq Members /\ completed \subseteq tasks
    /\ task \in [Members -> {"running"} \cup Over]
    /\ row \in [Members -> Shown]
    /\ heartbeat \in {"running", "failed"}
    /\ session \in [status : {"RUNNING", "FAILED", "STOPPED"}, stopped : BOOLEAN]
    /\ stackRow \in [status : {"RUNNING", "FAILED", "STOPPED"},
                     healthy : 0..Cardinality(Members)]
    /\ age \in 0..(Stale + 1) /\ timer \in 0..Beat /\ grace \in 0..Grace
    /\ downFor \in [Members -> 0..Horizon]

-----------------------------------------------------------------------------
(* The report: counting the healthy members and writing session and row     *)

HealthyCount_Failed ==      \* mutated: only a stopped member is unhealthy
    Cardinality({m \in Members : row[m] \notin {"NONE", "STOPPED"}})
HealthyCount == Cardinality({m \in Members : row[m] \in HealthyStatus})

PersistStackStatus(status) ==
    /\ session' = [session EXCEPT !.status = status]
    /\ stackRow' = [status |-> status, healthy |-> HealthyCount]
    /\ age' = 0

StopRuntimeStackSession(status) ==
    /\ session' = [status |-> status, stopped |-> TRUE]
    /\ stackRow' = [stackRow EXCEPT !.status = status]
    /\ age' = 0

\* run() up to the first wait: the tasks exist, none has run yet.
Init ==
    /\ stopOn \in Settings
    /\ pc = "waiting" /\ why = "none" /\ stopEvent = FALSE /\ stopping = FALSE
    /\ tasks = Members /\ completed = {}
    /\ task = [m \in Members |-> "running"] /\ row = [m \in Members |-> "NONE"]
    /\ heartbeat = "running"
    /\ session = [status |-> "RUNNING", stopped |-> FALSE]
    /\ stackRow = [status |-> "RUNNING", healthy |-> 0]
    /\ age = 0 /\ timer = Beat /\ grace = 0
    /\ downFor = [m \in Members |-> 0]

-----------------------------------------------------------------------------
(* A member, as StrategyDaemon shows itself                                 *)

Elsewhere == <<stopOn, pc, why, stopEvent, stopping, tasks, completed, heartbeat, reportVars,
               timer, grace, downFor>>

Cycles(m) ==
    /\ pc \notin Ended /\ task[m] = "running"
    /\ \/ row[m] \in {"NONE", "RESTARTING"} /\ ~stopping /\ row' = [row EXCEPT ![m] = "STARTING"]
       \/ row[m] = "STARTING" /\ row' = [row EXCEPT ![m] = "RUNNING"]
       \/ row[m] \in {"STARTING", "RUNNING"} /\ ~stopping
            /\ row' = [row EXCEPT ![m] = "RESTARTING"]
    /\ UNCHANGED <<task, Elsewhere>>

Ends(m, how, status) ==
    /\ pc \notin Ended /\ task[m] = "running"
    /\ task' = [task EXCEPT ![m] = how]
    /\ row' = [row EXCEPT ![m] = status]
    /\ UNCHANGED Elsewhere

\* The strategy exits for good, or the daemon sees the stop request.
MemberExits(m) == row[m] = "RUNNING" /\ Ends(m, "done", "STOPPED")

\* A cycle fails without restart, or with a stop request set.
MemberRaises(m) == row[m] \in {"STARTING", "RUNNING"} /\ Ends(m, "failed", "FAILED")

\* The stop request is found at the head of the loop: the row stays as it is.
MemberLeaves(m) ==
    stopping /\ row[m] \in {"NONE", "RESTARTING"} /\ Ends(m, "done", row[m])

-----------------------------------------------------------------------------
(* run()                                                                    *)

Loop == <<stopOn, stopEvent, memberVars, heartbeat, timer, downFor>>

Raise ==
    /\ pc' = "raised"
    /\ UNCHANGED <<why, stopping, tasks, completed, grace, reportVars>>

\* _stop_member_tasks: request_stop on every daemon, then wait.
StopMemberTasks(reason) ==
    /\ why' = reason
    /\ stopping' = TRUE
    /\ grace' = Grace
    /\ pc' = "grace"

SeeStop ==
    /\ pc = "waiting" /\ stopEvent
    /\ StopMemberTasks("shutdown")
    /\ UNCHANGED <<Loop, tasks, completed, reportVars>>

SeeHeartbeatFail ==
    /\ pc = "waiting" /\ ~stopEvent /\ heartbeat = "failed"
    /\ Raise
    /\ UNCHANGED Loop

SeeMembers ==
    /\ pc = "waiting" /\ ~stopEvent /\ heartbeat # "failed"
    /\ completed' = {m \in tasks : task[m] \in Over}
    /\ completed' # {}
    /\ pc' = "noting"
    /\ UNCHANGED <<Loop, why, stopping, tasks, grace, reportVars>>

\* One round of the for loop over completed_members (in any order).
NoteMember_Exit(m) ==   \* mutated: a failed member is taken for one that exited
    /\ pc = "noting" /\ m \in completed
    /\ tasks' = tasks \ {m} /\ completed' = completed \ {m}
    /\ PersistStackStatus("RUNNING")
    /\ IF "exit" \in stopOn THEN StopMemberTasks("exit") ELSE UNCHANGED <<pc, why, stopping, grace>>
    /\ UNCHANGED Loop
NoteMember(m) ==
    /\ pc = "noting" /\ m \in completed
    /\ tasks' = tasks \ {m} /\ completed' = completed \ {m}
    /\ IF task[m] = "failed"
         THEN /\ PersistStackStatus("FAILED")
              /\ IF "failure" \in stopOn
                   THEN StopMemberTasks("failure")
                   ELSE UNCHANGED <<pc, why, stopping, grace>>
         ELSE /\ PersistStackStatus("RUNNING")
              /\ IF "exit" \in stopOn
                   THEN StopMemberTasks("exit")
                   ELSE UNCHANGED <<pc, why, stopping, grace>>
    /\ UNCHANGED Loop

WaitAgain ==
    /\ pc = "noting" /\ completed = {} /\ tasks # {}
    /\ PersistStackStatus("RUNNING")
    /\ pc' = "waiting"
    /\ UNCHANGED <<Loop, why, stopping, tasks, completed, grace>>

AllMembersExited ==
    /\ pc = "noting" /\ completed = {} /\ tasks = {}
    /\ StopRuntimeStackSession("STOPPED")
    /\ pc' = "returned"
    /\ UNCHANGED <<Loop, why, stopping, tasks, completed, grace>>

GraceOver_NoTimeout == pc = "grace" /\ \A m \in tasks : task[m] \in Over  \* mutated
GraceOver == pc = "grace" /\ (grace = 0 \/ \A m \in tasks : task[m] \in Over)

\* await on a member that failed raises its exception out of _stop_member_tasks.
StopRaises ==
    /\ GraceOver
    /\ \E m \in tasks : task[m] = "failed"
    /\ Raise
    /\ UNCHANGED Loop

\* The members still running are cancelled and awaited; then the stack closes.
CloseStack_NoCancel ==     \* mutated: the members that hang are not cancelled
    /\ GraceOver
    /\ \A m \in tasks : task[m] # "failed"
    /\ StopRuntimeStackSession(IF why = "failure" THEN "FAILED" ELSE "STOPPED")
    /\ pc' = IF why = "failure" THEN "raised" ELSE "returned"
    /\ UNCHANGED <<Loop, why, stopping, tasks, completed, grace>>
CloseStack_Early ==     \* mutated: the session is closed, then the members stopped
    /\ pc = "grace"
    /\ IF session.stopped
         THEN /\ GraceOver
              /\ \A m \in tasks : task[m] # "failed"
              /\ pc' = IF why = "failure" THEN "raised" ELSE "returned"
              /\ UNCHANGED <<reportVars, memberVars>>
         ELSE /\ StopRuntimeStackSession("STOPPED")
              /\ UNCHANGED <<pc, memberVars>>
    /\ UNCHANGED <<stopOn, stopEvent, heartbeat, timer, downFor, why, stopping, tasks, completed, grace>>
CloseStack ==
    /\ GraceOver
    /\ \A m \in tasks : task[m] # "failed"
    /\ task' = [m \in Members |-> IF task[m] = "running" THEN "cancelled" ELSE task[m]]
    /\ StopRuntimeStackSession(IF why = "failure" THEN "FAILED" ELSE "STOPPED")
    /\ pc' = IF why = "failure" THEN "raised" ELSE "returned"
    /\ UNCHANGED <<stopOn, stopEvent, row, heartbeat, timer, downFor,
                   why, stopping, tasks, completed, grace>>

\* The event loop closes: what run() left behind is cancelled with it.
LoopCloses ==
    /\ pc \in Ended /\ \E m \in Members : task[m] = "running"
    /\ task' = [m \in Members |-> IF task[m] = "running" THEN "cancelled" ELSE task[m]]
    /\ UNCHANGED <<stopOn, pc, why, stopEvent, stopping, tasks, completed, row, heartbeat,
                   reportVars, timer, grace, downFor>>

-----------------------------------------------------------------------------
(* The heartbeat task, the signal, time                                     *)

HeartbeatLoop ==
    /\ pc \in {"waiting", "grace"} /\ heartbeat = "running" /\ timer = 0
    /\ PersistStackStatus("RUNNING")
    /\ timer' = Beat
    /\ UNCHANGED <<stopOn, pc, why, stopEvent, stopping, tasks, completed, memberVars, heartbeat,
                   grace, downFor>>

HeartbeatFails ==
    /\ pc \in {"waiting", "grace"} /\ heartbeat = "running" /\ timer = 0
    /\ heartbeat' = "failed"
    /\ UNCHANGED <<stopOn, pc, why, stopEvent, stopping, tasks, completed, memberVars, reportVars,
                   timer, grace, downFor>>

RequestStop ==
    /\ pc \notin Ended /\ ~stopEvent
    /\ stopEvent' = TRUE
    /\ UNCHANGED <<stopOn, pc, why, stopping, tasks, completed, memberVars, heartbeat, reportVars,
                   timer, grace, downFor>>

Lesser(a, b) == IF a <= b THEN a ELSE b

WaitIsOver == stopEvent \/ heartbeat = "failed" \/ \E m \in tasks : task[m] \in Over

\* Time passes in the two waits, and after the end.  A wait that is over
\* returns at once; a due heartbeat is not overtaken.
Tick ==
    /\ \/ pc = "waiting" /\ ~WaitIsOver /\ timer > 0
       \/ pc = "grace" /\ ~GraceOver /\ (heartbeat = "failed" \/ timer > 0)
       \/ pc \in Ended /\ age <= Stale
    /\ timer' = IF pc \in Ended \/ timer = 0 THEN timer ELSE timer - 1
    /\ grace' = IF pc = "grace" /\ grace > 0 THEN grace - 1 ELSE grace
    /\ age' = Lesser(age + 1, Stale + 1)
    /\ downFor' = [m \in Members |-> IF row[m] \in {"FAILED", "STOPPED"}
                                       THEN Lesser(downFor[m] + 1, Horizon) ELSE 0]
    /\ UNCHANGED <<stopOn, pc, why, stopEvent, stopping, tasks, completed, memberVars, heartbeat,
                   session, stackRow>>

Supervise ==
    \/ SeeStop \/ SeeHeartbeatFail \/ SeeMembers
    \/ \E m \in Members : NoteMember(m)
    \/ WaitAgain \/ AllMembersExited \/ StopRaises \/ CloseStack \/ LoopCloses

Next ==
    \/ Supervise \/ HeartbeatLoop \/ HeartbeatFails \/ RequestStop \/ Tick
    \/ \E m \in Members : Cycles(m) \/ MemberExits(m) \/ MemberRaises(m) \/ MemberLeaves(m)

Spec == Init /\ [][Next]_vars

(* The event loop runs what is ready and sleeps end; members do as they like. *)
FairSpec == Spec /\ WF_vars(Supervise) /\ WF_vars(HeartbeatLoop) /\ WF_vars(Tick)

-----------------------------------------------------------------------------
(* Properties                                                               *)

\* is_runtime_stack_status_healthy
StackHealthy ==
    /\ stackRow.status \in {"STARTING", "RUNNING"} /\ age <= Stale
    /\ stackRow.healthy >= Cardinality(Members)

\* When the stack is reported stopped no member trades on: each one has ended
\* or been cancelled, also one that sat in a backoff or a slow startup.
NoMemberOutlivesStack == session.stopped => \A m \in Members : task[m] \in Over

\* The final status of a stack session is final: no late heartbeat and no
\* later round of the loop writes over it.
ClosedStaysClosed == [][session.stopped => session' = session /\ stackRow' = stackRow]_vars

\* The health check stops passing once a member has been down for a heartbeat
\* interval (for stale_after if the heartbeat is gone as well), even where FAILED
\* is written over by RUNNING at once.
DeadMemberNoticed ==
    StackHealthy => \A m \in Members : downFor[m] <= IF pc = "waiting" THEN Beat ELSE Stale

\* A stop request ends the stack, whatever its members do.
StackStops == stopEvent ~> pc \in Ended

\* A member's failure ends the stack if the settings say so, and so does an exit.
MemberEndStops ==
    \A m \in Members :
       (\/ "failure" \in stopOn /\ task[m] = "failed"
        \/ "exit" \in stopOn /\ task[m] = "done")
         ~> pc \in Ended
=============================================================================

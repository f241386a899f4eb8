-------------------------- MODULE DaemonStackProofs --------------------------
(* Proofs about DaemonStack for any profiles, settings and times.            *)
EXTENDS DaemonStack, FiniteSetTheorems, TLAPS

-----------------------------------------------------------------------------
(* The actions, in the groups a proof goes through                          *)

MemberStep == \E m \in Members : Cycles(m) \/ MemberExits(m) \/ MemberRaises(m) \/ MemberLeaves(m)
WatchStep  == SeeStop \/ SeeHeartbeatFail \/ SeeMembers \/ RequestStop \/ HeartbeatFails
ReportStep == WaitAgain \/ HeartbeatLoop \/ \E m \in Members : NoteMember(m)
CloseStep  == AllMembersExited \/ StopRaises \/ CloseStack \/ LoopCloses

LEMMA Steps ==
    [Next]_vars => MemberStep \/ WatchStep \/ ReportStep \/ CloseStep \/ Tick \/ UNCHANGED vars
BY DEF Next, Supervise, MemberStep, WatchStep, ReportStep, CloseStep

\* What a step of a member does to task and row.
LEMMA MemberEffect ==
    ASSUME MemberStep
    PROVE  /\ UNCHANGED Elsewhere
           /\ \E m \in Members :
                /\ task[m] = "running"
                /\ \/ /\ row[m] \in {"NONE", "STARTING", "RUNNING", "RESTARTING"}
                      /\ task' = task
                      /\ \E s \in {"STARTING", "RUNNING", "RESTARTING"} :
                           row' = [row EXCEPT ![m] = s]
                   \/ /\ \E how \in {"done", "failed"} : task' = [task EXCEPT ![m] = how]
                      /\ \E s \in {"STOPPED", "FAILED", row[m]} : row' = [row EXCEPT ![m] = s]
<1>1. PICK m \in Members : Cycles(m) \/ MemberExits(m) \/ MemberRaises(m) \/ MemberLeaves(m)
    BY DEF MemberStep
<1>2. CASE Cycles(m)
    BY <1>2 DEF Cycles
<1>3. CASE MemberExits(m)
    BY <1>3 DEF MemberExits, Ends
<1>4. CASE MemberRaises(m)
    BY <1>4 DEF MemberRaises, Ends
<1>5. CASE MemberLeaves(m)
    BY <1>5 DEF MemberLeaves, Ends
<1> QED
    BY <1>1, <1>2, <1>3, <1>4, <1>5

-----------------------------------------------------------------------------
(* Type correctness                                                         *)

LEMMA CountType == HealthyCount \in 0..Cardinality(Members)
<1> DEFINE Up == {m \in Members : row[m] \in HealthyStatus}
<1>1. IsFiniteSet(Members) /\ Up \in SUBSET Members
    BY MembersAssumption
<1>2. Cardinality(Up) <= Cardinality(Members) /\ IsFiniteSet(Up)
    BY <1>1, FS_Subset
<1>3. Cardinality(Up) \in Nat /\ Cardinality(Members) \in Nat
    BY <1>1, <1>2, FS_CardinalityType
<1> QED
    BY <1>2, <1>3 DEF HealthyCount

LoopOK ==
    /\ pc \in {"waiting", "noting", "grace"} \cup Ended
    /\ stopOn \in Settings
    /\ why \in {"none", "shutdown", "exit", "failure"}
    /\ stopEvent \in BOOLEAN /\ stopping \in BOOLEAN
    /\ tasks \subseteq Members /\ completed \subseteq tasks
    /\ heartbeat \in {"running", "failed"}
    /\ timer \in 0..Beat /\ grace \in 0..Grace
MembersOK ==
    /\ task \in [Members -> {"running"} \cup Over]
    /\ row \in [Members -> Shown]
    /\ downFor \in [Members -> 0..Horizon]
ReportOK ==
    /\ session \in [status : {"RUNNING", "FAILED", "STOPPED"}, stopped : BOOLEAN]
    /\ stackRow \in [status : {"RUNNING", "FAILED", "STOPPED"},
                     healthy : 0..Cardinality(Members)]
    /\ age \in 0..(Stale + 1)

LEMMA TypeParts == /\ TypeOK <=> LoopOK /\ MembersOK /\ ReportOK
                   /\ (TypeOK <=> LoopOK /\ MembersOK /\ ReportOK)'
BY DEF TypeOK, LoopOK, MembersOK, ReportOK

LEMMA InitType == Init => TypeOK
<1> SUFFICES ASSUME Init PROVE LoopOK /\ MembersOK /\ ReportOK
    BY TypeParts
<1>1. Cardinality(Members) \in Nat
    BY MembersAssumption, FS_CardinalityType
<1>2. LoopOK
  <2>1. timer \in 0..Beat /\ grace \in 0..Grace
    BY TimeAssumption DEF Init
  <2> QED
    BY <2>1 DEF Init, LoopOK
<1>3. MembersOK
    BY TimeAssumption DEF Init, MembersOK, Shown, Horizon
<1>4. ReportOK
    BY <1>1, TimeAssumption DEF Init, ReportOK
<1> QED
    BY <1>2, <1>3, <1>4

LEMMA PersistType ==
    ASSUME ReportOK, NEW s \in {"RUNNING", "FAILED"}, PersistStackStatus(s)
    PROVE  ReportOK'
BY CountType, TimeAssumption DEF ReportOK, PersistStackStatus

LEMMA StopType ==
    ASSUME ReportOK, NEW s \in {"FAILED", "STOPPED"}, StopRuntimeStackSession(s)
    PROVE  ReportOK'
BY TimeAssumption DEF ReportOK, StopRuntimeStackSession

LEMMA TypeStep == TypeOK /\ [Next]_vars => TypeOK'
<1> SUFFICES ASSUME LoopOK, MembersOK, ReportOK, [Next]_vars
             PROVE  LoopOK' /\ MembersOK' /\ ReportOK'
    BY TypeParts
<1>1. CASE MemberStep
  <2>1. LoopOK' /\ ReportOK'
    BY <1>1, MemberEffect DEF Elsewhere, reportVars, LoopOK, ReportOK
  <2>2. MembersOK'
    BY <1>1, MemberEffect DEF Elsewhere, MembersOK, Over, Shown
  <2> QED
    BY <2>1, <2>2
<1>2. CASE WatchStep
  <2>1. MembersOK' /\ ReportOK'
    BY <1>2 DEF WatchStep, SeeStop, SeeHeartbeatFail, SeeMembers, RequestStop,
       HeartbeatFails, Raise, Loop, memberVars, reportVars, MembersOK, ReportOK
  <2>2. Grace \in 0..Grace
    BY TimeAssumption
  <2>3. CASE SeeStop
    BY <2>2, <2>1, <2>3 DEF SeeStop, StopMemberTasks, Loop, memberVars, LoopOK
  <2>4. CASE SeeHeartbeatFail
    BY <2>1, <2>4 DEF SeeHeartbeatFail, Raise, Loop, memberVars, Ended, LoopOK
  <2>5. CASE SeeMembers
    BY <2>1, <2>5 DEF SeeMembers, Loop, memberVars, LoopOK
  <2>6. CASE RequestStop \/ HeartbeatFails
    BY <2>1, <2>6 DEF RequestStop, HeartbeatFails, LoopOK
  <2> QED
    BY <1>2, <2>1, <2>3, <2>4, <2>5, <2>6 DEF WatchStep
<1>3. CASE ReportStep
  <2>1. MembersOK'
    BY <1>3 DEF ReportStep, WaitAgain, HeartbeatLoop, NoteMember, Loop, memberVars, MembersOK
  <2>2. ReportOK'
    BY <1>3, PersistType DEF ReportStep, WaitAgain, HeartbeatLoop, NoteMember
  <2>3. Grace \in 0..Grace /\ Beat \in 0..Beat
    BY TimeAssumption
  <2>4. CASE WaitAgain
    BY <2>1, <2>2, <2>4 DEF WaitAgain, Loop, memberVars, LoopOK
  <2>5. CASE HeartbeatLoop
    BY <2>3, <2>1, <2>2, <2>5 DEF HeartbeatLoop, memberVars, LoopOK
  <2>6. CASE \E m \in Members : NoteMember(m)
    BY <2>3, <2>1, <2>2, <2>6 DEF NoteMember, StopMemberTasks, Loop, memberVars, LoopOK
  <2> QED
    BY <1>3, <2>1, <2>2, <2>4, <2>5, <2>6 DEF ReportStep
<1>4. CASE CloseStep
  <2>1. LoopOK' /\ MembersOK'
    BY <1>4 DEF CloseStep, AllMembersExited, StopRaises, CloseStack, LoopCloses, Raise, Loop,
       memberVars, Ended, Over, LoopOK, MembersOK
  <2>2. CASE AllMembersExited
    BY <2>1, <2>2, StopType DEF AllMembersExited
  <2>3. CASE CloseStack
    BY <2>1, <2>3, StopType DEF CloseStack
  <2>4. CASE StopRaises \/ LoopCloses
    BY <2>1, <2>4 DEF StopRaises, LoopCloses, Raise, reportVars, ReportOK
  <2> QED
    BY <1>4, <2>2, <2>3, <2>4 DEF CloseStep
<1>5. CASE Tick
  <2>1. LoopOK'
    BY <1>5, TimeAssumption DEF Tick, LoopOK
  <2>2. MembersOK'
    BY <1>5, TimeAssumption DEF Tick, MembersOK, memberVars, Lesser, Horizon
  <2>3. ReportOK'
    BY <1>5, TimeAssumption DEF Tick, ReportOK, Lesser
  <2> QED
    BY <2>1, <2>2, <2>3
<1>6. CASE UNCHANGED vars
    BY <1>6 DEF vars, LoopOK, MembersOK, ReportOK
<1> QED
    BY <1>1, <1>2, <1>3, <1>4, <1>5, <1>6, Steps

\* Every variable of the stack keeps its type.
THEOREM TypeCorrect == Spec => []TypeOK
<1>1. Init => TypeOK
    BY InitType
<1>2. TypeOK /\ [Next]_vars => TypeOK'
    BY TypeStep
<1> QED
    BY <1>1, <1>2, PTL DEF Spec

-----------------------------------------------------------------------------
(* The inductive invariant                                                  *)

\* Whom run() has taken out of the dict, or found completed, has ended.
TakenAreOver == \A m \in Members : m \notin tasks \/ m \in completed => task[m] \in Over

\* A terminal row means an ended task; downFor is the age of a terminal row.
RowsFit ==
    \A m \in Members :
       /\ row[m] \in {"FAILED", "STOPPED"} => task[m] \in Over
       /\ row[m] \notin {"FAILED", "STOPPED"} => downFor[m] = 0

\* The session is closed last.
ClosedLast == session.stopped => pc \in Ended /\ \A m \in Members : task[m] \in Over

\* While it waits the stack reports in time.
ReportsInTime == pc \in {"waiting", "noting"} => age + timer <= Beat

\* A count of all members was right when it was taken.
CountWasRight == StackHealthy => \A m \in Members : downFor[m] <= age

StackInv == TypeOK /\ TakenAreOver /\ RowsFit /\ ClosedLast /\ ReportsInTime /\ CountWasRight

LEMMA InvInit == Init => StackInv
<1> SUFFICES ASSUME Init PROVE StackInv
    OBVIOUS
<1>1. TypeOK
    BY InitType
<1>2. TakenAreOver /\ RowsFit /\ ClosedLast
    BY DEF Init, TakenAreOver, RowsFit, ClosedLast
<1>3. ReportsInTime /\ CountWasRight
    BY TimeAssumption DEF Init, ReportsInTime, CountWasRight
<1> QED
    BY <1>1, <1>2, <1>3 DEF StackInv

LEMMA TakenStep == StackInv /\ [Next]_vars => TakenAreOver'
<1> SUFFICES ASSUME StackInv, [Next]_vars PROVE TakenAreOver'
    OBVIOUS
<1> USE DEF StackInv, TakenAreOver
<1>0. MembersOK /\ LoopOK
    BY TypeParts
<1>1. CASE MemberStep
    BY <1>0, <1>1, MemberEffect DEF Elsewhere, MembersOK, Over
<1>2. CASE WatchStep
    BY <1>2 DEF WatchStep, SeeStop, SeeHeartbeatFail, SeeMembers, RequestStop, HeartbeatFails,
       Raise, Loop, memberVars
<1>3. CASE ReportStep
    BY <1>3 DEF ReportStep, WaitAgain, HeartbeatLoop, NoteMember, Loop, memberVars
<1>4. CASE CloseStep
    BY <1>0, <1>4 DEF CloseStep, AllMembersExited, StopRaises, CloseStack, LoopCloses, Raise, Loop,
       memberVars, MembersOK, Over
<1>5. CASE Tick \/ UNCHANGED vars
    BY <1>5 DEF Tick, vars, memberVars
<1> QED
    BY <1>1, <1>2, <1>3, <1>4, <1>5, Steps

LEMMA RowsStep == StackInv /\ [Next]_vars => RowsFit'
<1> SUFFICES ASSUME StackInv, [Next]_vars PROVE RowsFit'
    OBVIOUS
<1> USE DEF StackInv, RowsFit
<1>0. MembersOK
    BY TypeParts
<1>1. CASE MemberStep
    BY <1>0, <1>1, MemberEffect DEF Elsewhere, MembersOK, Over
<1>2. CASE WatchStep
    BY <1>2 DEF WatchStep, SeeStop, SeeHeartbeatFail, SeeMembers, RequestStop, HeartbeatFails,
       Raise, Loop, memberVars
<1>3. CASE ReportStep
    BY <1>3 DEF ReportStep, WaitAgain, HeartbeatLoop, NoteMember, Loop, memberVars
<1>4. CASE CloseStep
    BY <1>0, <1>4 DEF CloseStep, AllMembersExited, StopRaises, CloseStack, LoopCloses, Raise, Loop,
       memberVars, MembersOK, Over
<1>5. CASE Tick \/ UNCHANGED vars
    BY <1>5 DEF Tick, vars, memberVars
<1> QED
    BY <1>1, <1>2, <1>3, <1>4, <1>5, Steps

LEMMA ClosedStep == StackInv /\ [Next]_vars => ClosedLast'
<1> SUFFICES ASSUME StackInv, [Next]_vars PROVE ClosedLast'
    OBVIOUS
<1> USE DEF StackInv, ClosedLast
<1>0. MembersOK /\ ReportOK
    BY TypeParts
<1>1. CASE MemberStep
    BY <1>0, <1>1, MemberEffect DEF Elsewhere, reportVars, MembersOK, Over
<1>2. CASE WatchStep
    BY <1>2 DEF WatchStep, SeeStop, SeeHeartbeatFail, SeeMembers, RequestStop, HeartbeatFails,
       Raise, Loop, memberVars, reportVars, Ended
<1>3. CASE ReportStep
    BY <1>0, <1>3 DEF ReportStep, WaitAgain, HeartbeatLoop, NoteMember, PersistStackStatus, Ended,
       ReportOK
<1>4. CASE CloseStep
  <2>1. CASE AllMembersExited
    BY <2>1 DEF AllMembersExited, Loop, memberVars, Ended, TakenAreOver
  <2>2. CASE StopRaises
    BY <2>2 DEF StopRaises, Raise, Loop, memberVars, reportVars, Ended
  <2>3. CASE CloseStack
    BY <1>0, <2>3 DEF CloseStack, Ended, Over, MembersOK
  <2>4. CASE LoopCloses
    BY <1>0, <2>4 DEF LoopCloses, Over, MembersOK, reportVars
  <2> QED
    BY <1>4, <2>1, <2>2, <2>3, <2>4 DEF CloseStep
<1>5. CASE Tick \/ UNCHANGED vars
    BY <1>5 DEF Tick, vars, memberVars
<1> QED
    BY <1>1, <1>2, <1>3, <1>4, <1>5, Steps

LEMMA TimeStep == StackInv /\ [Next]_vars => ReportsInTime'
<1> SUFFICES ASSUME StackInv, [Next]_vars PROVE ReportsInTime'
    OBVIOUS
<1> USE DEF StackInv, ReportsInTime
<1>0. LoopOK /\ ReportOK
    BY TypeParts
<1>1. CASE MemberStep
    BY <1>1, MemberEffect DEF Elsewhere, reportVars
<1>2. CASE WatchStep
    BY <1>2 DEF WatchStep, SeeStop, SeeHeartbeatFail, SeeMembers, RequestStop, HeartbeatFails,
       StopMemberTasks, Raise, Loop, reportVars
<1>3. CASE ReportStep
    BY <1>0, <1>3, TimeAssumption DEF ReportStep, WaitAgain, HeartbeatLoop, NoteMember,
       PersistStackStatus, Loop, LoopOK
<1>4. CASE CloseStep
    BY <1>4 DEF CloseStep, AllMembersExited, StopRaises, CloseStack, LoopCloses, Raise, Ended
<1>5. CASE Tick
  <2>1. pc' \in {"waiting", "noting"} => pc = "waiting" /\ timer > 0
    BY <1>5 DEF Tick, Ended
  <2>2. pc = "waiting" /\ timer > 0 => timer' = timer - 1 /\ age' <= age + 1 /\ age' \in Nat
    BY <1>0, <1>5, TimeAssumption DEF Tick, Ended, Lesser, LoopOK, ReportOK
  <2> QED
    BY <1>0, <2>1, <2>2, TimeAssumption DEF LoopOK, ReportOK
<1>6. CASE UNCHANGED vars
    BY <1>6 DEF vars
<1> QED
    BY <1>1, <1>2, <1>3, <1>4, <1>5, <1>6, Steps

\* Only when every member's row is healthy does the count reach their number.
LEMMA FullCount ==
    ASSUME HealthyCount >= Cardinality(Members)
    PROVE  \A m \in Members : row[m] \in HealthyStatus
<1> DEFINE Up == {m \in Members : row[m] \in HealthyStatus}
<1>1. IsFiniteSet(Members) /\ Up \in SUBSET Members
    BY MembersAssumption
<1>2. Cardinality(Up) <= Cardinality(Members) /\ IsFiniteSet(Up)
      /\ (Cardinality(Up) = Cardinality(Members) => Up = Members)
    BY <1>1, FS_Subset
<1>3. Cardinality(Up) \in Nat /\ Cardinality(Members) \in Nat
    BY <1>1, <1>2, FS_CardinalityType
<1>4. Up = Members
    BY <1>2, <1>3 DEF HealthyCount
<1> QED
    BY <1>4

LEMMA CountStep == StackInv /\ [Next]_vars => CountWasRight'
<1> SUFFICES ASSUME StackInv, [Next]_vars, NEW m \in Members, StackHealthy'
             PROVE  downFor'[m] <= age'
    BY DEF CountWasRight
<1> USE DEF StackInv
<1>0. MembersOK /\ ReportOK
    BY TypeParts
<1>a. ASSUME UNCHANGED <<stackRow, age, downFor>> PROVE downFor'[m] <= age'
    BY <1>a DEF CountWasRight, StackHealthy
<1>1. CASE MemberStep
    BY <1>1, <1>a, MemberEffect DEF Elsewhere, reportVars
<1>2. CASE WatchStep
    BY <1>2, <1>a DEF WatchStep, SeeStop, SeeHeartbeatFail, SeeMembers, RequestStop,
       HeartbeatFails, Raise, Loop, reportVars
<1>3. CASE ReportStep
  <2>1. /\ \E s \in {"RUNNING", "FAILED"} : PersistStackStatus(s)
        /\ downFor' = downFor
    BY <1>3 DEF ReportStep, WaitAgain, HeartbeatLoop, NoteMember, Loop
  <2>2. HealthyCount >= Cardinality(Members) /\ age' = 0
    BY <2>1 DEF PersistStackStatus, StackHealthy
  <2>3. row[m] \in HealthyStatus
    BY <2>2, FullCount
  <2> QED
    BY <1>0, <2>1, <2>2, <2>3 DEF RowsFit, HealthyStatus
<1>4. CASE CloseStep
  <2>1. ASSUME NEW s \in {"FAILED", "STOPPED"}, StopRuntimeStackSession(s) PROVE FALSE
    BY <1>0, <2>1 DEF StopRuntimeStackSession, StackHealthy, ReportOK
  <2>2. ~AllMembersExited /\ ~CloseStack
    BY <2>1 DEF AllMembersExited, CloseStack
  <2> QED
    BY <1>4, <1>a, <2>2 DEF CloseStep, StopRaises, LoopCloses, Raise, Loop, reportVars
<1>5. CASE Tick
  <2>1. age' <= Stale /\ age' = Lesser(age + 1, Stale + 1)
    BY <1>5 DEF Tick, StackHealthy
  <2>2. age' = age + 1 /\ age <= Stale
    BY <1>0, <2>1, TimeAssumption DEF Lesser, ReportOK
  <2>3. StackHealthy
    BY <1>5, <2>2 DEF Tick, StackHealthy
  <2>4. downFor[m] <= age
    BY <2>3 DEF CountWasRight
  <2>5. downFor'[m] <= downFor[m] + 1
    BY <1>0, <1>5, TimeAssumption DEF Tick, Lesser, MembersOK, Horizon
  <2>6. downFor'[m] \in Int
    BY <1>0, <1>5, TimeAssumption DEF Tick, Lesser, MembersOK, Horizon
  <2> QED
    BY <1>0, <2>2, <2>4, <2>5, <2>6, TimeAssumption DEF MembersOK, ReportOK, Horizon
<1>6. CASE UNCHANGED vars
    BY <1>6, <1>a DEF vars
<1> QED
    BY <1>1, <1>2, <1>3, <1>4, <1>5, <1>6, Steps

\* The inductive invariant: who has been taken out of the dict has ended, a terminal row
\* belongs to an ended task, the session is closed last, and a count of all members was
\* right when it was taken.
THEOREM StackInvariant == Spec => []StackInv
<1>1. Init => StackInv
    BY InvInit
<1>2. StackInv /\ [Next]_vars => StackInv'
    BY TypeStep, TakenStep, RowsStep, ClosedStep, TimeStep, CountStep DEF StackInv
<1> QED
    BY <1>1, <1>2, PTL DEF Spec

-----------------------------------------------------------------------------
(* What it says                                                             *)

\* No member trades on once the stack is reported stopped, for any profiles and settings.
THEOREM NoneOutlives == Spec => []NoMemberOutlivesStack
<1>1. StackInv => NoMemberOutlivesStack
    BY DEF StackInv, ClosedLast, NoMemberOutlivesStack
<1> QED
    BY <1>1, StackInvariant, PTL

\* A dead member fails the health check within a heartbeat interval, or within stale_after.
THEOREM DeadAlwaysNoticed == Spec => []DeadMemberNoticed
<1>1. StackInv => DeadMemberNoticed
  <2> SUFFICES ASSUME StackInv, StackHealthy, NEW m \in Members
               PROVE  downFor[m] <= IF pc = "waiting" THEN Beat ELSE Stale
      BY DEF DeadMemberNoticed
  <2>1. LoopOK /\ MembersOK /\ ReportOK
      BY TypeParts DEF StackInv
  <2>2. downFor[m] <= age /\ age <= Stale
      BY DEF StackInv, CountWasRight, StackHealthy
  <2>3. pc = "waiting" => age <= Beat
      BY <2>1, TimeAssumption DEF StackInv, ReportsInTime, LoopOK, ReportOK
  <2> QED
      BY <2>1, <2>2, <2>3, TimeAssumption DEF MembersOK, ReportOK, Horizon
<1> QED
    BY <1>1, StackInvariant, PTL

\* The final status of a stack session is never written over.
THEOREM ClosedIsFinal == Spec => ClosedStaysClosed
<1>1. StackInv /\ [Next]_vars
        => [session.stopped => session' = session /\ stackRow' = stackRow]_vars
  <2> SUFFICES ASSUME StackInv, Next, session.stopped
               PROVE  session' = session /\ stackRow' = stackRow
      OBVIOUS
  <2>1. pc \in Ended
      BY DEF StackInv, ClosedLast
  <2>2. MemberStep \/ WatchStep \/ ReportStep \/ CloseStep \/ Tick \/ UNCHANGED vars
      BY Steps
  <2>3. CASE MemberStep
      BY <2>3, MemberEffect DEF Elsewhere, reportVars
  <2>4. CASE WatchStep \/ ReportStep \/ CloseStep
      BY <2>1, <2>4 DEF WatchStep, SeeStop, SeeHeartbeatFail, SeeMembers, RequestStop,
         HeartbeatFails, ReportStep, WaitAgain, HeartbeatLoop, NoteMember, CloseStep,
         AllMembersExited, StopRaises, CloseStack, GraceOver, LoopCloses, Ended, reportVars
  <2> QED
      BY <2>2, <2>3, <2>4 DEF Tick, vars
<1> QED
    BY <1>1, StackInvariant, PTL DEF Spec, ClosedStaysClosed
==============================================================================

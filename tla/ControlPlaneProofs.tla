--------------------------- MODULE ControlPlaneProofs ---------------------------
(* Proofs about ControlPlane for any threads, process ids and bounds.           *)
EXTENDS ControlPlane, FiniteSetTheorems, TLAPS

-----------------------------------------------------------------------------
(* Type correctness                                                         *)

Handler == [pc : Stages, path : BOOLEAN, pid : Pids \cup {NoPid}, tries : 0..Polls,
            seen : 0..MaxStarts, answer : Answers]
Reply == [status : Answers, path : BOOLEAN]
ThreadsOK == thread \in [Threads -> Handler] /\ reply \in Reply
ProcessesOK == proc \in [Pids -> {Stranger} \cup (0..MaxStarts)] /\ starts \in 0..MaxStarts
RowsOK ==
    /\ row \in [run : 0..MaxStarts, status : {"NONE", "RUNNING", "STOPPED"}]
    /\ stackRow \in {"NONE", "RUNNING", "STOPPED"}
RestOK ==
    /\ meta \in Pids \cup {NoPid}
    /\ requests \in 0..MaxRequests /\ strangers \in 0..MaxStrangers
    /\ overlapped \in BOOLEAN

LEMMA TypeParts == /\ TypeOK <=> ThreadsOK /\ ProcessesOK /\ RowsOK /\ RestOK
                   /\ (TypeOK <=> ThreadsOK /\ ProcessesOK /\ RowsOK /\ RestOK)'
BY DEF TypeOK, ThreadsOK, ProcessesOK, RowsOK, RestOK, Handler, Reply

LEMMA Facts == /\ NoPid \in Pids \cup {NoPid} /\ 0 \in 0..Polls /\ 0 \in 0..MaxStarts
               /\ Polls \in 0..Polls /\ Idle \in Handler
BY CpBoundAssumption DEF Idle, Handler, Stages, Answers

LEMMA InitType == Init => TypeOK
<1> SUFFICES ASSUME Init PROVE ThreadsOK /\ ProcessesOK /\ RowsOK /\ RestOK
    BY TypeParts
<1>1. ThreadsOK
    BY Facts DEF Init, ThreadsOK, NoReply, Reply, Answers
<1>2. ProcessesOK /\ RowsOK
    BY Facts DEF Init, ProcessesOK, RowsOK
<1>3. RestOK
  <2>1. 0 \in 0..MaxRequests /\ 0 \in 0..MaxStrangers
    BY CpBoundAssumption
  <2> QED
    BY <2>1 DEF Init, RestOK
<1> QED
    BY <1>1, <1>2, <1>3

\* What the processes do: they leave the handlers alone, and only one of them writes rows.
ProcessStep ==
    \E p \in Pids : ReportRow(p) \/ ReportStack(p) \/ Exit(p) \/ Crash(p) \/ StrangerStarts(p)

LEMMA Steps ==
    [Next]_vars => \/ \E t \in Threads : HandleAction(t) \/ Handle(t)
                   \/ ProcessStep \/ UNCHANGED vars
BY DEF Next, ProcessStep

LEMMA ProcessEffect ==
    ASSUME TypeOK, ProcessStep
    PROVE  /\ UNCHANGED <<meta, thread, reply, requests, overlapped>>
           /\ Managed' \subseteq Managed
           /\ Managed = {} => UNCHANGED rowVars
<1>0. ProcessesOK
    BY TypeParts
<1>1. PICK p \in Pids : ReportRow(p) \/ ReportStack(p) \/ Exit(p) \/ Crash(p) \/ StrangerStarts(p)
    BY DEF ProcessStep
<1>2. UNCHANGED <<meta, thread, reply, requests, overlapped>>
    BY <1>1 DEF ReportRow, ReportStack, Exit, Crash, StrangerStarts, historyVars
<1>3. Managed' \subseteq Managed
    BY <1>0, <1>1 DEF ReportRow, ReportStack, Exit, Crash, StrangerStarts, processVars,
       Managed, ProcessesOK, Stranger
<1>4. Managed = {} => UNCHANGED rowVars
    BY <1>1 DEF ReportRow, ReportStack, Exit, Crash, StrangerStarts, Managed, rowVars
<1> QED
    BY <1>2, <1>3, <1>4

\* An answer leaves the handler idle and is a reply; a conclusion may mark the rows first.
LEMMA ConcludeType ==
    ASSUME ThreadsOK, NEW t \in Threads, NEW what \in Answers
    PROVE  /\ Answer(t, what) => /\ ThreadsOK' /\ thread'[t].pc = "idle"
                                /\ reply'.status = what /\ reply'.path = thread[t].path
           /\ Conclude(t, what) => /\ ThreadsOK'
                                  /\ \/ /\ thread'[t].pc = "readRow" /\ reply' = reply
                                        /\ thread[t].path /\ what \in Stopped
                                     \/ /\ thread'[t].pc = "idle" /\ reply'.status = what
                                        /\ reply'.path = thread[t].path
                                        /\ ~(thread[t].path /\ what \in Stopped)
<1>1. Answer(t, what) => /\ ThreadsOK' /\ thread'[t].pc = "idle"
                         /\ reply'.status = what /\ reply'.path = thread[t].path
    BY Facts DEF Answer, ThreadsOK, Handler, Reply, Idle
<1>2. CASE thread[t].path /\ what \in Stopped
  <2>1. [thread EXCEPT ![t].pc = "readRow", ![t].answer = what] \in [Threads -> Handler]
    BY DEF ThreadsOK, Handler, Stages
  <2>2. [thread EXCEPT ![t].pc = "readRow", ![t].answer = what][t].pc = "readRow"
    BY DEF ThreadsOK, Handler
  <2>3. Conclude(t, what) =>
          /\ thread' = [thread EXCEPT ![t].pc = "readRow", ![t].answer = what]
          /\ reply' = reply
    BY <1>2 DEF Conclude
  <2> QED
    BY <1>1, <1>2, <2>1, <2>2, <2>3 DEF ThreadsOK
<1>3. CASE ~(thread[t].path /\ what \in Stopped)
    BY <1>1, <1>3 DEF Conclude
<1> QED
    BY <1>2, <1>3

LEMMA ThreadsStep ==
    ASSUME TypeOK, NEW t \in Threads, HandleAction(t) \/ Handle(t)
    PROVE  ThreadsOK'
<1>0. ThreadsOK /\ ProcessesOK /\ RowsOK /\ RestOK
    BY TypeParts
<1>a. \A x \in Answers : Answer(t, x) \/ Conclude(t, x) => ThreadsOK'
    BY <1>0, ConcludeType
<1>b. {"STARTED", "ALREADY_RUNNING", "NOT_FOUND", "ERROR"} \subseteq Answers
    BY DEF Answers
<1> USE Facts DEF ThreadsOK, Handler
<1>1. CASE HandleAction(t)
  <2>1. PICK action \in {"startCheck", "stopCheck"}, path \in BOOLEAN :
          thread' = [thread EXCEPT ![t] = [Idle EXCEPT !.pc = action, !.path = path]]
    BY <1>1 DEF HandleAction
  <2>2. [Idle EXCEPT !.pc = action, !.path = path] \in Handler
    BY DEF Idle, Stages
  <2>3. reply' \in Reply
    BY <1>1 DEF HandleAction, NoReply, Reply, Answers
  <2> QED
    BY <1>0, <2>1, <2>2, <2>3
<1>2. CASE LoadFails(t)
    BY <1>a, <1>b, <1>2 DEF LoadFails
<1>3. CASE StartCheck(t)
  <2>1. CASE PidIsRunning(meta)
    BY <1>a, <1>b, <1>3, <2>1 DEF StartCheck
  <2>2. CASE ~PidIsRunning(meta)
    BY <1>0, <1>3, <2>2 DEF StartCheck, Goto, Stages
  <2> QED
    BY <2>1, <2>2
<1>4. CASE Spawn(t)
  <2>1. PICK p \in Pids : thread' = [thread EXCEPT ![t].pc = "record", ![t].pid = p]
    BY <1>4 DEF Spawn, Free
  <2>2. [thread[t] EXCEPT !.pc = "record", !.pid = p] \in Handler
    BY <1>0 DEF Stages
  <2>3. reply' = reply
    BY <1>4 DEF Spawn
  <2> QED
    BY <1>0, <2>1, <2>2, <2>3
<1>5. CASE Record(t)
    BY <1>a, <1>b, <1>5 DEF Record
<1>6. CASE StopCheck(t)
  <2>1. CASE meta = NoPid
    BY <1>a, <1>b, <1>6, <2>1 DEF StopCheck
  <2>2. CASE meta # NoPid
    BY <1>0, <1>6, <2>2 DEF StopCheck, Stages, Answers, RestOK
  <2> QED
    BY <2>1, <2>2
<1>7. CASE Kill(t)
  <2>1. CASE PidIsRunning(thread[t].pid)
    BY <1>0, <1>7, <2>1 DEF Kill, Stages
  <2>2. CASE ~PidIsRunning(thread[t].pid)
    BY <1>a, <1>b, <1>7, <2>2 DEF Kill
  <2> QED
    BY <2>1, <2>2
<1>8. CASE Poll(t)
  <2>1. thread[t].tries \in 0..Polls
    BY <1>0
  <2>2. thread[t].tries # 0 => thread[t].tries - 1 \in 0..Polls
    BY <2>1, CpBoundAssumption
  <2>3. CASE thread[t].tries = 0
    BY <1>0, <1>8, <2>3 DEF Poll, Stages, Answers
  <2>4. CASE thread[t].tries # 0 /\ PidIsRunning(thread[t].pid)
    BY <1>0, <1>8, <2>2, <2>4 DEF Poll
  <2>5. CASE thread[t].tries # 0 /\ ~PidIsRunning(thread[t].pid)
    BY <1>0, <1>8, <2>5 DEF Poll, Stages, Answers
  <2> QED
    BY <2>3, <2>4, <2>5
<1>9. CASE WriteBack(t)
  <2>1. thread[t].answer \in Answers
    BY <1>0
  <2> QED
    BY <1>a, <1>9, <2>1 DEF WriteBack
<1>10. CASE ReadRow(t)
    BY <1>0, <1>10 DEF ReadRow, Stages, RowsOK
<1>11. CASE WriteRow(t)
    BY <1>0, <1>11 DEF WriteRow, Goto, Stages
<1>12. CASE WriteStack(t)
  <2>1. thread[t].answer \in Answers
    BY <1>0
  <2> QED
    BY <1>a, <1>12, <2>1 DEF WriteStack
<1> QED
    BY <1>1, <1>2, <1>3, <1>4, <1>5, <1>6, <1>7, <1>10, <1>11, <1>8, <1>9, <1>12 DEF Handle

\* What each step of a handler leaves alone besides the handlers.
LEMMA HandlerFrame ==
    ASSUME NEW t \in Threads, HandleAction(t) \/ Handle(t)
    PROVE  /\ UNCHANGED processVars \/ Spawn(t)
           /\ UNCHANGED rowVars \/ WriteRow(t) \/ WriteStack(t)
           /\ UNCHANGED historyVars \/ HandleAction(t)
           /\ meta' \in {meta, thread[t].pid}
<1>1. CASE HandleAction(t)
    BY <1>1 DEF HandleAction
<1>2. CASE LoadFails(t) \/ StartCheck(t) \/ StopCheck(t) \/ Kill(t) \/ Poll(t) \/ ReadRow(t)
    BY <1>2 DEF LoadFails, StartCheck, StopCheck, Kill, Poll, ReadRow
<1>3. CASE Spawn(t)
    BY <1>3 DEF Spawn, historyVars
<1>4. CASE Record(t) \/ WriteBack(t)
    BY <1>4 DEF Record, WriteBack
<1>5. CASE WriteRow(t) \/ WriteStack(t)
    BY <1>5 DEF WriteRow, WriteStack
<1> QED
    BY <1>1, <1>2, <1>3, <1>4, <1>5 DEF Handle

LEMMA TypeStep == TypeOK /\ [Next]_vars => TypeOK'
<1> SUFFICES ASSUME TypeOK, [Next]_vars PROVE ThreadsOK' /\ ProcessesOK' /\ RowsOK' /\ RestOK'
    BY TypeParts
<1>0. ThreadsOK /\ ProcessesOK /\ RowsOK /\ RestOK
    BY TypeParts
<1>1. ASSUME NEW t \in Threads, HandleAction(t) \/ Handle(t)
      PROVE  ThreadsOK' /\ ProcessesOK' /\ RowsOK' /\ RestOK'
  <2>1. thread[t].pid \in Pids \cup {NoPid} /\ thread[t].seen \in 0..MaxStarts
    BY <1>0 DEF ThreadsOK, Handler
  <2>2. ThreadsOK'
    BY <1>1, ThreadsStep
  <2>3. ProcessesOK'
    <3>1. UNCHANGED processVars => ProcessesOK'
      BY <1>0 DEF processVars, ProcessesOK
    <3>2. CASE Spawn(t)
      <4>1. starts < MaxStarts /\ starts' = starts + 1
        BY <3>2 DEF Spawn
      <4>2. PICK p \in Pids : proc' = [proc EXCEPT ![p] = starts + 1]
        BY <3>2 DEF Spawn, Free
      <4>3. starts + 1 \in 0..MaxStarts
        BY <1>0, <4>1, CpBoundAssumption DEF ProcessesOK
      <4> QED
        BY <1>0, <4>1, <4>2, <4>3 DEF ProcessesOK
    <3> QED
      BY <1>1, <3>1, <3>2, HandlerFrame
  <2>4. RowsOK'
    <3>1. UNCHANGED rowVars => RowsOK'
      BY <1>0 DEF rowVars, RowsOK
    <3>2. WriteRow(t) => RowsOK'
      <4>1. WriteRow(t) => /\ row' = [run |-> thread[t].seen, status |-> "STOPPED"]
                           /\ stackRow' = stackRow
        BY DEF WriteRow
      <4> QED
        BY <1>0, <2>1, <4>1 DEF RowsOK
    <3>3. WriteStack(t) => RowsOK'
      BY <1>0 DEF WriteStack, RowsOK
    <3> QED
      BY <1>1, <3>1, <3>2, <3>3, HandlerFrame
  <2>5. RestOK'
    <3>1. meta' \in {meta, thread[t].pid}
      BY <1>1, HandlerFrame
    <3>2. requests' \in 0..MaxRequests /\ strangers' = strangers
      <4>1. HandleAction(t) => /\ requests < MaxRequests /\ requests' = requests + 1
                               /\ strangers' = strangers
        BY DEF HandleAction
      <4>2. UNCHANGED historyVars => requests' = requests /\ strangers' = strangers
        BY DEF historyVars
      <4> QED
        BY <1>0, <1>1, <4>1, <4>2, HandlerFrame, CpBoundAssumption DEF RestOK
    <3>3. overlapped' \in BOOLEAN
      <4>1. HandleAction(t) => overlapped' \in BOOLEAN
        BY <1>0 DEF HandleAction, RestOK
      <4> QED
        BY <1>0, <1>1, <4>1, HandlerFrame DEF historyVars, RestOK
    <3> QED
      BY <1>0, <2>1, <3>1, <3>2, <3>3 DEF RestOK
  <2> QED
    BY <2>2, <2>3, <2>4, <2>5
<1>2. CASE ProcessStep
  <2>1. PICK p \in Pids :
          ReportRow(p) \/ ReportStack(p) \/ Exit(p) \/ Crash(p) \/ StrangerStarts(p)
    BY <1>2 DEF ProcessStep
  <2>2. proc[p] > 0 => proc[p] \in 0..MaxStarts
    BY <1>0 DEF ProcessesOK, Stranger
  <2>3. ThreadsOK'
    BY <1>0, <1>2, ProcessEffect DEF ThreadsOK
  <2>4. ProcessesOK'
    BY <1>0, <2>1, Facts DEF ReportRow, ReportStack, Exit, Crash, StrangerStarts,
       processVars, ProcessesOK
  <2>5. RowsOK'
    BY <1>0, <2>1, <2>2 DEF ReportRow, ReportStack, Exit, Crash, StrangerStarts, rowVars, RowsOK
  <2>6. RestOK'
    BY <1>0, <2>1, CpBoundAssumption DEF ReportRow, ReportStack, Exit, Crash,
       StrangerStarts, historyVars, RestOK
  <2> QED
    BY <2>3, <2>4, <2>5, <2>6
<1>3. CASE UNCHANGED vars
    BY <1>0, <1>3 DEF vars, ThreadsOK, ProcessesOK, RowsOK, RestOK
<1> QED
    BY <1>1, <1>2, <1>3, Steps

\* Every variable keeps its type.
THEOREM TypeCorrect == Spec => []TypeOK
<1>1. Init => TypeOK
    BY InitType
<1>2. TypeOK /\ [Next]_vars => TypeOK'
    BY TypeStep
<1> QED
    BY <1>1, <1>2, PTL DEF Spec

-----------------------------------------------------------------------------
(* One request at a time                                                    *)

Active(t) == thread[t].pc # "idle"

Single == \A t, u \in Threads : Active(t) /\ Active(u) => t = u

\* What a handler knows at each stage.
Knows(t) ==
    /\ thread[t].pc \in {"startCheck", "stopCheck", "kill", "poll", "writeBack"}
         => Managed \subseteq {meta}
    /\ thread[t].pc \in {"kill", "poll", "writeBack"} => thread[t].pid = meta
    /\ thread[t].pc = "writeBack" /\ thread[t].answer \in Stopped => Managed = {}
    /\ thread[t].pc \in {"spawn", "readRow", "writeRow", "writeStack"} => Managed = {}
    /\ thread[t].pc = "record" => Managed \subseteq {thread[t].pid}
    /\ thread[t].pc = "writeStack" => row.status # "RUNNING"
    /\ Active(t) => reply.status = "none"

\* What is left between two requests.
Left ==
    (\A t \in Threads : ~Active(t)) =>
       /\ Managed \subseteq {meta}
       /\ SaysStopped => /\ Managed = {}
                         /\ reply.path => row.status # "RUNNING" /\ stackRow # "RUNNING"

AloneInv == Single /\ Left /\ \A t \in Threads : Knows(t)

ControlInv == TypeOK /\ (~overlapped => AloneInv)

LEMMA InvInit == Init => ControlInv
<1> SUFFICES ASSUME Init PROVE ControlInv
    OBVIOUS
<1>1. TypeOK
    BY InitType
<1>2. \A t \in Threads : ~Active(t) /\ thread[t].pc = "idle"
    BY DEF Init, Active, Idle
<1>3. Managed = {}
    BY DEF Init, Managed
<1> QED
    BY <1>1, <1>2, <1>3 DEF ControlInv, AloneInv, Single, Left, Knows, Init, SaysStopped,
       NoReply, Stopped

\* A new request finds no other.
LEMMA RequestStep ==
    ASSUME ControlInv, NEW t \in Threads, HandleAction(t), ~overlapped'
    PROVE  AloneInv'
<1>1. ~overlapped /\ Busy = {}
    BY DEF HandleAction, ControlInv, TypeOK
<1>2. \A u \in Threads : thread[u].pc = "idle"
    BY <1>1 DEF Busy
<1>3. Managed \subseteq {meta} /\ Managed' = Managed /\ meta' = meta /\ reply'.status = "none"
    BY <1>1, <1>2 DEF ControlInv, AloneInv, Left, Active, HandleAction, Managed,
       processVars, NoReply
<1>4. /\ thread'[t].pc \in {"startCheck", "stopCheck"}
      /\ \A u \in Threads \ {t} : thread'[u].pc = "idle"
    BY <1>2 DEF HandleAction, Idle, ControlInv, TypeOK
<1> QED
    BY <1>3, <1>4 DEF AloneInv, Single, Left, Knows, Active

\* A handler that is the only one takes its next step.
LEMMA HandlerStep ==
    ASSUME ControlInv, NEW t \in Threads, Handle(t), ~overlapped'
    PROVE  AloneInv'
<1>1. ~overlapped /\ ThreadsOK /\ ProcessesOK
    BY TypeParts DEF Handle, LoadFails, StartCheck, Spawn, Record, StopCheck, Kill, Poll,
       WriteBack, ReadRow, WriteRow, WriteStack, historyVars, ControlInv
<1>2. Active(t) /\ AloneInv /\ Knows(t)
    BY <1>1 DEF Handle, LoadFails, StartCheck, Spawn, Record, StopCheck, Kill, Poll,
       WriteBack, ReadRow, WriteRow, WriteStack, At, Active, ControlInv, AloneInv
<1>3. \A u \in Threads \ {t} : thread[u].pc = "idle" /\ thread'[u].pc = "idle"
  <2>1. \A u \in Threads \ {t} : thread[u].pc = "idle"
    BY <1>2 DEF AloneInv, Single, Active
  <2>2. \A u \in Threads \ {t} : thread'[u] = thread[u]
    BY <1>1 DEF Handle, LoadFails, StartCheck, Spawn, Record, StopCheck, Kill, Poll,
       WriteBack, ReadRow, WriteRow, WriteStack, Goto, Conclude, Answer, ThreadsOK
  <2> QED
    BY <2>1, <2>2
<1>4. Single'
    BY <1>3 DEF Single, Active
<1>5. \A u \in Threads \ {t} : Knows(u)'
    BY <1>3 DEF Knows, Active
<1>6. SUFFICES /\ Knows(t)'
               /\ thread'[t].pc = "idle" =>
                    /\ Managed' \subseteq {meta'}
                    /\ SaysStopped' => /\ Managed' = {}
                                       /\ reply'.path => /\ row'.status # "RUNNING"
                                                         /\ stackRow' # "RUNNING"
    BY <1>4, <1>5 DEF AloneInv, Left, Active
<1>a. \A x \in Answers : Answer(t, x) => thread'[t].pc = "idle" /\ reply'.status = x
    BY <1>1, ConcludeType
<1>b. {"STARTED", "ALREADY_RUNNING", "NOT_FOUND", "ERROR"} \subseteq Answers
    BY DEF Answers
<1>c. \A x \in Answers :
        Conclude(t, x) => \/ thread'[t].pc = "readRow" /\ reply' = reply /\ x \in Stopped
                          \/ /\ thread'[t].pc = "idle" /\ reply'.status = x
                             /\ x \in Stopped => ~reply'.path
    BY <1>1, ConcludeType
<1>d. ~PidIsRunning(meta) /\ Managed \subseteq {meta} => Managed = {}
    BY PidsAssumption DEF PidIsRunning, Managed, NoPid
<1> USE DEF Knows, Active, At, SaysStopped
<1>7. CASE LoadFails(t)
  <2>1. Managed' = Managed /\ meta' = meta /\ Managed \subseteq {meta}
    BY <1>2, <1>7 DEF LoadFails, Managed, processVars
  <2>2. thread'[t].pc = "idle" /\ reply'.status = "ERROR"
    BY <1>a, <1>b, <1>7 DEF LoadFails
  <2> QED
    BY <2>1, <2>2 DEF Stopped
<1>8. CASE StartCheck(t)
  <2>1. Managed' = Managed /\ meta' = meta /\ Managed \subseteq {meta}
    BY <1>2, <1>8 DEF StartCheck, Managed, processVars
  <2>2. CASE PidIsRunning(meta)
    <3>1. thread'[t].pc = "idle" /\ reply'.status = "ALREADY_RUNNING"
      BY <1>a, <1>b, <1>8, <2>2 DEF StartCheck
    <3> QED
      BY <2>1, <3>1 DEF Stopped
  <2>3. CASE ~PidIsRunning(meta)
    <3>1. thread'[t].pc = "spawn" /\ reply' = reply
      BY <1>1, <1>8, <2>3 DEF StartCheck, Goto, ThreadsOK, Handler
    <3> QED
      BY <1>2, <1>8, <1>d, <2>1, <2>3, <3>1 DEF StartCheck
  <2> QED
    BY <2>2, <2>3
<1>9. CASE Spawn(t)
  <2>1. PICK p \in Free : /\ proc' = [proc EXCEPT ![p] = starts + 1]
                          /\ thread' = [thread EXCEPT ![t].pc = "record", ![t].pid = p]
    BY <1>9 DEF Spawn
  <2>2. Managed = {} /\ reply.status = "none"
    BY <1>2, <1>9 DEF Spawn
  <2>3. Managed' \subseteq {p}
    BY <1>1, <2>1, <2>2 DEF Managed, ProcessesOK, Free
  <2>4. thread'[t].pc = "record" /\ thread'[t].pid = p /\ reply' = reply
    BY <1>1, <1>9, <2>1 DEF Spawn, ThreadsOK, Handler
  <2> QED
    BY <2>2, <2>3, <2>4
<1>10. CASE Record(t)
  <2>1. Managed' = Managed /\ meta' = thread[t].pid /\ Managed \subseteq {thread[t].pid}
    BY <1>2, <1>10 DEF Record, Managed, processVars
  <2>2. thread'[t].pc = "idle" /\ reply'.status = "STARTED"
    BY <1>a, <1>b, <1>10 DEF Record
  <2> QED
    BY <2>1, <2>2 DEF Stopped
<1>11. CASE StopCheck(t)
  <2>1. Managed' = Managed /\ meta' = meta /\ Managed \subseteq {meta} /\ reply.status = "none"
    BY <1>2, <1>11 DEF StopCheck, Managed, processVars
  <2>2. CASE meta = NoPid
    <3>1. Managed = {}
      BY <1>d, <2>1, <2>2 DEF PidIsRunning
    <3>2. Conclude(t, "NOT_FOUND")
      BY <1>11, <2>2 DEF StopCheck
    <3>3. \/ thread'[t].pc = "readRow" /\ reply' = reply
          \/ thread'[t].pc = "idle" /\ ~reply'.path
      BY <1>b, <1>c, <3>2 DEF Stopped
    <3> QED
      BY <2>1, <3>1, <3>3
  <2>3. CASE meta # NoPid
    <3>1. /\ reply' = reply /\ thread'[t].pid = meta
          /\ thread'[t].pc = "kill" \/ (thread'[t].pc = "writeBack" /\ ~PidIsRunning(meta))
      BY <1>1, <1>11, <2>3 DEF StopCheck, ThreadsOK, Handler
    <3> QED
      BY <1>d, <2>1, <3>1
  <2> QED
    BY <2>2, <2>3
<1>12. CASE Kill(t)
  <2>1. Managed' = Managed /\ meta' = meta /\ Managed \subseteq {meta} /\ thread[t].pid = meta
    BY <1>2, <1>12 DEF Kill, Managed, processVars
  <2>2. CASE PidIsRunning(thread[t].pid)
    <3>1. thread'[t].pc = "poll" /\ thread'[t].pid = thread[t].pid /\ reply' = reply
      BY <1>1, <1>12, <2>2 DEF Kill, ThreadsOK, Handler
    <3> QED
      BY <1>2, <1>12, <2>1, <3>1 DEF Kill
  <2>3. CASE ~PidIsRunning(thread[t].pid)
    <3>1. thread'[t].pc = "idle" /\ reply'.status = "ERROR"
      BY <1>a, <1>b, <1>12, <2>3 DEF Kill
    <3> QED
      BY <2>1, <3>1 DEF Stopped
  <2> QED
    BY <2>2, <2>3
<1>13. CASE Poll(t)
  <2>1. /\ Managed' = Managed /\ meta' = meta /\ reply' = reply
        /\ Managed \subseteq {meta} /\ thread[t].pid = meta /\ reply.status = "none"
    BY <1>2, <1>13 DEF Poll, Managed, processVars
  <2>2. thread'[t].pid = thread[t].pid
    BY <1>1, <1>13 DEF Poll, ThreadsOK, Handler
  <2>3. \/ thread'[t].pc = "writeBack" /\ thread'[t].answer = "STOP_SIGNAL_SENT"
        \/ thread'[t].pc = "poll"
        \/ thread'[t].pc = "writeBack" /\ ~PidIsRunning(thread[t].pid)
    BY <1>1, <1>13 DEF Poll, ThreadsOK, Handler
  <2> QED
    BY <1>d, <2>1, <2>2, <2>3 DEF Stopped
<1>14. CASE WriteBack(t)
  <2>1. /\ Managed' = Managed /\ Managed \subseteq {meta} /\ meta' = meta
        /\ thread[t].answer \in Stopped => Managed = {}
        /\ reply.status = "none"
    BY <1>2, <1>14 DEF WriteBack, Managed, processVars
  <2>2. thread[t].answer \in Answers
    BY <1>1 DEF ThreadsOK, Handler
  <2>3. \/ thread'[t].pc = "readRow" /\ reply' = reply /\ thread[t].answer \in Stopped
        \/ /\ thread'[t].pc = "idle" /\ reply'.status = thread[t].answer
           /\ thread[t].answer \in Stopped => ~reply'.path
    BY <1>c, <1>14, <2>2 DEF WriteBack
  <2> QED
    BY <2>1, <2>3
<1>15. CASE ReadRow(t)
  <2>1. Managed' = Managed /\ reply' = reply /\ row' = row
    BY <1>15 DEF ReadRow, Managed, processVars, rowVars
  <2>2. \/ thread'[t].pc = "writeStack" /\ row.status = "NONE"
        \/ thread'[t].pc = "writeRow"
    BY <1>1, <1>15 DEF ReadRow, ThreadsOK, Handler
  <2> QED
    BY <1>2, <1>15, <2>1, <2>2 DEF ReadRow
<1>16. CASE WriteRow(t)
  <2>1. Managed' = Managed /\ reply' = reply /\ row'.status = "STOPPED"
    BY <1>16 DEF WriteRow, Managed, processVars, Goto
  <2>2. thread'[t].pc = "writeStack"
    BY <1>1, <1>16 DEF WriteRow, Goto, ThreadsOK, Handler
  <2> QED
    BY <1>2, <1>16, <2>1, <2>2 DEF WriteRow
<1>17. CASE WriteStack(t)
  <2>1. Managed' = Managed /\ row' = row /\ stackRow' = "STOPPED"
    BY <1>17 DEF WriteStack, Managed, processVars
  <2>2. thread'[t].pc = "idle"
    <3>1. thread[t].answer \in Answers
      BY <1>1 DEF ThreadsOK, Handler
    <3> QED
      BY <1>a, <1>17, <3>1 DEF WriteStack
  <2> QED
    BY <1>2, <1>17, <2>1, <2>2 DEF WriteStack
<1> QED
    BY <1>7, <1>8, <1>9, <1>10, <1>11, <1>12, <1>13, <1>14, <1>15, <1>16, <1>17 DEF Handle

LEMMA InvStep == ControlInv /\ [Next]_vars => ControlInv'
<1> SUFFICES ASSUME ControlInv, [Next]_vars, ~overlapped' PROVE AloneInv'
    BY TypeStep DEF ControlInv
<1>1. CASE ProcessStep
  <2>1. /\ UNCHANGED <<meta, thread, reply, overlapped>>
        /\ Managed' \subseteq Managed
        /\ Managed = {} => row' = row /\ stackRow' = stackRow
    BY <1>1, ProcessEffect DEF ControlInv, rowVars
  <2>2. AloneInv
    BY <2>1 DEF ControlInv
  <2> QED
    BY <2>1, <2>2 DEF AloneInv, Single, Left, Knows, Active, SaysStopped
<1>2. CASE UNCHANGED vars
    BY <1>2 DEF vars, ControlInv, AloneInv, Single, Left, Knows, Active, SaysStopped, Managed
<1> QED
    BY <1>1, <1>2, Steps, RequestStep, HandlerStep

\* The inductive invariant: a request that is alone knows, at each of its stages, what
\* runs, and leaves behind what its answer says.
THEOREM ControlInvariant == Spec => []ControlInv
<1>1. Init => ControlInv
    BY InvInit
<1>2. ControlInv /\ [Next]_vars => ControlInv'
    BY InvStep
<1> QED
    BY <1>1, <1>2, PTL DEF Spec

LEMMA OneAtMost ==
    ASSUME NEW S, NEW x, S \subseteq {x}
    PROVE  Cardinality(S) <= 1
<1>1. S = {} \/ S = {x}
    OBVIOUS
<1>2. Cardinality({}) = 0
    BY FS_EmptySet
<1>3. Cardinality({x}) = 1
    BY FS_Singleton
<1> QED
    BY <1>1, <1>2, <1>3

\* Requests that do not overlap never start the stack twice.
THEOREM NeverTwo == Spec => []AtMostOneDaemon
<1>1. ControlInv => AtMostOneDaemon
  <2> SUFFICES ASSUME ControlInv, ~overlapped PROVE Cardinality(Managed) <= 1
      BY DEF AtMostOneDaemon
  <2>1. AloneInv /\ ThreadsOK
      BY TypeParts DEF ControlInv
  <2>2. CASE \A t \in Threads : ~Active(t)
      BY <2>1, <2>2, OneAtMost DEF AloneInv, Left
  <2>3. CASE \E t \in Threads : Active(t)
    <3>1. PICK t \in Threads : Active(t)
        BY <2>3
    <3>2. thread[t].pc \in Stages \ {"idle"}
        BY <2>1, <3>1 DEF ThreadsOK, Handler, Active
    <3>3. Managed \subseteq {meta} \/ Managed \subseteq {thread[t].pid}
        BY <2>1, <3>2 DEF AloneInv, Knows, Stages
    <3> QED
        BY <3>3, OneAtMost
  <2> QED
      BY <2>2, <2>3
<1> QED
    BY <1>1, ControlInvariant, PTL

\* Between requests the metadata names what runs.
THEOREM NeverForgotten == Spec => []NoneForgotten
<1>1. ControlInv => NoneForgotten
    BY DEF ControlInv, AloneInv, Left, Active, Busy, NoneForgotten
<1> QED
    BY <1>1, ControlInvariant, PTL

\* An answer that says stopped is true of the process until the next request, and of the
\* rows if the request named the stack file.
THEOREM StoppedIsTrue == Spec => []StopIsTrue
<1>1. ControlInv => StopIsTrue
    BY DEF ControlInv, AloneInv, Left, Knows, SaysStopped, Stopped, StopIsTrue
<1> QED
    BY <1>1, ControlInvariant, PTL
=================================================================================

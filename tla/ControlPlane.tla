------------------------------- MODULE ControlPlane -------------------------------
(***************************************************************************)
(* The process control of the dashboard: DashboardControlPlane             *)
(* (dashboard.py) starting and stopping one stack of one profile.  Every   *)
(* request runs in a thread of its own (ThreadingHTTPServer) and goes      *)
(* through the metadata file, the process table and the status rows        *)
(* without a lock, while the stack reports into the same rows, ends by     *)
(* itself, is killed, and its process id is given to another program.      *)
(***************************************************************************)
EXTENDS Integers, FiniteSets

CONSTANTS
    Threads,    \* request handlers
    Pids,       \* process ids
    Polls,      \* the 20 polls of _stop_process
    MaxStarts,  \* bound: processes started
    MaxStrangers, \* bound: process ids taken by other programs
    MaxRequests \* bound: requests handled

ASSUME PidsAssumption == Pids \subseteq Nat \ {0}
ASSUME CpBoundAssumption ==
    Polls \in Nat /\ MaxStarts \in Nat /\ MaxStrangers \in Nat /\ MaxRequests \in Nat

VARIABLES
    proc,       \* what runs under a process id: a run of the stack, 0 or Stranger
    starts,     \* runs started; the newest one
    meta,       \* "pid" in stack-<name>.json, 0 for no such file
    thread,     \* request handlers
    row,        \* runtime_status of the profile
    stackRow,   \* runtime_stack_status.status
    reply,      \* the last answer, and whether its request named the stack file
    requests, strangers,
    overlapped  \* history: two requests were handled at once

vars == <<proc, starts, meta, thread, row, stackRow, reply, requests, strangers,
          overlapped>>
processVars == <<proc, starts>>
rowVars     == <<row, stackRow>>
historyVars == <<requests, strangers, overlapped>>

Stranger == -1
NoPid == 0
Idle == [pc |-> "idle", path |-> FALSE, pid |-> NoPid, tries |-> 0, seen |-> 0,
         answer |-> "none"]
NoReply == [status |-> "none", path |-> FALSE]

Answers == {"none", "STARTED", "ALREADY_RUNNING", "STOPPED", "ALREADY_STOPPED", "NOT_FOUND",
            "STOP_SIGNAL_SENT", "ERROR"}
Stages == {"idle", "startCheck", "spawn", "record", "stopCheck", "kill", "poll",
           "writeBack", "readRow", "writeRow", "writeStack"}

TypeOK ==
    /\ proc \in [Pids -> {Stranger} \cup (0..MaxStarts)]
    /\ starts \in 0..MaxStarts
    /\ meta \in Pids \cup {NoPid}
    /\ thread \in [Threads -> [pc : Stages, path : BOOLEAN, pid : Pids \cup {NoPid},
                               tries : 0..Polls, seen : 0..MaxStarts, answer : Answers]]
    /\ row \in [run : 0..MaxStarts, status : {"NONE", "RUNNING", "STOPPED"}]
    /\ stackRow \in {"NONE", "RUNNING", "STOPPED"}
    /\ reply \in [status : Answers, path : BOOLEAN]
    /\ requests \in 0..MaxRequests /\ strangers \in 0..MaxStrangers
    /\ overlapped \in BOOLEAN

Init ==
    /\ proc = [p \in Pids |-> 0] /\ starts = 0 /\ meta = NoPid
    /\ thread = [t \in Threads |-> Idle]
    /\ row = [run |-> 0, status |-> "NONE"] /\ stackRow = "NONE"
    /\ reply = NoReply /\ requests = 0 /\ strangers = 0 /\ overlapped = FALSE

Managed == {p \in Pids : proc[p] > 0}
PidIsRunning(p) == p # NoPid /\ proc[p] # 0
Free == {p \in Pids : proc[p] = 0}
Busy == {t \in Threads : thread[t].pc # "idle"}

At(t, stage) == thread[t].pc = stage
Goto(t, stage) == thread' = [thread EXCEPT ![t].pc = stage] /\ reply' = reply
Answer(t, what) ==
    /\ thread' = [thread EXCEPT ![t] = Idle]
    /\ reply' = [status |-> what, path |-> thread[t].path]

\* _stop_stack: only a request that names the stack file has the rows marked, and only
\* after an answer that says stopped.
Stopped == {"STOPPED", "ALREADY_STOPPED", "NOT_FOUND"}
Conclude(t, what) ==
    IF thread[t].path /\ what \in Stopped
      THEN /\ thread' = [thread EXCEPT ![t].pc = "readRow", ![t].answer = what]
           /\ reply' = reply
      ELSE Answer(t, what)

-----------------------------------------------------------------------------
(* handle_action                                                            *)

\* start_stack takes the path of the stack file; stop_stack its name, and perhaps the path.
HandleAction(t) ==
    /\ At(t, "idle") /\ requests < MaxRequests
    /\ \E action \in {"startCheck", "stopCheck"}, path \in BOOLEAN :
         /\ action = "startCheck" => path
         /\ thread' = [thread EXCEPT ![t] = [Idle EXCEPT !.pc = action, !.path = path]]
    /\ requests' = requests + 1 /\ reply' = NoReply
    /\ overlapped' = (overlapped \/ Busy # {})
    /\ UNCHANGED <<processVars, meta, rowVars, strangers>>

\* The named stack file cannot be loaded: nothing has been looked at yet.
LoadFails(t) ==
    /\ At(t, "startCheck") \/ At(t, "stopCheck")
    /\ thread[t].path
    /\ Answer(t, "ERROR")
    /\ UNCHANGED <<processVars, meta, rowVars, historyVars>>

\* _start_process
StartCheck_NoCheck(t) ==    \* mutated: the metadata is not looked at
    /\ At(t, "startCheck")
    /\ Goto(t, "spawn")
    /\ UNCHANGED <<processVars, meta, rowVars, historyVars>>
StartCheck(t) ==
    /\ At(t, "startCheck")
    /\ IF PidIsRunning(meta) THEN Answer(t, "ALREADY_RUNNING") ELSE Goto(t, "spawn")
    /\ UNCHANGED <<processVars, meta, rowVars, historyVars>>

Spawn(t) ==
    /\ At(t, "spawn") /\ starts < MaxStarts
    /\ \E p \in Free :
         /\ proc' = [proc EXCEPT ![p] = starts + 1]
         /\ thread' = [thread EXCEPT ![t].pc = "record", ![t].pid = p]
    /\ starts' = starts + 1
    /\ UNCHANGED <<meta, rowVars, reply, requests, strangers, overlapped>>

Record_Skipped(t) ==    \* mutated: the metadata of an earlier process is kept
    /\ At(t, "record")
    /\ meta' = IF meta = NoPid THEN thread[t].pid ELSE meta
    /\ Answer(t, "STARTED")
    /\ UNCHANGED <<processVars, rowVars, historyVars>>
Record(t) ==
    /\ At(t, "record")
    /\ meta' = thread[t].pid
    /\ Answer(t, "STARTED")
    /\ UNCHANGED <<processVars, rowVars, historyVars>>

\* _stop_process
StopCheck_NoMark(t) ==  \* mutated: a stack found dead is not marked, its file named or not
    /\ At(t, "stopCheck")
    /\ IF ~PidIsRunning(meta) THEN Answer(t, "ALREADY_STOPPED")
       ELSE thread' = [thread EXCEPT ![t].pc = "kill", ![t].pid = meta] /\ reply' = reply
    /\ UNCHANGED <<processVars, meta, rowVars, historyVars>>
StopCheck(t) ==
    /\ At(t, "stopCheck")
    /\ IF meta = NoPid
         THEN Conclude(t, "NOT_FOUND")
       ELSE IF PidIsRunning(meta)
         THEN /\ thread' = [thread EXCEPT ![t].pc = "kill", ![t].pid = meta]
              /\ reply' = reply
       ELSE /\ thread' = [thread EXCEPT ![t].pc = "writeBack", ![t].pid = meta,
                                        ![t].answer = "ALREADY_STOPPED"]
            /\ reply' = reply
    /\ UNCHANGED <<processVars, meta, rowVars, historyVars>>

\* The process may have gone since the check: os.kill raises.
Kill(t) ==
    /\ At(t, "kill")
    /\ IF PidIsRunning(thread[t].pid)
         THEN /\ thread' = [thread EXCEPT ![t].pc = "poll", ![t].tries = Polls]
              /\ reply' = reply
         ELSE Answer(t, "ERROR")
    /\ UNCHANGED <<processVars, meta, rowVars, historyVars>>

Poll_Forever(t) ==      \* mutated: polls until the process has gone
    /\ At(t, "poll") /\ ~PidIsRunning(thread[t].pid)
    /\ thread' = [thread EXCEPT ![t].pc = "writeBack", ![t].answer = "STOPPED"]
    /\ UNCHANGED <<processVars, meta, rowVars, reply, historyVars>>
Poll(t) ==
    /\ At(t, "poll")
    /\ IF thread[t].tries = 0
         THEN thread' = [thread EXCEPT ![t].pc = "writeBack", ![t].answer = "STOP_SIGNAL_SENT"]
       ELSE IF PidIsRunning(thread[t].pid)
         THEN thread' = [thread EXCEPT ![t].tries = @ - 1]
       ELSE thread' = [thread EXCEPT ![t].pc = "writeBack", ![t].answer = "STOPPED"]
    /\ UNCHANGED <<processVars, meta, rowVars, reply, historyVars>>

\* The payload read at the check is written back, its pid included, whoever has written
\* the file in between.
WriteBack(t) ==
    /\ At(t, "writeBack")
    /\ meta' = thread[t].pid
    /\ Conclude(t, thread[t].answer)
    /\ UNCHANGED <<processVars, rowVars, historyVars>>

\* _mark_profile_stopped: the row is read, and written back as STOPPED under the run
\* it had; there may be none.
ReadRow(t) ==
    /\ At(t, "readRow")
    /\ thread' = [thread EXCEPT
         ![t].pc = IF row.status = "NONE" THEN "writeStack" ELSE "writeRow",
         ![t].seen = row.run]
    /\ UNCHANGED <<processVars, meta, rowVars, reply, historyVars>>

WriteRow(t) ==
    /\ At(t, "writeRow")
    /\ row' = [run |-> thread[t].seen, status |-> "STOPPED"]
    /\ Goto(t, "writeStack")
    /\ UNCHANGED <<processVars, meta, stackRow, historyVars>>

WriteStack(t) ==
    /\ At(t, "writeStack")
    /\ stackRow' = "STOPPED"
    /\ Answer(t, thread[t].answer)
    /\ UNCHANGED <<processVars, meta, row, historyVars>>

-----------------------------------------------------------------------------
(* The processes                                                            *)

\* The heartbeats of the member and of the stack.
ReportRow_Once(p) ==        \* mutated: only a new run writes the row
    /\ proc[p] > 0 /\ row.run # proc[p]
    /\ row' = [run |-> proc[p], status |-> "RUNNING"]
    /\ UNCHANGED <<processVars, meta, thread, reply, stackRow, historyVars>>
ReportRow(p) ==
    /\ proc[p] > 0
    /\ row' = [run |-> proc[p], status |-> "RUNNING"]
    /\ UNCHANGED <<processVars, meta, thread, reply, stackRow, historyVars>>

ReportStack(p) ==
    /\ proc[p] > 0
    /\ stackRow' = "RUNNING"
    /\ UNCHANGED <<processVars, meta, thread, reply, row, historyVars>>

\* A stack that stops closes its session; its members have closed theirs, or have
\* been cancelled and left the row as it was.
Exit(p) ==
    /\ proc[p] > 0
    /\ proc' = [proc EXCEPT ![p] = 0]
    /\ row' \in {row, [run |-> proc[p], status |-> "STOPPED"]}
    /\ stackRow' = "STOPPED"
    /\ UNCHANGED <<starts, meta, thread, reply, historyVars>>

Crash(p) ==
    /\ proc[p] # 0
    /\ proc' = [proc EXCEPT ![p] = 0]
    /\ UNCHANGED <<starts, meta, thread, reply, rowVars, historyVars>>

\* Another program gets a free process id.
StrangerStarts(p) ==
    /\ p \in Free /\ strangers < MaxStrangers
    /\ proc' = [proc EXCEPT ![p] = Stranger]
    /\ strangers' = strangers + 1
    /\ UNCHANGED <<starts, meta, thread, reply, rowVars, requests, overlapped>>

Handle(t) ==
    \/ LoadFails(t) \/ StartCheck(t) \/ Spawn(t) \/ Record(t)
    \/ StopCheck(t) \/ Kill(t) \/ Poll(t) \/ WriteBack(t)
    \/ ReadRow(t) \/ WriteRow(t) \/ WriteStack(t)

Next ==
    \/ \E t \in Threads : HandleAction(t) \/ Handle(t)
    \/ \E p \in Pids : ReportRow(p) \/ ReportStack(p) \/ Exit(p) \/ Crash(p) \/ StrangerStarts(p)

Spec == Init /\ [][Next]_vars

(* Threads run and heartbeats come; requests and the end of a process need not. *)
FairSpec ==
    /\ Spec
    /\ \A t \in Threads : WF_vars(Handle(t))
    /\ \A p \in Pids : WF_vars(ReportRow(p)) /\ WF_vars(ReportStack(p))

-----------------------------------------------------------------------------
(* Properties                                                               *)

\* The stack runs at most once: two daemons on one profile would both trade.  It
\* takes requests that do not overlap; process ids may be reused.
AtMostOneDaemon == ~overlapped => Cardinality(Managed) <= 1

\* Between requests the metadata names the process that runs: none is left that
\* cannot be stopped or would be started again.
NoneForgotten == ~overlapped /\ Busy = {} => Managed \subseteq {meta}

SaysStopped == reply.status \in Stopped

\* A stop answered with STOPPED, ALREADY_STOPPED or NOT_FOUND has left nothing running.
\* If the request named the stack file the rows say so too until the next request, also
\* those of a process that was killed and could not write them itself; a stop by name
\* alone leaves the rows as the process left them.
StopIsTrue ==
    SaysStopped /\ ~overlapped
        => /\ Managed = {}
           /\ reply.path => row.status # "RUNNING" /\ stackRow # "RUNNING"

\* Every request is answered, also one that stops a stack that does not stop; a start
\* that has passed its check only waits for the bound on processes.
RequestsAnswered ==
    \A t \in Threads : thread[t].pc # "idle" ~> (At(t, "idle") \/ At(t, "spawn"))

\* A handler that writes late over the rows of a new run does no lasting harm.
RowRecovers ==
    \A p \in Pids : proc[p] > 0 /\ row.status = "STOPPED"
                      ~> (row = [run |-> proc[p], status |-> "RUNNING"] \/ proc[p] <= 0
                          \/ Cardinality(Managed) > 1)
===================================================================================

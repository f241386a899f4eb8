---------------------------- MODULE OrderLifecycle ----------------------------
(***************************************************************************)
(* The life of the orders of one symbol, seen from both sides: the rows of *)
(* the SQLite "orders" table (state.py) that every process of the program  *)
(* shares, and the orders the exchange holds.  Between them run            *)
(* submit_order, order_status, cancel, reconcile and user_messages of      *)
(* SpotTradingService / FuturesTradingService (service.py), each of which  *)
(* awaits the network between what it reads and what it writes.            *)
(*                                                                         *)
(* Orders are client order ids.  new_client_order_id() makes a fresh id    *)
(* for every call and no caller in the repository supplies one, so an id   *)
(* is submitted at most once.  Procs are the operating-system processes    *)
(* that share the table (a daemon, a dashboard, a CLI command), each one   *)
(* asyncio event loop: a process is never interrupted by itself between    *)
(* two awaits, only by the others.                                         *)
(***************************************************************************)
EXTENDS Naturals, Sequences, FiniteSets

CONSTANTS
    Orders,         \* client order ids of one symbol and one market
    Procs,          \* processes sharing the journal
    Listeners,      \* the processes that read the user data stream
    Reconcilers,    \* the processes that run reconcile passes
    Operators,      \* the processes that run order_status and cancel
    Modes,          \* submission modes in use: DRY_RUN, TEST, LIVE
    RiskReducing,   \* orders with reduce_only or close_position
    Spot,           \* TRUE: SpotTradingService; FALSE: FuturesTradingService
    Authenticated,  \* the processes with API credentials
    MaxOpen,        \* max_open_orders_per_symbol
    MaxCrashes      \* bound: how many process crashes a behaviour contains

ASSUME RolesAssumption ==
    /\ Listeners \subseteq Procs /\ Reconcilers \subseteq Procs
    /\ Operators \subseteq Procs /\ Authenticated \subseteq Procs
ASSUME ModesAssumption == Modes \subseteq {"DRY_RUN", "TEST", "LIVE"}
ASSUME RiskReducingAssumption == RiskReducing \subseteq Orders
ASSUME SpotAssumption == Spot \in BOOLEAN
ASSUME BoundsAssumption == MaxOpen \in Nat /\ MaxCrashes \in Nat
ASSUME OrdersFinite == IsFiniteSet(Orders)

VARIABLES
    journal,    \* orders.status per id; "ABSENT": no row
    mode,       \* submission mode of the call that made the row
    call,       \* where the submit_order call of the order stands
    owner,      \* the process running that call
    request,    \* the place-order request on its way to the exchange
    reply,      \* the response on its way back
    exch,       \* the order's status at the exchange
    connected,  \* the user stream connection of a process is up
    feed,       \* user-stream messages not yet handled by a process
    phase,      \* where the reconcile pass of a process stands
    listed,     \* get_open_orders response a process is about to apply
    todo,       \* local open orders the pass still has to query
    answer,     \* get_order response of the pass, not yet applied
    look,       \* order_status/cancel response of a process, not yet applied
    crashes     \* crashes so far

vars == <<journal, mode, call, owner, request, reply, exch, connected, feed,
          phase, listed, todo, answer, look, crashes>>

callVars  == <<mode, call, owner>>
wireVars  == <<request, reply>>
feedVars  == <<connected, feed>>
reconVars == <<phase, listed, todo, answer>>

Live     == {"NEW", "PARTIALLY_FILLED"}
Terminal == {"FILLED", "CANCELED"}  \* CANCELED stands for EXPIRED too
ExchStatus == Live \cup Terminal

\* The statuses an order has had by the time the exchange reports e.
History(e) ==
    CASE e = "none" -> {}
      [] e = "NEW" -> {"NEW"}
      [] e = "PARTIALLY_FILLED" -> Live
      [] OTHER -> Live \cup {e}

\* The statuses only the program writes.
LocalOutcome == {"LOCAL_PENDING", "LOCAL_REJECTED", "DRY_RUN", "TEST_ACCEPTED",
                 "LIVE_ACCEPTED", "PENDING_UNKNOWN", "SUBMIT_FAILED",
                 "RECONCILED_MISSING"}

\* Mutated: the query forgets the orders whose outcome is unknown.
LocalOpen_NoUnknown == {"LOCAL_PENDING"} \cup Live

\* count_open_orders and list_local_open_orders: the statuses that hold a slot.
LocalOpen == {"LOCAL_PENDING", "PENDING_UNKNOWN"} \cup Live
OpenRows == {o \in Orders : journal[o] \in LocalOpen}

\* The synchronous stretch of submit_order: no other task of the same event
\* loop runs while one of its calls is here.
Running == {"admitted", "rejected", "recorded", "refused"}
LoopFree(p) == \A o \in Orders : owner[o] = p => call[o] \notin Running

Message == [id : Orders, status : ExchStatus]

TypeOK ==
    /\ journal \in [Orders -> {"ABSENT"} \cup LocalOutcome \cup ExchStatus]
    /\ mode \in [Orders -> Modes \cup {"none"}]
    /\ call \in [Orders -> {"idle", "testing", "sent", "done"} \cup Running]
    /\ owner \in [Orders -> Procs \cup {"none"}]
    /\ request \in [Orders -> {"none", "flying", "gone"}]
    /\ reply \in [Orders -> {"none", "ACK", "UNKNOWN", "REFUSED"} \cup ExchStatus]
    /\ exch \in [Orders -> {"none"} \cup ExchStatus]
    /\ connected \in [Procs -> BOOLEAN]
    /\ feed \in [Procs -> Seq(Message)]
    /\ phase \in [Procs -> {"idle", "listed", "checking"}]
    /\ listed \in [Procs -> [Orders -> {"none"} \cup Live]]
    /\ todo \in [Procs -> SUBSET Orders]
    /\ answer \in [Procs -> SUBSET [id : Orders, status : {"none"} \cup ExchStatus]]
    /\ look \in [Procs -> SUBSET Message]
    /\ crashes \in 0..MaxCrashes

NothingListed == [o \in Orders |-> "none"]

Init ==
    /\ journal = [o \in Orders |-> "ABSENT"]
    /\ mode = [o \in Orders |-> "none"]
    /\ call = [o \in Orders |-> "idle"]
    /\ owner = [o \in Orders |-> "none"]
    /\ request = [o \in Orders |-> "none"]
    /\ reply = [o \in Orders |-> "none"]
    /\ exch = [o \in Orders |-> "none"]
    /\ connected = [p \in Procs |-> FALSE]
    /\ feed = [p \in Procs |-> <<>>]
    /\ phase = [p \in Procs |-> "idle"]
    /\ listed = [p \in Procs |-> NothingListed]
    /\ todo = [p \in Procs |-> {}]
    /\ answer = [p \in Procs |-> {}]
    /\ look = [p \in Procs |-> {}]
    /\ crashes = 0

-----------------------------------------------------------------------------
(* Writes of the journal: UPDATE ... WHERE client_order_id = ?, which has   *)
(* no effect without a row and no condition on the status it replaces.      *)

RecordOrderResult(o, status) ==
    journal' = [journal EXCEPT ![o] = IF @ = "ABSENT" THEN @ ELSE status]

-----------------------------------------------------------------------------
(* submit_order                                                             *)

\* RiskGate.evaluate, the last thing read before the row is written.  The
\* reasons other than the open-order count (filters, allow-list, notional,
\* cooldown) may reject any order here; OrderRules has them.
GateAdmits(o) == Cardinality(OpenRows) < MaxOpen \/ o \in RiskReducing

Evaluate(p, o, m) ==
    /\ call[o] = "idle"
    /\ LoopFree(p)
    /\ owner' = [owner EXCEPT ![o] = p]
    /\ mode' = [mode EXCEPT ![o] = m]
    /\ \/ /\ GateAdmits(o)
          /\ call' = [call EXCEPT ![o] = "admitted"]
       \/ call' = [call EXCEPT ![o] = "rejected"]
    /\ UNCHANGED <<journal, wireVars, exch, feedVars, reconVars, look, crashes>>

\* Mutated: the row is left to be written with the result.
RecordOrderRequest_Late(o) ==
    /\ call[o] = "admitted"
    /\ call' = [call EXCEPT ![o] = "recorded"]
    /\ UNCHANGED <<journal, mode, owner, wireVars, exch, feedVars, reconVars, look, crashes>>

RecordOrderRequest(o) ==
    /\ \/ /\ call[o] = "admitted"
          /\ call' = [call EXCEPT ![o] = "recorded"]
       \/ /\ call[o] = "rejected"
          /\ call' = [call EXCEPT ![o] = "refused"]
    /\ journal' = [journal EXCEPT ![o] = IF @ = "ABSENT" THEN "LOCAL_PENDING" ELSE @]
    /\ UNCHANGED <<mode, owner, wireVars, exch, feedVars, reconVars, look, crashes>>

RecordRejection(o) ==
    /\ call[o] = "refused"
    /\ call' = [call EXCEPT ![o] = "done"]
    /\ RecordOrderResult(o, "LOCAL_REJECTED")
    /\ UNCHANGED <<mode, owner, wireVars, exch, feedVars, reconVars, look, crashes>>

DryRun(o) ==
    /\ call[o] = "recorded" /\ mode[o] = "DRY_RUN"
    /\ call' = [call EXCEPT ![o] = "done"]
    /\ RecordOrderResult(o, "DRY_RUN")
    /\ UNCHANGED <<mode, owner, wireVars, exch, feedVars, reconVars, look, crashes>>

\* ConfigError: the row has been written and nothing takes it back.
NoCredentials(o) ==
    /\ call[o] = "recorded" /\ mode[o] \in {"TEST", "LIVE"}
    /\ owner[o] \notin Authenticated
    /\ call' = [call EXCEPT ![o] = "done"]
    /\ UNCHANGED <<journal, mode, owner, wireVars, exch, feedVars, reconVars, look, crashes>>

SendTestOrder(o) ==
    /\ call[o] = "recorded" /\ mode[o] = "TEST"
    /\ owner[o] \in Authenticated
    /\ call' = [call EXCEPT ![o] = "testing"]
    /\ UNCHANGED <<journal, mode, owner, wireVars, exch, feedVars, reconVars, look, crashes>>

TestOrderReturns(o) ==
    /\ call[o] = "testing"
    /\ LoopFree(owner[o])
    /\ call' = [call EXCEPT ![o] = "done"]
    /\ \/ RecordOrderResult(o, "TEST_ACCEPTED")
       \/ UNCHANGED journal      \* any exception propagates, LOCAL_PENDING stays
    /\ UNCHANGED <<mode, owner, wireVars, exch, feedVars, reconVars, look, crashes>>

PlaceOrder(o) ==
    /\ call[o] = "recorded" /\ mode[o] = "LIVE"
    /\ owner[o] \in Authenticated
    /\ call' = [call EXCEPT ![o] = "sent"]
    /\ request' = [request EXCEPT ![o] = "flying"]
    /\ UNCHANGED <<journal, mode, owner, reply, exch, feedVars, reconVars, look, crashes>>

\* Mutated: an ACK is taken for a fill.
OutcomeOf_AckIsFill(r) == IF r = "ACK" THEN "FILLED" ELSE r

\* What submit_order writes for the outcome r of place_order: an ACK response
\* carries no status, BinanceExecutionUnknown is told apart from every other
\* BinanceTradeError.
OutcomeOf(r) ==
    CASE r = "ACK" -> "LIVE_ACCEPTED"
      [] r = "UNKNOWN" -> "PENDING_UNKNOWN"
      [] r = "REFUSED" -> "SUBMIT_FAILED"
      [] OTHER -> r

ReceiveReply(o) ==
    /\ call[o] = "sent" /\ reply[o] # "none"
    /\ LoopFree(owner[o])
    /\ call' = [call EXCEPT ![o] = "done"]
    /\ RecordOrderResult(o, OutcomeOf(reply[o]))
    /\ reply' = [reply EXCEPT ![o] = "none"]
    /\ UNCHANGED <<mode, owner, request, exch, feedVars, reconVars, look, crashes>>

\* NetworkError: a connect error, a reset or a timeout.  Whether the exchange
\* has, or will get, the request is not known to the program.
TransportFails(o) ==
    /\ call[o] = "sent"
    /\ LoopFree(owner[o])
    /\ call' = [call EXCEPT ![o] = "done"]
    /\ RecordOrderResult(o, "SUBMIT_FAILED")
    /\ reply' = [reply EXCEPT ![o] = "none"]
    /\ UNCHANGED <<mode, owner, request, exch, feedVars, reconVars, look, crashes>>

\* CancelledError at the await (the daemon cancels the runner): it is not a
\* BinanceTradeError, so nothing is written.
CallCancelled(o) ==
    /\ call[o] \in {"testing", "sent"}
    /\ LoopFree(owner[o])
    /\ call' = [call EXCEPT ![o] = "done"]
    /\ reply' = [reply EXCEPT ![o] = "none"]
    /\ UNCHANGED <<journal, mode, owner, request, exch, feedVars, reconVars, look, crashes>>

-----------------------------------------------------------------------------
(* The exchange and the network (external).  A response goes to the call    *)
(* that waits for it, and to nobody once that call is over.                 *)

Waiting(o) == call[o] = "sent" /\ reply[o] = "none"

Emit(o, status) ==
    feed' = [p \in Procs |->
                IF connected[p] THEN Append(feed[p], [id |-> o, status |-> status])
                                ELSE feed[p]]

Accept(o) ==
    /\ request[o] = "flying"
    /\ request' = [request EXCEPT ![o] = "gone"]
    /\ exch' = [exch EXCEPT ![o] = "NEW"]
    /\ Emit(o, "NEW")
    /\ UNCHANGED <<journal, callVars, reply, connected, reconVars, look, crashes>>

Refuse(o) ==
    /\ request[o] = "flying" /\ Waiting(o)
    /\ request' = [request EXCEPT ![o] = "gone"]
    /\ reply' = [reply EXCEPT ![o] = "REFUSED"]
    /\ UNCHANGED <<journal, callVars, exch, feedVars, reconVars, look, crashes>>

LoseRequest(o) ==
    /\ request[o] = "flying"
    /\ request' = [request EXCEPT ![o] = "gone"]
    /\ UNCHANGED <<journal, callVars, reply, exch, feedVars, reconVars, look, crashes>>

Respond(o) ==
    /\ exch[o] # "none" /\ Waiting(o)
    /\ \E r \in {exch[o], "ACK"} : reply' = [reply EXCEPT ![o] = r]
    /\ UNCHANGED <<journal, callVars, request, exch, feedVars, reconVars, look, crashes>>

\* -1007 or a 503 "status unknown": says nothing of the order.
RespondUnknown(o) ==
    /\ Waiting(o)
    /\ reply' = [reply EXCEPT ![o] = "UNKNOWN"]
    /\ UNCHANGED <<journal, callVars, request, exch, feedVars, reconVars, look, crashes>>

Trade(o) ==
    /\ exch[o] \in Live
    /\ \E s \in {"PARTIALLY_FILLED"} \cup Terminal :
          /\ s # exch[o]
          /\ exch' = [exch EXCEPT ![o] = s]
          /\ Emit(o, s)
    /\ UNCHANGED <<journal, callVars, wireVars, connected, reconVars, look, crashes>>

-----------------------------------------------------------------------------
(* user_messages: apply_user_stream_message on every message read           *)

StreamConnects(p) ==
    /\ p \in Listeners \cap Authenticated /\ ~connected[p]
    /\ connected' = [connected EXCEPT ![p] = TRUE]
    /\ UNCHANGED <<journal, callVars, wireVars, exch, feed, reconVars, look, crashes>>

\* What was not read is not sent again after the reconnect.
StreamDrops(p) ==
    /\ connected[p]
    /\ connected' = [connected EXCEPT ![p] = FALSE]
    /\ feed' = [feed EXCEPT ![p] = <<>>]
    /\ UNCHANGED <<journal, callVars, wireVars, exch, reconVars, look, crashes>>

ApplyUserStreamMessage(p) ==
    /\ LoopFree(p)
    /\ feed[p] # <<>>
    /\ RecordOrderResult(Head(feed[p]).id, Head(feed[p]).status)
    /\ feed' = [feed EXCEPT ![p] = Tail(@)]
    /\ UNCHANGED <<callVars, wireVars, exch, connected, reconVars, look, crashes>>

-----------------------------------------------------------------------------
(* order_status and cancel: one request, then the snapshot is written       *)

AskStatus(p, o) ==
    /\ p \in Operators \cap Authenticated /\ LoopFree(p) /\ look[p] = {}
    /\ exch[o] # "none"
    /\ look' = [look EXCEPT ![p] = {[id |-> o, status |-> exch[o]]}]
    /\ UNCHANGED <<journal, callVars, wireVars, exch, feedVars, reconVars, crashes>>

AskCancel(p, o) ==
    /\ p \in Operators \cap Authenticated /\ LoopFree(p) /\ look[p] = {}
    /\ exch[o] \in Live
    /\ exch' = [exch EXCEPT ![o] = "CANCELED"]
    /\ Emit(o, "CANCELED")
    /\ look' = [look EXCEPT ![p] = {[id |-> o, status |-> "CANCELED"]}]
    /\ UNCHANGED <<journal, callVars, wireVars, connected, reconVars, crashes>>

ApplyExchangeOrderSnapshot(p) ==
    /\ LoopFree(p)
    /\ \E s \in look[p] : RecordOrderResult(s.id, s.status)
    /\ look' = [look EXCEPT ![p] = {}]
    /\ UNCHANGED <<callVars, wireVars, exch, feedVars, reconVars, crashes>>

LookFails(p) ==
    /\ look[p] # {}
    /\ look' = [look EXCEPT ![p] = {}]
    /\ UNCHANGED <<journal, callVars, wireVars, exch, feedVars, reconVars, crashes>>

-----------------------------------------------------------------------------
(* reconcile                                                                *)

\* The moment the exchange answers get_open_orders.
GetOpenOrders(p) ==
    /\ p \in Reconcilers \cap Authenticated /\ LoopFree(p) /\ phase[p] = "idle"
    /\ phase' = [phase EXCEPT ![p] = "listed"]
    /\ listed' = [listed EXCEPT ![p] =
                     [o \in Orders |-> IF exch[o] \in Live THEN exch[o] ELSE "none"]]
    /\ UNCHANGED <<journal, callVars, wireVars, exch, feedVars, todo, answer, look, crashes>>

\* Mutated: only rows that count as open are refreshed.
ApplyOpenOrders_OpenRowsOnly(p) ==
    /\ LoopFree(p) /\ phase[p] = "listed"
    /\ journal' = [o \in Orders |->
                      IF listed[p][o] # "none" /\ journal[o] \in LocalOpen
                      THEN listed[p][o] ELSE journal[o]]
    /\ phase' = [phase EXCEPT ![p] = "idle"]
    /\ listed' = [listed EXCEPT ![p] = NothingListed]
    /\ UNCHANGED <<callVars, wireVars, exch, feedVars, todo, answer, look, crashes>>

\* The order loop over the response, and the list of the rows it leaves open.
\* FuturesTradingService.reconcile ends here.
ApplyOpenOrders(p) ==
    /\ LoopFree(p) /\ phase[p] = "listed"
    /\ journal' = [o \in Orders |->
                      IF listed[p][o] # "none" /\ journal[o] # "ABSENT"
                      THEN listed[p][o] ELSE journal[o]]
    /\ todo' = [todo EXCEPT ![p] =
                   IF Spot THEN {o \in Orders : journal[o] \in LocalOpen /\ listed[p][o] = "none"}
                           ELSE {}]
    /\ phase' = [phase EXCEPT ![p] = IF todo'[p] = {} THEN "idle" ELSE "checking"]
    /\ listed' = [listed EXCEPT ![p] = NothingListed]
    /\ UNCHANGED <<callVars, wireVars, exch, feedVars, answer, look, crashes>>

\* The moment the exchange answers get_order; "none" is error -2013.
GetOrder(p, o) ==
    /\ LoopFree(p) /\ phase[p] = "checking" /\ answer[p] = {}
    /\ o \in todo[p]
    /\ answer' = [answer EXCEPT ![p] = {[id |-> o, status |-> exch[o]]}]
    /\ UNCHANGED <<journal, callVars, wireVars, exch, feedVars, phase, listed, todo, look, crashes>>

\* Mutated: -2013 deletes the row; -2013 is raised like any other error.
ApplyOrder_Deletes(p) ==
    /\ LoopFree(p) /\ phase[p] = "checking"
    /\ \E a \in answer[p] :
          /\ journal' = [journal EXCEPT ![a.id] = IF a.status = "none" THEN "ABSENT" ELSE a.status]
          /\ todo' = [todo EXCEPT ![p] = @ \ {a.id}]
    /\ answer' = [answer EXCEPT ![p] = {}]
    /\ phase' = [phase EXCEPT ![p] = IF todo'[p] = {} THEN "idle" ELSE "checking"]
    /\ UNCHANGED <<callVars, wireVars, exch, feedVars, listed, look, crashes>>

ApplyOrder_Raises(p) ==
    /\ LoopFree(p) /\ phase[p] = "checking"
    /\ \E a \in answer[p] :
          IF a.status = "none" THEN UNCHANGED journal ELSE RecordOrderResult(a.id, a.status)
    /\ phase' = [phase EXCEPT ![p] = "idle"]
    /\ todo' = [todo EXCEPT ![p] = {}]
    /\ answer' = [answer EXCEPT ![p] = {}]
    /\ UNCHANGED <<callVars, wireVars, exch, feedVars, listed, look, crashes>>

ApplyOrder(p) ==
    /\ LoopFree(p) /\ phase[p] = "checking"
    /\ \E a \in answer[p] :
          /\ RecordOrderResult(a.id, IF a.status = "none" THEN "RECONCILED_MISSING" ELSE a.status)
          /\ todo' = [todo EXCEPT ![p] = @ \ {a.id}]
    /\ answer' = [answer EXCEPT ![p] = {}]
    /\ phase' = [phase EXCEPT ![p] = IF todo'[p] = {} THEN "idle" ELSE "checking"]
    /\ UNCHANGED <<callVars, wireVars, exch, feedVars, listed, look, crashes>>

EndPass(p) ==
    /\ phase' = [phase EXCEPT ![p] = "idle"]
    /\ listed' = [listed EXCEPT ![p] = NothingListed]
    /\ todo' = [todo EXCEPT ![p] = {}]
    /\ answer' = [answer EXCEPT ![p] = {}]

\* Any other error ends the pass, and with it the daemon cycle that ran it; the
\* next cycle starts with a pass of its own (reconcile_on_start).
ReconcileFails(p) ==
    /\ phase[p] # "idle"
    /\ EndPass(p)
    /\ UNCHANGED <<journal, callVars, wireVars, exch, feedVars, look, crashes>>

-----------------------------------------------------------------------------
(* A process dies: its calls, its pass and its connection go, the journal   *)
(* and what is on the wire stay.  A restarted process takes its place.      *)

Crash(p) ==
    /\ crashes < MaxCrashes
    /\ crashes' = crashes + 1
    /\ call' = [o \in Orders |-> IF owner[o] = p THEN "done" ELSE call[o]]
    /\ reply' = [o \in Orders |-> IF owner[o] = p THEN "none" ELSE reply[o]]
    /\ connected' = [connected EXCEPT ![p] = FALSE]
    /\ feed' = [feed EXCEPT ![p] = <<>>]
    /\ look' = [look EXCEPT ![p] = {}]
    /\ EndPass(p)
    /\ UNCHANGED <<journal, mode, owner, request, exch>>

-----------------------------------------------------------------------------

Submission(o) ==
    \/ \E p \in Procs, m \in Modes : Evaluate(p, o, m)
    \/ RecordOrderRequest(o) \/ RecordRejection(o)
    \/ DryRun(o) \/ NoCredentials(o)
    \/ SendTestOrder(o) \/ TestOrderReturns(o)
    \/ PlaceOrder(o) \/ ReceiveReply(o) \/ TransportFails(o)
    \/ CallCancelled(o)

Exchange(o) ==
    \/ Accept(o) \/ Refuse(o) \/ LoseRequest(o)
    \/ Respond(o) \/ RespondUnknown(o) \/ Trade(o)

Stream(p) == StreamConnects(p) \/ StreamDrops(p) \/ ApplyUserStreamMessage(p)

Query(p) ==
    \/ \E o \in Orders : AskStatus(p, o) \/ AskCancel(p, o)
    \/ ApplyExchangeOrderSnapshot(p) \/ LookFails(p)

Reconcile(p) ==
    \/ GetOpenOrders(p) \/ ApplyOpenOrders(p)
    \/ \E o \in Orders : GetOrder(p, o)
    \/ ApplyOrder(p) \/ ReconcileFails(p)

Next ==
    \/ \E o \in Orders : Submission(o) \/ Exchange(o)
    \/ \E p \in Procs : Stream(p) \/ Query(p) \/ Reconcile(p) \/ Crash(p)

Spec == Init /\ [][Next]_vars

(***************************************************************************)
(* A process that reconciles does so again and again: _reconcile_loop on    *)
(* its interval, and where a pass fails the daemon ends the cycle,          *)
(* restarts (auto_restart) and reconciles on start.  Failures of the        *)
(* network are transient: a request that is made again and again is         *)
(* answered in the end, hence the strong fairness of the steps a failure    *)
(* can take the place of.  Synchronous code runs on.  Nothing is assumed    *)
(* of the exchange, of the user stream or of the place-order response.      *)
(***************************************************************************)
ReconcileFairness(p) ==
    /\ WF_vars(GetOpenOrders(p))
    /\ SF_vars(ApplyOpenOrders(p))
    /\ \A o \in Orders : SF_vars(GetOrder(p, o))
    /\ SF_vars(ApplyOrder(p))

SubmissionFairness(o) ==
    WF_vars(RecordOrderRequest(o) \/ RecordRejection(o) \/ DryRun(o)
              \/ NoCredentials(o) \/ SendTestOrder(o) \/ PlaceOrder(o))

FairSpec ==
    /\ Spec
    /\ \A p \in Procs : ReconcileFairness(p)
    /\ \A o \in Orders : SubmissionFairness(o)
-----------------------------------------------------------------------------
(* Properties                                                               *)

\* A row never names an exchange status the order has not had: snapshots,
\* events and responses are applied late and in any order, over each other,
\* but none of them (nor RECONCILED_MISSING handling, nor a crash between two
\* of them) makes the journal claim a fill or a cancel that did not happen.
JournalNeverAhead ==
    \A o \in Orders : journal[o] \in ExchStatus => journal[o] \in History(exch[o])

\* Write-ahead: whatever the exchange has been asked to do, and whatever it
\* still may do with a request in flight, has a row a later process can find
\* and reconcile, through every crash.
RequestsAreJournaled ==
    \A o \in Orders : request[o] # "none" => journal[o] # "ABSENT"

\* evaluate counts the open rows and record_order_request takes the slot in
\* another transaction; no task of the process runs between the two, so the
\* count still holds when the row is written (README "max open orders per
\* symbol").  True of one process.
SlotFreeWhenTaken ==
    [][\A o \in Orders \ RiskReducing :
          call[o] = "admitted" /\ call'[o] = "recorded" => Cardinality(OpenRows) < MaxOpen]_vars

\* Orders the exchange holds open stay within the configured maximum.
ExchangeOpenOrdersCapped ==
    Cardinality({o \in Orders : exch[o] \in Live}) <= MaxOpen

\* The slot of an order the exchange does not hold open is given back for
\* good, whatever was lost, cancelled, timed out or applied out of order:
\* from some time on a row that counts as open is an open order.
SlotsReleased ==
    \A o \in Orders : <>[](journal[o] \in LocalOpen => exch[o] \in Live)

\* An order that rests at the exchange is found again, with the status it has,
\* even after SUBMIT_FAILED, LIVE_ACCEPTED or RECONCILED_MISSING was written.
RestingOrdersTracked ==
    \A o \in Orders : <>[](exch[o] \in Live => journal[o] = exch[o])

\* "The matching engine status is unknown and must be reconciled"
\* (BinanceExecutionUnknown): PENDING_UNKNOWN does not last.
UnknownResolved ==
    \A o \in Orders : journal[o] = "PENDING_UNKNOWN" ~> journal[o] # "PENDING_UNKNOWN"
\* The abstract journal of OrderJournal, and that this module implements it:
\* no order at the exchange before its row, no row ever lost, and nothing
\* written but the program's own outcomes and statuses the order really had.
Journal == INSTANCE OrderJournal WITH view <- journal, truth <- exch
ImplementsJournal == Journal!Spec

-----------------------------------------------------------------------------
(* The inductive invariant behind the safety properties                     *)

\* Where the request of an order can be, given its call.
WireInv ==
    \A o \in Orders :
       /\ call[o] \in {"idle"} \cup Running => request[o] = "none"
       /\ request[o] \in {"none", "flying"} => exch[o] = "none"

\* From record_order_request on the order has a row.
RowInv ==
    \A o \in Orders :
       /\ call[o] \in {"recorded", "refused", "testing", "sent"} => journal[o] # "ABSENT"
       /\ request[o] # "none" => journal[o] # "ABSENT"

\* Everything on its way to the journal was true of the order once.
ReplyHistory == \A o \in Orders : reply[o] \in ExchStatus => reply[o] \in History(exch[o])
FeedHistory ==
    \A p \in Procs : \A i \in 1..Len(feed[p]) :
       feed[p][i].status \in History(exch[feed[p][i].id])
ListedHistory ==
    \A p \in Procs, o \in Orders : listed[p][o] # "none" => listed[p][o] \in History(exch[o])
AnswerHistory ==
    \A p \in Procs : \A a \in answer[p] : a.status # "none" => a.status \in History(exch[a.id])
LookHistory == \A p \in Procs : \A s \in look[p] : s.status \in History(exch[s.id])

HistoryInv ==
    ReplyHistory /\ FeedHistory /\ ListedHistory /\ AnswerHistory /\ LookHistory

\* One call at a time is in its synchronous stretch in a process.
LoopInv ==
    /\ \A o \in Orders : call[o] \notin {"idle", "done"} => owner[o] \in Procs
    /\ \A o, q \in Orders :
          call[o] \in Running /\ call[q] \in Running /\ owner[o] = owner[q] => o = q

JournalInv == TypeOK /\ WireInv /\ RowInv /\ HistoryInv /\ JournalNeverAhead

\* With one process the count evaluate read still stands.
GateInv ==
    \A o \in Orders \ RiskReducing :
       call[o] = "admitted" => Cardinality(OpenRows) < MaxOpen
=============================================================================

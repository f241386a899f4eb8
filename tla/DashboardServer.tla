------------------------------- MODULE DashboardServer -------------------------------
(***************************************************************************)
(* The HTTP server of the dashboard: a thread per request, that may be at  *)
(* any step of its handler when another one goes on.  Browsers ask for     *)
(* snapshots again and again, clients post actions.  The handlers are in   *)
(* Portfolio and StrategyLab; Dashboard puts them together.                *)
(***************************************************************************)
EXTENDS Integers

CONSTANTS
    Browsers, Clients,  \* threads of GET /api/snapshot and of POST /api/actions
    Sessions            \* what is done with the dashboard: whether a page is open in the
                        \* browsers (open), include_portfolio (portfolio), the actions posted
                        \* (posts) and how many (max), the backtests a scan may give (results),
                        \* how often the process is killed (restarts)

Threads == Browsers \cup Clients

\* The step an action starts with, do_POST's own included.
FirstStep ==
    [refresh_portfolio |-> "invalidate", redeem_earn_flexible |-> "invalidate",
     research_scan |-> "scan", generate_research_stack |-> "generate",
     update_profile_params |-> "load", start_stack |-> "load"]

ASSUME ServerAssumption ==
    /\ Browsers \cap Clients = {} /\ "none" \notin Threads
    /\ \A s \in Sessions :
         /\ {s.open, s.portfolio} \subseteq BOOLEAN /\ {s.max, s.restarts} \subseteq Nat
         /\ \A request \in s.posts : request.kind \in DOMAIN FirstStep

VARIABLES
    session,
    pc,         \* the step each thread is at, "idle" between two requests
    job,        \* its locals
    posts       \* actions posted

serverVars == <<session, pc, job, posts>>

NoJob == [kind |-> "none"]

ServerInit ==
    /\ session \in Sessions
    /\ pc = [t \in Threads |-> "idle"] /\ job = [t \in Threads |-> NoJob] /\ posts = 0

Goto(t, step, locals) ==
    /\ pc' = [pc EXCEPT ![t] = step]
    /\ job' = [job EXCEPT ![t] = locals]
    /\ UNCHANGED <<session, posts>>

Answer(t) == Goto(t, "idle", NoJob)

\* do_GET of /api/snapshot, with the free money its overview shows, 0 for none.
DoGet(t) ==
    /\ session.open /\ t \in Browsers /\ pc[t] = "idle"
    /\ Goto(t, IF session.portfolio THEN "portfolio" ELSE "deployment", [kind |-> "snapshot", money |-> 0])

\* do_POST
DoPost(t) ==
    /\ t \in Clients /\ pc[t] = "idle" /\ posts < session.max
    /\ \E request \in session.posts :
         /\ pc' = [pc EXCEPT ![t] = FirstStep[request.kind]]
         /\ job' = [job EXCEPT ![t] = request]
    /\ posts' = posts + 1 /\ session' = session
======================================================================================

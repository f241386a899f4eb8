----------------------------- MODULE OrderJournal -----------------------------
(***************************************************************************)
(* What the order journal promises, without how: truth is the order's      *)
(* status at the exchange, view is what the row of the order says.  An     *)
(* order reaches the exchange only after its row exists, rows stay, and a  *)
(* row only ever takes an outcome the program itself decides on or a       *)
(* status the order really has had.  OrderLifecycle implements it.         *)
(***************************************************************************)
CONSTANT Orders
VARIABLES view, truth

Live == {"NEW", "PARTIALLY_FILLED"}
LocalOutcome == {"LOCAL_PENDING", "LOCAL_REJECTED", "DRY_RUN", "TEST_ACCEPTED",
                 "LIVE_ACCEPTED", "PENDING_UNKNOWN", "SUBMIT_FAILED",
                 "RECONCILED_MISSING"}

\* The statuses an order may take next, and those it has had by now.
After(e) == CASE e = "none" -> {"NEW"}
              [] e = "NEW" -> {"PARTIALLY_FILLED", "FILLED", "CANCELED"}
              [] e = "PARTIALLY_FILLED" -> {"FILLED", "CANCELED"}
              [] OTHER -> {}
Had(e) == CASE e = "none" -> {}
            [] e = "NEW" -> {"NEW"}
            [] e = "PARTIALLY_FILLED" -> Live
            [] OTHER -> Live \cup {e}

Status == {"ABSENT"} \cup LocalOutcome \cup Live \cup {"FILLED", "CANCELED"}

Init == /\ view = [o \in Orders |-> "ABSENT"]
        /\ truth = [o \in Orders |-> "none"]

Open(o) == /\ view[o] = "ABSENT"
           /\ view' = [view EXCEPT ![o] = "LOCAL_PENDING"]
           /\ UNCHANGED truth

Happen(o) == /\ view[o] # "ABSENT"
             /\ \E s \in After(truth[o]) : truth' = [truth EXCEPT ![o] = s]
             /\ UNCHANGED view

\* One transaction, or the loop over one response, may write several rows.
Learn == /\ \E v \in [Orders -> Status] :
               /\ \A o \in Orders :
                     \/ v[o] = view[o]
                     \/ view[o] # "ABSENT" /\ v[o] \in LocalOutcome \cup Had(truth[o])
               /\ view' = v
         /\ UNCHANGED truth

Next == Learn \/ \E o \in Orders : Open(o) \/ Happen(o)

Spec == Init /\ [][Next]_<<view, truth>>
=============================================================================

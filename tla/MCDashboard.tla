---------------------------------- MODULE MCDashboard ----------------------------------
(* Small instances of Dashboard for TLC. *)
EXTENDS Dashboard

Backtest(status, curve, trades, sharpe) ==
    [status |-> status, curve |-> curve, trades |-> trades, sharpe |-> sharpe, turnover |-> 10]
Good == Backtest("OK", <<1000, 1050, 1100>>, <<150, -50>>, 10)
Fair == Backtest("OK", <<1000, 900, 1050>>, <<100, -50>>, 5)
Lucky == Backtest("OK", <<1000, 1000, 1200>>, <<200>>, 10)
Bad == Backtest("OK", <<1000, 950, 800>>, <<-200>>, -10)
Depleted == Backtest("DEPLETED", <<1000, 0>>, <<-1000>>, 0)
Error == [status |-> "ERROR"]

MCNames == {"a", "b", "c"}
MCShipped == <<[name |-> "a", budget |-> 3], [name |-> "b", budget |-> 1]>>

Scan(names, mode, weights, top) ==
    [kind |-> "research_scan", market |-> "spot", names |-> names, mode |-> mode, weights |-> weights, top |-> top]
Auto == Scan(<<"a", "b", "c">>, "auto", <<>>, 2)
Manual == Scan(<<"a", "b", "c">>, "manual", [n \in {"a", "c"} |-> IF n = "a" THEN 2 ELSE 1], 2)
Twice == Scan(<<"a", "a">>, "auto", <<>>, 2)
TwiceManual == [Manual EXCEPT !.names = <<"a", "c", "a">>]
Futures == [Auto EXCEPT !.market = "futures"]
Generate == [kind |-> "generate_research_stack"]
Update(s, rows) == [kind |-> "update_profile_params", stack |-> s, todo |-> rows]
Start(s, rows) == [kind |-> "start_stack", stack |-> s, todo |-> rows]
Redeem(amount) == [kind |-> "redeem_earn_flexible", amount |-> amount, confirmed |-> TRUE]
Row(name, budget) == [name |-> name, budget |-> budget]

All(x, y, z) == [n \in MCNames |-> IF n = "a" THEN x ELSE IF n = "b" THEN y ELSE z]
Session(open, portfolio, actions, max, results, kills) ==
    [open |-> open, portfolio |-> portfolio, posts |-> actions, max |-> max, results |-> results, restarts |-> kills]

MCSessions ==
    {\* redemptions while the overview is polled
     Session(TRUE, TRUE, {Redeem(0), Redeem(1), [Redeem(0) EXCEPT !.confirmed = FALSE], [kind |-> "refresh_portfolio"]},
             2, {All(Good, Bad, Fair)}, 0),
     \* scans of every outcome
     Session(FALSE, FALSE, {Auto, Manual, Twice, TwiceManual, Futures}, 1, {All(x, y, z) : x \in {Good, Lucky, Depleted}, y \in {Fair, Bad, Error}, z \in {Good, Bad, Depleted}}, 0),
     \* scans against generation
     Session(FALSE, FALSE, {Auto, Manual, Twice, Generate}, 3, {All(Good, Bad, Fair), All(Fair, Good, Error)}, 1),
     \* edits of one stack by two
     Session(FALSE, FALSE, {Update("shipped", <<Row("a", 5)>>), Start("shipped", <<Row("a", 6), Row("b", 2)>>)},
             3, {All(Good, Bad, Fair)}, 1),
     \* from the scan to the edited stack under the eyes of a browser
     Session(TRUE, FALSE, {Auto, Generate, Update("lab1", <<Row("a", 5)>>)}, 3, {All(Good, Bad, Fair)}, 1)}
========================================================================================

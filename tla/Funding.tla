---------------------------------- MODULE Funding ----------------------------------
(***************************************************************************)
(* The arithmetic of the Strategy Lab: from the backtests of a scan to     *)
(* scores, from scores or manual weights to budgets, from budgets to the   *)
(* simulated portfolio, and from suggestions to the weights of a stack.    *)
(* Percents and money are whole numbers, rounded where the code rounds to  *)
(* decimals; profit factor and Sharpe ratio are in tenths, scores in       *)
(* ten-thousandths.                                                        *)
(***************************************************************************)
EXTENDS Integers, Sequences, SequencesExt

CONSTANTS
    Capital,    \* initial capital of a backtest and capital of a scan
    Points      \* points of the curve of a backtest that is not depleted

ASSUME CapitalAssumption == Capital \in Nat \ {0} /\ Points \in Nat \ {0}

Larger(a, b) == IF a >= b THEN a ELSE b
Round(a, b) == (2 * a + b) \div (2 * b)
Share(money, part, total) == Round(money * part, total)

\* The numbers of a backtest: a curve of equities, the profit or loss of each trade, its
\* Sharpe ratio and turnover.  Without a losing trade there is no profit factor.
Metrics(result) ==
    LET curve == result.curve
        won == SumFunction(SelectSeq(result.trades, LAMBDA pnl : pnl > 0))
        lost == -SumFunction(SelectSeq(result.trades, LAMBDA pnl : pnl < 0))
        falls == {Share(100, curve[p[1]] - curve[p[2]], curve[p[1]]) :
                    p \in {q \in (DOMAIN curve) \X (DOMAIN curve) : q[1] <= q[2] /\ curve[q[1]] > 0}}
    IN  [ret |-> Share(100, Last(curve) - Capital, Capital), drawdown |-> Max(falls),
         factor |-> IF lost = 0 THEN 0 ELSE Round(10 * won, lost),
         sharpe |-> result.sharpe, turnover |-> result.turnover]

\* _candidate_score: a missing profit factor counts as none.
Score(m) ==
    IF m.ret <= 0 \/ m.factor <= 0 THEN 0
    ELSE Round(m.ret * Larger(m.factor, 10) * Larger(m.sharpe + 15, 5)
                     * Larger(20 - m.drawdown, 1) * Larger(120 - m.turnover, 24), 24)

\* The members of a set in an order, each after those before it; of a sequence, those at
\* some places.
InOrder(set, before) ==
    [k \in 1..Cardinality(set) |-> CHOOSE x \in set : Cardinality({y \in set : <<y, x>> \in before}) = k - 1]
At(seq, places) ==
    LET order == InOrder(places, {p \in places \X places : p[1] < p[2]})
    IN  [k \in DOMAIN order |-> seq[order[k]]]

\* The strategies that completed, the best first; equal ones stay in the order asked for.
Candidates(names, results) ==
    LET completed == {i \in DOMAIN names : results[names[i]].status # "ERROR"}
        row(i) == LET m == Metrics(results[names[i]]) IN [name |-> names[i], score |-> Score(m), ret |-> m.ret]
        better(a, b) == a.score > b.score \/ (a.score = b.score /\ a.ret > b.ret)
        before == {p \in completed \X completed : \/ better(row(p[1]), row(p[2]))
                                                 \/ (~better(row(p[2]), row(p[1])) /\ p[1] < p[2])}
        order == InOrder(completed, before)
    IN  [k \in DOMAIN order |-> row(order[k])]

Budgets(rows, weight(_), total, money) ==
    [i \in DOMAIN rows |-> [name |-> rows[i].name, budget |-> Share(money, weight(rows[i]), total)]]

\* Candidates with a weight share all the capital; weights of no candidate take part.  A
\* weight is given to a strategy's name; that the title does as well is left out.
ManualRows(candidates, weights) ==
    LET weight(c) == IF c.name \in DOMAIN weights THEN weights[c.name] ELSE 0
        total == SumFunction(weights)
        rows == At(candidates, {i \in DOMAIN candidates : weight(candidates[i]) > 0})
    IN  [rows |-> Budgets(rows, weight, total, Capital),
         deployable |-> IF rows = <<>> THEN 0 ELSE Capital]

AutoRows_Unranked(candidates, top) ==   \* mutated: the shares of all that have a score
    LET score(c) == c.score
        positive == At(candidates, {i \in DOMAIN candidates : candidates[i].score > 0})
        rows == SubSeq(positive, 1, Min({top, Len(positive)}))
        money == IF positive = <<>> THEN 0 ELSE Round(85 * Capital, 100)
    IN  [rows |-> Budgets(rows, score, SumFunction([i \in DOMAIN positive |-> positive[i].score]), money),
         deployable |-> money]

\* The best candidates share 85 % of the capital by their scores.
AutoRows(candidates, top) ==
    LET score(c) == c.score
        positive == At(candidates, {i \in DOMAIN candidates : candidates[i].score > 0})
        rows == SubSeq(positive, 1, Min({top, Len(positive)}))
        money == IF positive = <<>> THEN 0 ELSE Round(85 * Capital, 100)
    IN  [rows |-> Budgets(rows, score, SumFunction([i \in DOMAIN rows |-> rows[i].score]), money),
         deployable |-> money]

\* A curve scaled to a budget.
Scaled(curve, budget) == [i \in DOMAIN curve |-> Share(budget, curve[i], Capital)]

\* _portfolio_simulation: the reserve and the funded curves, as many points as the first has.
\* A backtest that ended DEPLETED has a shorter curve: IndexError where it is not the first.
PortfolioSimulation(rows, reserve, results) ==
    LET funded == At(rows, {i \in DOMAIN rows : rows[i].budget > 0})
        length == Len(results[rows[1].name].curve)
        usable(curve) == SubSeq(curve, Larger(1, Len(curve) - length + 1), Len(curve))
        scaled == [k \in DOMAIN funded |-> Scaled(usable(results[funded[k].name].curve), funded[k].budget)]
    IN  IF funded = <<>> THEN [ok |-> TRUE, curve |-> <<>>]
        ELSE IF \E k \in DOMAIN scaled : Len(scaled[k]) < length THEN [ok |-> FALSE, curve |-> <<>>]
        ELSE [ok |-> TRUE,
              curve |-> [i \in 1..length |-> reserve + SumFunction([k \in DOMAIN scaled |-> scaled[k][i]])]]

\* _build_research_state: what a scan leaves, of what the rest of the dashboard uses.
BuildResearchState(request, results) ==
    LET plan(candidates) ==
            IF request.mode = "manual" /\ SumFunction(request.weights) > 0
            THEN ManualRows(candidates, request.weights) ELSE AutoRows(candidates, request.top)
        state(rows, reserve) ==
            [status |-> "whole", request |-> request, rows |-> rows, reserve |-> reserve, stack |-> "none",
             portfolio |-> PortfolioSimulation(rows, reserve, results)]
        funded(p) == state(p.rows, Capital - p.deployable)
    IN  funded(plan(Candidates(request.names, results)))

\* _profile_spot_suggestion: the score of a replay, in hundredths.  The profiles here are
\* spot profiles with all their parameters; the fallback for others is left out.
HistoryScore(m) ==
    Larger(0, 100 * m.ret - 55 * m.drawdown + 120 * m.sharpe + 180 * Larger(m.factor - 10, 0))

\* _deployment_section: the parts of a stack's money its profiles are to have.  A generated
\* stack keeps its ratios, another one follows the scores of its profiles.
SuggestedParts_Scores(generated, budgets, scores) ==     \* mutated: as for any other stack
    IF SumFunction(scores) > 0 THEN scores ELSE [i \in DOMAIN budgets |-> 1]
SuggestedParts(generated, budgets, scores) ==
    IF generated /\ SumFunction(budgets) > 0 THEN budgets
    ELSE IF SumFunction(scores) > 0 THEN scores ELSE [i \in DOMAIN budgets |-> 1]

SuggestedBudgets(parts, money) == [i \in DOMAIN parts |-> Share(money, parts[i], SumFunction(parts))]
====================================================================================

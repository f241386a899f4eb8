---------------------------------- MODULE StrategyLab ----------------------------------
(***************************************************************************)
(* The files the dashboard's requests share: the result of the last scan,  *)
(* the runtime stacks and profiles generated from it and edited since, and *)
(* the suggestions of the deployment section.  Nothing locks them.  A file *)
(* is written over in two steps and empty in between; what two writers     *)
(* wrote over each other may be of no use ("torn").                        *)
(***************************************************************************)
EXTENDS DashboardServer, Funding

CONSTANTS
    Names,          \* strategies
    Generated,      \* directories under runtime/generated there may be
    Shipped,        \* the profiles of the stack of the examples: rows of name and budget
    SuggestSeconds  \* age at which suggestions are computed anew

ASSUME LabAssumption ==
    /\ Generated \cap {"shipped", "none", "research"} = {} /\ SuggestSeconds \in Nat \ {0}
    /\ Shipped \in Seq([name : Names, budget : Nat])

AllStacks == Generated \cup {"shipped"}
ResearchFile == <<"research", "state">>     \* the others are pairs of a stack and a strategy

\* What is edited is a profile of a stack, and what a scan is asked for are strategies, how
\* many of them to fund, and weights: _parse_manual_weights keeps the positive ones.
ASSUME RequestAssumption ==
    \A s \in Sessions : \A request \in s.posts :
        /\ request.kind \in {"update_profile_params", "start_stack"} =>
              request.stack \in AllStacks /\ request.todo \in Seq([name : Names, budget : Nat])
        /\ request.kind = "research_scan" =>
              /\ request.names \in Seq(Names) /\ request.mode \in {"auto", "manual"} /\ request.top \in Nat \ {0}
              /\ IsFiniteSet(DOMAIN request.weights)
              /\ \A name \in DOMAIN request.weights : request.weights[name] \in Nat \ {0}

\* The numbers of a backtest that completed are numbers, and its curve starts with the
\* capital if it has all its points; a backtest that ends depleted has fewer.
ASSUME BacktestAssumption ==
    \A s \in Sessions : \A results \in s.results, name \in Names :
        results[name].status # "ERROR" =>
            /\ Metrics(results[name]) \in [ret : Int, drawdown : Int, factor : Int, sharpe : Int, turnover : Int]
            /\ results[name].curve \in Seq(Int) /\ Len(results[name].curve) \in 1..Points
            /\ Len(results[name].curve) = Points => results[name].curve[1] = Capital

VARIABLES
    research,       \* research_state.json
    stacks,         \* per stack: whether its directory or its file is there, what it lists
    files,          \* per stack and strategy: the profile
    suggestions,    \* deployment_suggestions.json: scores by profile, and its age
    advice,         \* the deployment section of the last snapshot
    made,           \* history: the rows a stack was generated from
    spoiled         \* history: files written by two at once, or cut off by a crash

labVars == <<research, stacks, files, suggestions, advice, made, spoiled>>

Profile(status, budget) == [status |-> status, budget |-> budget]
NamesOf(rows) == [i \in DOMAIN rows |-> rows[i].name]
BudgetsOf(rows) == [i \in DOMAIN rows |-> rows[i].budget]

LabInit ==
    /\ research = [status |-> "absent"]
    /\ stacks = [s \in AllStacks |-> IF s = "shipped" THEN [status |-> "listed", names |-> NamesOf(Shipped)]
                                     ELSE [status |-> "absent", names |-> <<>>]]
    /\ files = [s \in AllStacks |-> [n \in Names |->
                  IF s = "shipped" /\ \E row \in Range(Shipped) : row.name = n
                    THEN Profile("whole", (CHOOSE row \in Range(Shipped) : row.name = n).budget)
                    ELSE Profile("absent", 0)]]
    /\ suggestions = [age |-> SuggestSeconds, scores |-> <<>>]
    /\ advice = [plans |-> <<>>] /\ made = [s \in Generated |-> <<>>] /\ spoiled = {}

\* What a write leaves in a file: over what another one wrote meanwhile, perhaps nothing
\* of use.
Outcomes(status) == IF status = "empty" THEN {"whole"} ELSE {"whole", "torn"}
Spoil(old, text, file) ==
    spoiled' = IF old = "empty" /\ text = "whole" THEN spoiled \ {file} ELSE spoiled \cup {file}

-----------------------------------------------------------------------------
(* _research_scan and _generate_research_stack                              *)

\* The candles or the benchmark fail, or the numbers are combined and kept.
ResearchScan(t) ==
    /\ pc[t] = "scan"
    /\ \/ Answer(t)
       \/ \E results \in session.results :
            LET state == BuildResearchState(job[t], results)
            IN  IF state.portfolio.ok THEN Goto(t, "cut_research", [kind |-> "write", state |-> state])
                ELSE Answer(t)
    /\ UNCHANGED labVars

CutResearch(t) ==
    /\ pc[t] = "cut_research" /\ Goto(t, "paste_research", job[t])
    /\ research' = [status |-> "empty"]
    /\ UNCHANGED <<stacks, files, suggestions, advice, made, spoiled>>

PasteResearch(t) ==
    /\ pc[t] = "paste_research" /\ Answer(t)
    /\ \E status \in Outcomes(research.status) :
         research' = IF status = "whole" THEN job[t].state ELSE [status |-> status]
    /\ Spoil(research.status, "whole", ResearchFile)
    /\ UNCHANGED <<stacks, files, suggestions, advice, made>>

\* The result is read; a directory of that name may be there (FileExistsError).
GenerateStack(t) ==
    /\ pc[t] = "generate"
    /\ IF research.status # "whole" THEN Answer(t) /\ UNCHANGED stacks
       ELSE IF research.request.market # "spot" \/ research.rows = <<>> THEN Answer(t) /\ UNCHANGED stacks
       ELSE \E s \in Generated :
              IF stacks[s].status # "absent" THEN Answer(t) /\ UNCHANGED stacks
              ELSE /\ stacks' = [stacks EXCEPT ![s].status = "directory"]
                   /\ Goto(t, "profiles", [kind |-> "generate", stack |-> s, state |-> research,
                                           todo |-> research.rows])
    /\ UNCHANGED <<research, files, suggestions, advice, made, spoiled>>

\* A profile per row, with the row's money; the same strategy twice is one file.
WriteProfile(t) ==
    /\ pc[t] = "profiles" /\ job[t].todo # <<>>
    /\ LET row == Head(job[t].todo)
       IN  files' = [files EXCEPT ![job[t].stack][row.name] = Profile("whole", row.budget)]
    /\ Goto(t, "profiles", [kind |-> "generate", stack |-> job[t].stack, state |-> job[t].state,
                            todo |-> Tail(job[t].todo)])
    /\ UNCHANGED <<research, stacks, suggestions, advice, made, spoiled>>

WriteStack_First(t) ==  \* mutated: the stack file does not wait for the profiles
    /\ pc[t] = "profiles"
    /\ stacks' = [stacks EXCEPT ![job[t].stack] = [status |-> "listed", names |-> NamesOf(job[t].state.rows)]]
    /\ made' = [made EXCEPT ![job[t].stack] = job[t].state.rows]
    /\ Goto(t, IF job[t].todo = <<>> THEN "check" ELSE "profiles", job[t])
    /\ UNCHANGED <<research, files, suggestions, advice, spoiled>>
WriteStack(t) ==
    /\ pc[t] = "profiles" /\ job[t].todo = <<>>
    /\ stacks' = [stacks EXCEPT ![job[t].stack] = [status |-> "listed", names |-> NamesOf(job[t].state.rows)]]
    /\ made' = [made EXCEPT ![job[t].stack] = job[t].state.rows]
    /\ Goto(t, "check", job[t])
    /\ UNCHANGED <<research, files, suggestions, advice, spoiled>>

\* load_runtime_profile and load_runtime_stack: a profile is whole, a stack lists one or
\* more, none twice.
ProfileLoads(s, name) == files[s][name].status = "whole"
StackLoads(s) ==
    /\ stacks[s].status = "listed" /\ stacks[s].names # <<>> /\ IsInjective(stacks[s].names)
    /\ \A name \in Range(stacks[s].names) : ProfileLoads(s, name)

CheckStack_Fresh(t) ==  \* mutated: the stack is entered in the result there is by now
    /\ pc[t] = "check"
    /\ IF StackLoads(job[t].stack) /\ research.status = "whole"
         THEN Goto(t, "cut_research", [kind |-> "write", state |-> [research EXCEPT !.stack = job[t].stack]])
         ELSE Answer(t)
    /\ UNCHANGED labVars

\* The result read at the start is written back with the name of the stack.
CheckStack(t) ==
    /\ pc[t] = "check"
    /\ IF StackLoads(job[t].stack)
         THEN Goto(t, "cut_research", [kind |-> "write", state |-> [job[t].state EXCEPT !.stack = job[t].stack]])
         ELSE Answer(t)
    /\ UNCHANGED labVars

-----------------------------------------------------------------------------
(* _update_profile_params and the budgets of _start_stack                   *)

\* The target is loaded; what it is told to change comes one after the other.  The
\* process of a stack is started after that (module ControlPlane).
LoadTarget(t) ==
    /\ pc[t] = "load"
    /\ IF \/ job[t].kind = "start_stack" /\ StackLoads(job[t].stack)
          \/ job[t].kind = "update_profile_params" /\ ProfileLoads(job[t].stack, job[t].todo[1].name)
         THEN Goto(t, "read", job[t]) ELSE Answer(t)
    /\ UNCHANGED labVars

\* _write_profile_param: the text with the parameter replaced, unless it has no [params]:
\* an empty text has none, a torn one may have lost it.
ReadProfile(t) ==
    /\ pc[t] = "read"
    /\ IF job[t].todo = <<>> THEN Answer(t)
       ELSE LET row == Head(job[t].todo)
                text == files[job[t].stack][row.name]
            IN  \/ text.status # "whole" /\ Answer(t)
                \/ /\ text.status \notin {"empty", "absent"}
                   /\ Goto(t, "cut", [kind |-> job[t].kind, stack |-> job[t].stack, todo |-> Tail(job[t].todo),
                                       name |-> row.name, text |-> [text EXCEPT !.budget = row.budget]])
    /\ UNCHANGED labVars

CutProfile(t) ==
    /\ pc[t] = "cut" /\ Goto(t, "paste", job[t])
    /\ files' = [files EXCEPT ![job[t].stack][job[t].name] = Profile("empty", 0)]
    /\ UNCHANGED <<research, stacks, suggestions, advice, made, spoiled>>

PasteProfile(t) ==
    /\ pc[t] = "paste" /\ Goto(t, "read", job[t])
    /\ LET old == files[job[t].stack][job[t].name].status
       IN  /\ \E status \in Outcomes(old) :
                files' = [files EXCEPT ![job[t].stack][job[t].name] =
                            IF status = "whole" THEN job[t].text ELSE Profile("torn", 0)]
           /\ Spoil(old, job[t].text.status, <<job[t].stack, job[t].name>>)
    /\ UNCHANGED <<research, stacks, suggestions, advice, made>>

-----------------------------------------------------------------------------
(* _deployment_section                                                      *)

LabTick ==
    /\ suggestions.age < SuggestSeconds
    /\ suggestions' = [suggestions EXCEPT !.age = @ + 1]
    /\ UNCHANGED <<serverVars, research, stacks, files, advice, made, spoiled>>

\* The money of a stack: the free money shown, or what the first stack has by now.
PlanOf(s, seen, scores, money) ==
    LET names == seen[s].names
        parts == SuggestedParts(s # "shipped", seen[s].budgets,
                                [i \in DOMAIN names |-> IF <<s, names[i]>> \in DOMAIN scores
                                                          THEN scores[<<s, names[i]>>] ELSE 0])
    IN  [budgets |-> seen[s].budgets, suggested |-> SuggestedBudgets(parts, money)]

Advise(t, seen, scores, missing, age) ==
    LET first == IF "shipped" \in DOMAIN seen THEN "shipped" ELSE CHOOSE s \in DOMAIN seen : TRUE
        money == IF job[t].money > 0 THEN job[t].money ELSE SumFunction(seen[first].budgets)
    IN  /\ advice' = [money |-> money, age |-> age, missing |-> missing,
                      plans |-> [s \in DOMAIN seen |-> PlanOf(s, seen, scores, money)]]
        /\ Answer(t)

\* The stacks there are, and the suggestions of the file if they are young and complete.
ShowDeployment(t) ==
    /\ pc[t] = "deployment"
    /\ LET seen == [s \in {s \in AllStacks : StackLoads(s)} |->
                      [names |-> stacks[s].names,
                       budgets |-> [i \in DOMAIN stacks[s].names |-> files[s][stacks[s].names[i]].budget]]]
           paths == {path \in AllStacks \X Names : path[1] \in DOMAIN seen /\ path[2] \in Range(seen[path[1]].names)}
       IN  IF seen = <<>> THEN Answer(t) /\ UNCHANGED advice
           ELSE IF suggestions.age < SuggestSeconds /\ paths \subseteq DOMAIN suggestions.scores
             THEN Advise(t, seen, suggestions.scores, {}, suggestions.age)
             ELSE /\ Goto(t, "compute", [kind |-> "snapshot", money |-> job[t].money, seen |-> seen, paths |-> paths,
                                       old |-> suggestions.scores])
                  /\ UNCHANGED advice
    /\ UNCHANGED <<research, stacks, files, suggestions, made, spoiled>>

\* Every profile is loaded and replayed; if one fails, what the file had of them is used,
\* old as it is.
ComputeSuggestions(t) ==
    /\ pc[t] = "compute"
    /\ LET paths == job[t].paths
       IN  \/ /\ \A path \in paths : ProfileLoads(path[1], path[2])
              /\ \E results \in {r \in session.results : \A path \in paths : r[path[2]].status # "ERROR"} :
                   LET scores == [path \in paths |-> HistoryScore(Metrics(results[path[2]]))]
                   IN  suggestions' = [age |-> 0, scores |-> scores] /\ Advise(t, job[t].seen, scores, {}, 0)
           \/ /\ Advise(t, job[t].seen, job[t].old, paths \ DOMAIN job[t].old, SuggestSeconds)
              /\ UNCHANGED suggestions
    /\ UNCHANGED <<research, stacks, files, made, spoiled>>

LabStep(t) ==
    \/ ResearchScan(t) \/ CutResearch(t) \/ PasteResearch(t)
    \/ GenerateStack(t) \/ WriteProfile(t) \/ WriteStack(t) \/ CheckStack(t)
    \/ LoadTarget(t) \/ ReadProfile(t) \/ CutProfile(t) \/ PasteProfile(t)
    \/ ShowDeployment(t) \/ ComputeSuggestions(t)

-----------------------------------------------------------------------------
Near(a, b, distance) == a - b <= distance /\ b - a <= distance

\* Reserve and budgets make up the capital, a cent of rounding for each row, and the
\* simulated portfolio starts with it.
Funded(state) ==
    LET rows == state.rows
        matched == \/ state.request.mode = "auto"
                   \/ /\ DOMAIN state.request.weights \subseteq Range(NamesOf(rows))
                      /\ IsInjective(NamesOf(rows))
        curve == state.portfolio.curve
    IN  matched =>
          /\ Near(state.reserve + SumFunction(BudgetsOf(rows)), Capital, Len(rows))
          /\ Len(curve) = Points => Near(curve[1], Capital, Len(rows))

(* The result of a scan accounts for its capital.  Weights of strategies that are no
   candidates take their money with them, a strategy asked for twice takes its weight's
   money twice, and a depleted backtest bends the curve: these are left out here. *)
PlanIsFunded == research.status = "whole" => Funded(research)

(* What is on disk can be used, whichever requests overlap and wherever the dashboard is
   killed: a stack file lists profiles that have been written, the stack a scan's result
   names was generated from the rows beside it, and a file that cannot be read was written
   by two at once or cut off, or is empty because it is being written. *)
StacksAreWhole ==
    \A s \in AllStacks : stacks[s].status = "listed" =>
        (\A name \in Range(stacks[s].names) : files[s][name].status # "absent")
StackIsOfItsScan ==
    research.status = "whole" /\ research.stack # "none" => made[research.stack] = research.rows
Writing(step) == {t \in Threads : pc[t] = step}
DamageIsExplained ==
    /\ research.status = "torn" => ResearchFile \in spoiled
    /\ research.status = "empty" => ResearchFile \in spoiled \/ Writing("paste_research") # {}
    /\ \A s \in AllStacks, name \in Names :
         /\ files[s][name].status = "torn" => <<s, name>> \in spoiled
         /\ files[s][name].status = "empty" =>
              \/ <<s, name>> \in spoiled
              \/ \E t \in Writing("paste") : job[t].stack = s /\ job[t].name = name
DiskIsConsistent == StacksAreWhole /\ StackIsOfItsScan /\ DamageIsExplained

(* The budgets a snapshot suggests for a stack share the money there is, and "the generated
   stack preserves the Strategy Lab allocation ratios as the default deployment weights"
   (README.md:291) until it is edited. *)
AdviceIsSound ==
    \A s \in DOMAIN advice.plans :
        LET plan == advice.plans[s]
            total == SumFunction(plan.budgets)
        IN  /\ Near(SumFunction(plan.suggested), advice.money, Len(plan.suggested))
            /\ s \in Generated /\ total > 0 /\ plan.budgets = BudgetsOf(made[s]) =>
                 \A i \in DOMAIN plan.budgets :
                    Near(plan.suggested[i] * total, advice.money * made[s][i].budget, total)
========================================================================================

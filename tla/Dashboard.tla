---------------------------------- MODULE Dashboard ----------------------------------
(***************************************************************************)
(* The dashboard as a whole: threads that take steps of their handlers one *)
(* at a time, the time going on, and a process that may be killed and      *)
(* started again.  What is in files stays, what is in memory does not.     *)
(***************************************************************************)
EXTENDS Portfolio, StrategyLab

VARIABLE restarts

vars == <<serverVars, portfolioVars, labVars, restarts>>

Init == ServerInit /\ PortfolioInit /\ LabInit /\ restarts = 0

Serve == \E t \in Threads : (DoGet(t) \/ DoPost(t)) /\ UNCHANGED <<portfolioVars, labVars, restarts>>
PortfolioActs == \E t \in Threads : PortfolioStep(t) /\ UNCHANGED <<labVars, restarts>>
LabActs == \E t \in Threads : LabStep(t) /\ UNCHANGED <<portfolioVars, restarts>>

Tick ==
    \/ PortfolioTick /\ UNCHANGED <<labVars, restarts>>
    \/ LabTick /\ UNCHANGED <<serverVars, portfolioVars, restarts>>

\* The process is killed and started again.
Restart ==
    /\ restarts < session.restarts /\ restarts' = restarts + 1
    /\ pc' = [t \in Threads |-> "idle"] /\ job' = [t \in Threads |-> NoJob]
    /\ cache' = Nothing /\ cachedAge' = CacheSeconds /\ sectionAge' = CacheSeconds /\ holder' = "none"
    /\ reading' = Nothing /\ now' = CacheSeconds /\ readAge' = CacheSeconds
    /\ spoiled' = spoiled \cup (IF research.status = "empty" THEN {ResearchFile} ELSE {})
                          \cup {file \in AllStacks \X Names : files[file[1]][file[2]].status = "empty"}
    /\ UNCHANGED <<session, posts, earn, changedAge, research, stacks, files, suggestions, advice, made>>

Next == Serve \/ PortfolioActs \/ LabActs \/ Tick \/ Restart

Spec == Init /\ [][Next]_vars
======================================================================================

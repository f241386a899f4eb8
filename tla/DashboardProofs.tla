------------------------------ MODULE DashboardProofs ------------------------------
(***************************************************************************)
(* The cache of the portfolio overview, the files of the Strategy Lab and  *)
(* the budgets it suggests, for any number of browsers and clients, any    *)
(* sequence of actions, any time they take and any restart.                *)
(***************************************************************************)
EXTENDS Dashboard, FiniteSetTheorems, TLAPS

PortfolioSteps == {"invalidate", "portfolio", "account", "sections", "find", "redeem"}
LabSteps ==
    {"scan", "cut_research", "paste_research", "generate", "profiles", "check", "load", "read",
     "cut", "paste", "deployment", "compute"}
Steps == PortfolioSteps \cup LabSteps \cup {"idle"}

(* Threads, and what a redemption asks for. *)
ThreadsInv ==
    /\ session \in Sessions
    /\ pc \in [Threads -> Steps] /\ DOMAIN job = Threads
    /\ \A t \in Threads :
         \/ pc[t] = "invalidate" /\ job[t].kind = "redeem_earn_flexible"
         \/ pc[t] \in {"find", "redeem"}
         => job[t].amount \in Nat

(* The thread that reads the overview has the lock, and is a browser's. *)
LockInv ==
    \A t \in Threads : /\ pc[t] \in {"account", "sections"} => holder = t
                       /\ pc[t] = "portfolio" => t \in Browsers

(* What an overview shows on spot is right, or the position has changed since it was read. *)
Current(overview, age) == overview.ok => overview.spot = Money - earn \/ changedAge <= age

(* The time of a cache is taken before its first section is read, and each overview is
   current as of that section. *)
AgesInv ==
    /\ \A t \in Threads : pc[t] = "sections" =>
          reading.full /\ readAge <= now /\ Current(reading, readAge)
    /\ cache.full => sectionAge <= cachedAge
    /\ cache.ok => cache.full
    /\ Current(cache, sectionAge)

OverviewInv == ThreadsInv /\ PortfolioTypeOK /\ LockInv /\ AgesInv

-----------------------------------------------------------------------------
(* A thread that takes a step of its handler goes to another one, and no other thread moves. *)
Moves(t, steps) ==
    /\ session' = session /\ DOMAIN job' = Threads
    /\ pc' \in [Threads -> Steps] /\ pc'[t] \in steps
    /\ \A u \in Threads : u # t => pc'[u] = pc[u] /\ job'[u] = job[u]

(* The steps of the Strategy Lab stay among themselves. *)
LEMMA LabMoves ==
    ASSUME ThreadsInv, NEW t \in Threads, LabStep(t)
    PROVE  pc[t] \in LabSteps /\ Moves(t, LabSteps \cup {"idle"}) /\ UNCHANGED posts
<1> USE DEF Goto, Answer, Moves, ThreadsInv, Steps, PortfolioSteps, LabSteps
<1>1. CASE ResearchScan(t)
  BY <1>1 DEF ResearchScan
<1>2. CASE CutResearch(t) \/ PasteResearch(t)
  BY <1>2 DEF CutResearch, PasteResearch
<1>3. CASE GenerateStack(t)
  BY <1>3 DEF GenerateStack
<1>4. CASE WriteProfile(t) \/ WriteStack(t) \/ CheckStack(t)
  BY <1>4 DEF WriteProfile, WriteStack, CheckStack
<1>5. CASE LoadTarget(t) \/ ReadProfile(t)
  BY <1>5 DEF LoadTarget, ReadProfile
<1>6. CASE CutProfile(t) \/ PasteProfile(t)
  BY <1>6 DEF CutProfile, PasteProfile
<1>7. CASE ShowDeployment(t)
  BY <1>7 DEF ShowDeployment, Advise
<1>8. CASE ComputeSuggestions(t)
  BY <1>8 DEF ComputeSuggestions, Advise
<1> QED BY <1>1, <1>2, <1>3, <1>4, <1>5, <1>6, <1>7, <1>8 DEF LabStep

-----------------------------------------------------------------------------
(* Threads: no step of a handler changes what another request asked for. *)
LEMMA ThreadsInit == Init => ThreadsInv
BY DEF Init, ServerInit, ThreadsInv, Steps

LEMMA LabKeepsThreads ==
    ASSUME ThreadsInv, NEW t \in Threads, Moves(t, LabSteps \cup {"idle"})
    PROVE  ThreadsInv'
BY DEF ThreadsInv, Moves, Steps, LabSteps

LEMMA ServeKeepsThreads ==
    ASSUME ThreadsInv, NEW t \in Threads, DoGet(t) \/ DoPost(t)
    PROVE  ThreadsInv' /\ Moves(t, Steps) /\ pc[t] = "idle"
           /\ pc'[t] \notin {"account", "sections"} /\ (pc'[t] = "portfolio" => t \in Browsers)
<1>1. CASE DoGet(t)
  BY <1>1 DEF DoGet, Goto, Moves, ThreadsInv, Steps, PortfolioSteps, LabSteps
<1>2. CASE DoPost(t)
  <2>1. PICK request \in session.posts :
          /\ pc' = [pc EXCEPT ![t] = FirstStep[request.kind]]
          /\ job' = [job EXCEPT ![t] = request]
    BY <1>2 DEF DoPost
  <2>2. session \in Sessions /\ request.kind \in DOMAIN FirstStep
        /\ (request.kind = "redeem_earn_flexible" => request.amount \in Nat)
    BY <2>1, ServerAssumption, PortfolioAssumption DEF ThreadsInv
  <2>3. FirstStep[request.kind] \in {"invalidate", "scan", "generate", "load"}
    BY <2>2 DEF FirstStep
  <2>4. session' = session /\ pc[t] = "idle"
    BY <1>2 DEF DoPost
  <2> QED BY <2>1, <2>2, <2>3, <2>4 DEF ThreadsInv, Moves, Steps, PortfolioSteps, LabSteps
<1> QED BY <1>1, <1>2

LEMMA PortfolioKeepsThreads ==
    ASSUME ThreadsInv, NEW t \in Threads, PortfolioStep(t)
    PROVE  ThreadsInv' /\ Moves(t, Steps)
<1> USE DEF ThreadsInv, Moves, Goto, Answer, Steps, PortfolioSteps, LabSteps
<1>1. CASE InvalidatePortfolioCache(t)
  BY <1>1 DEF InvalidatePortfolioCache
<1>2. CASE AskPortfolio(t)
  BY <1>2 DEF AskPortfolio, Show
<1>3. CASE ReadAccount(t)
  BY <1>3 DEF ReadAccount, FillCache, Show
<1>4. CASE ReadSections(t)
  BY <1>4 DEF ReadSections, FillCache, Show
<1>5. CASE FindPosition(t)
  BY <1>5 DEF FindPosition
<1>6. CASE RedeemPosition(t)
  BY <1>6 DEF RedeemPosition
<1> QED BY <1>1, <1>2, <1>3, <1>4, <1>5, <1>6 DEF PortfolioStep

LEMMA NextKeepsThreads == ThreadsInv /\ [Next]_vars => ThreadsInv'
<1> SUFFICES ASSUME ThreadsInv, [Next]_vars PROVE ThreadsInv'
  OBVIOUS
<1>1. CASE Serve
  BY <1>1, ServeKeepsThreads DEF Serve
<1>2. CASE PortfolioActs
  BY <1>2, PortfolioKeepsThreads DEF PortfolioActs
<1>3. CASE LabActs
  BY <1>3, LabMoves, LabKeepsThreads DEF LabActs
<1>4. CASE Tick
  BY <1>4 DEF Tick, PortfolioTick, LabTick, serverVars, ThreadsInv
<1>5. CASE Restart
  BY <1>5 DEF Restart, ThreadsInv, Steps
<1>6. CASE UNCHANGED vars
  BY <1>6 DEF vars, serverVars, ThreadsInv
<1> QED BY <1>1, <1>2, <1>3, <1>4, <1>5, <1>6 DEF Next

-----------------------------------------------------------------------------
(* The lock, the ages and the cache. *)
LEMMA OverviewInit == Init => OverviewInv
<1> SUFFICES ASSUME Init PROVE OverviewInv
  OBVIOUS
<1>1. PortfolioTypeOK /\ AgesInv /\ LockInv
  BY PortfolioAssumption, ServerAssumption
     DEF Init, ServerInit, PortfolioInit, PortfolioTypeOK, AgesInv, LockInv, Current, Nothing
<1> QED BY <1>1, ThreadsInit DEF OverviewInv

(* A step that leaves the overview alone, and takes no thread into its reading. *)
LEMMA OtherStepsKeepOverview ==
    ASSUME OverviewInv, NEW t \in Threads, Moves(t, Steps), UNCHANGED portfolioVars,
           pc'[t] \notin {"account", "sections"}, pc'[t] = "portfolio" => t \in Browsers
    PROVE  (PortfolioTypeOK /\ LockInv /\ AgesInv)'
<1>1. PortfolioTypeOK'
  BY DEF OverviewInv, PortfolioTypeOK, portfolioVars, cacheVars
<1>2. LockInv'
  BY DEF OverviewInv, LockInv, Moves, portfolioVars, cacheVars
<1>3. AgesInv'
  BY DEF OverviewInv, AgesInv, Current, Moves, portfolioVars, cacheVars
<1> QED BY <1>1, <1>2, <1>3

(* Time goes on for all ages alike. *)
LEMMA OlderKeepsOrder ==
    \A a, b \in 0..CacheSeconds : /\ Older(a) \in 0..CacheSeconds
                                  /\ a <= b => Older(a) <= Older(b)
BY PortfolioAssumption DEF Older

LEMMA TickKeepsOverview ==
    ASSUME OverviewInv, PortfolioTick
    PROVE  (PortfolioTypeOK /\ LockInv /\ AgesInv)'
<1>1. PortfolioTypeOK /\ LockInv /\ AgesInv
  BY DEF OverviewInv
<1>2. PortfolioTypeOK'
  BY <1>1, OlderKeepsOrder DEF PortfolioTypeOK, PortfolioTick
<1>3. LockInv'
  BY <1>1 DEF LockInv, PortfolioTick, serverVars
<1>4. AgesInv'
  <2>1. \A overview, age : age \in 0..CacheSeconds /\ Current(overview, age)
          => (overview.ok => overview.spot = Money - earn \/ changedAge' <= Older(age))
    BY <1>1, OlderKeepsOrder DEF Current, PortfolioTick, PortfolioTypeOK
  <2> QED BY <1>1, <2>1, OlderKeepsOrder DEF AgesInv, Current, PortfolioTypeOK, PortfolioTick, serverVars
<1> QED BY <1>2, <1>3, <1>4

(* do_POST drops the cache, with the lock. *)
LEMMA InvalidateKeepsOverview ==
    ASSUME OverviewInv, NEW t \in Threads, InvalidatePortfolioCache(t)
    PROVE  (PortfolioTypeOK /\ LockInv /\ AgesInv)'
<1>1. /\ cache' = Nothing /\ cachedAge' = CacheSeconds /\ sectionAge' = CacheSeconds
      /\ UNCHANGED <<earn, changedAge, holder, now, reading, readAge>>
      /\ pc'[t] \in {"find", "idle"} /\ \A u \in Threads : u # t => pc'[u] = pc[u]
  BY DEF InvalidatePortfolioCache, Goto, Answer, OverviewInv, ThreadsInv
<1> QED BY <1>1, PortfolioAssumption
        DEF OverviewInv, PortfolioTypeOK, LockInv, AgesInv, Current, Nothing

(* A snapshot takes the cache, or the lock and the time. *)
LEMMA AskKeepsOverview ==
    ASSUME OverviewInv, NEW t \in Threads, AskPortfolio(t)
    PROVE  (PortfolioTypeOK /\ LockInv /\ AgesInv)'
<1>1. /\ pc[t] = "portfolio" /\ holder = "none"
      /\ UNCHANGED <<earn, changedAge, reading, readAge, cache, cachedAge, sectionAge>>
      /\ \/ pc'[t] = "deployment" /\ UNCHANGED <<holder, now>>
         \/ pc'[t] = "account" /\ holder' = t /\ now' = 0
      /\ \A u \in Threads : u # t => pc'[u] = pc[u]
  BY DEF AskPortfolio, Show, Goto, OverviewInv, ThreadsInv
<1>2. \A u \in Threads : pc[u] \notin {"account", "sections"}
  BY <1>1, ServerAssumption DEF OverviewInv, LockInv
<1>3. t \in Browsers
  BY <1>1 DEF OverviewInv, LockInv
<1>4. PortfolioTypeOK'
  BY <1>1, <1>3, PortfolioAssumption DEF OverviewInv, PortfolioTypeOK
<1>5. LockInv'
  BY <1>1, <1>2, <1>3 DEF OverviewInv, LockInv
<1>6. AgesInv'
  BY <1>1, <1>2 DEF OverviewInv, AgesInv, Current
<1> QED BY <1>4, <1>5, <1>6

(* An overview, complete or failed, goes into the cache with the time taken before it was
   read: it is no older than that. *)
LEMMA FillKeepsOverview ==
    ASSUME OverviewInv, NEW t \in Threads, NEW payload, NEW age \in 0..CacheSeconds,
           pc[t] \in {"account", "sections"}, FillCache(t, payload, age), UNCHANGED <<earn, changedAge>>,
           payload \in [full : BOOLEAN, ok : BOOLEAN, spot : 0..Money, earn : 0..Money],
           payload.full, age <= now, Current(payload, age)
    PROVE  (PortfolioTypeOK /\ LockInv /\ AgesInv)'
<1>1. /\ cache' = payload /\ cachedAge' = now /\ sectionAge' = age
      /\ holder' = "none" /\ reading' = Nothing /\ now' = CacheSeconds /\ readAge' = CacheSeconds
      /\ pc'[t] = "deployment" /\ \A u \in Threads : u # t => pc'[u] = pc[u]
  BY DEF FillCache, Show, Goto, OverviewInv, ThreadsInv
<1>2. \A u \in Threads : u # t => pc[u] \notin {"account", "sections"}
  BY DEF OverviewInv, LockInv
<1>3. PortfolioTypeOK'
  BY <1>1, PortfolioAssumption DEF OverviewInv, PortfolioTypeOK, Nothing
<1>4. LockInv'
  BY <1>1, <1>2 DEF OverviewInv, LockInv
<1>5. AgesInv'
  BY <1>1, <1>2 DEF OverviewInv, AgesInv, Current, Nothing
<1> QED BY <1>3, <1>4, <1>5

LEMMA AccountKeepsOverview ==
    ASSUME OverviewInv, NEW t \in Threads, ReadAccount(t)
    PROVE  (PortfolioTypeOK /\ LockInv /\ AgesInv)'
<1>1. pc[t] = "account" /\ UNCHANGED <<earn, changedAge>> /\ PortfolioTypeOK
  BY DEF ReadAccount, OverviewInv
<1>2. CASE FillCache(t, Failed, now)
  <2>1. /\ Failed \in [full : BOOLEAN, ok : BOOLEAN, spot : 0..Money, earn : 0..Money]
        /\ Failed.full /\ ~Failed.ok
    BY PortfolioAssumption DEF Failed
  <2>2. now \in 0..CacheSeconds /\ now <= now /\ Current(Failed, now)
    BY <1>1, <2>1, PortfolioAssumption DEF PortfolioTypeOK, Current
  <2> QED BY <1>1, <1>2, <2>1, <2>2, FillKeepsOverview
<1>3. CASE /\ reading' = [full |-> TRUE, ok |-> TRUE, spot |-> Money - earn, earn |-> 0]
           /\ readAge' = 0
           /\ Goto(t, "sections", job[t])
           /\ UNCHANGED <<holder, now, cache, cachedAge, sectionAge>>
  <2>1. pc'[t] = "sections" /\ \A u \in Threads : u # t => pc'[u] = pc[u]
    BY <1>3 DEF Goto, OverviewInv, ThreadsInv
  <2>2. holder = t /\ \A u \in Threads : u # t => pc[u] \notin {"account", "sections"}
    BY <1>1 DEF OverviewInv, LockInv
  <2>3. PortfolioTypeOK'
    BY <1>1, <1>3, PortfolioAssumption DEF PortfolioTypeOK
  <2>4. LockInv'
    BY <1>3, <2>1, <2>2 DEF OverviewInv, LockInv
  <2>5. AgesInv'
    BY <1>1, <1>3, <2>1, <2>2, PortfolioAssumption DEF OverviewInv, AgesInv, Current, PortfolioTypeOK
  <2> QED BY <2>3, <2>4, <2>5
<1> QED BY <1>2, <1>3 DEF ReadAccount

LEMMA SectionsKeepOverview ==
    ASSUME OverviewInv, NEW t \in Threads, ReadSections(t)
    PROVE  (PortfolioTypeOK /\ LockInv /\ AgesInv)'
<1>1. /\ pc[t] = "sections" /\ UNCHANGED <<earn, changedAge>> /\ PortfolioTypeOK
      /\ reading.full /\ readAge <= now /\ Current(reading, readAge)
  BY DEF ReadSections, OverviewInv, AgesInv
<1>2. readAge \in 0..CacheSeconds
  BY <1>1 DEF PortfolioTypeOK
<1>3. CASE FillCache(t, Failed, readAge)
  <2>1. /\ Failed \in [full : BOOLEAN, ok : BOOLEAN, spot : 0..Money, earn : 0..Money]
        /\ Failed.full /\ Current(Failed, readAge)
    BY PortfolioAssumption DEF Failed, Current
  <2> QED BY <1>1, <1>2, <1>3, <2>1, FillKeepsOverview
<1>4. CASE \E shown \in {0, earn} : FillCache(t, [reading EXCEPT !.earn = shown], readAge)
  <2>1. PICK shown \in {0, earn} : FillCache(t, [reading EXCEPT !.earn = shown], readAge)
    BY <1>4
  <2> DEFINE payload == [reading EXCEPT !.earn = shown]
  <2>2. /\ payload \in [full : BOOLEAN, ok : BOOLEAN, spot : 0..Money, earn : 0..Money]
        /\ payload.full = reading.full /\ payload.ok = reading.ok /\ payload.spot = reading.spot
    <3>1. reading \in [full : BOOLEAN, ok : BOOLEAN, spot : 0..Money, earn : 0..Money]
          /\ shown \in 0..Money
      BY <1>1, PortfolioAssumption DEF PortfolioTypeOK
    <3> QED BY <3>1
  <2>3. Current(payload, readAge)
    BY <1>1, <1>2, <2>2 DEF Current
  <2>4. FillCache(t, payload, readAge)
    BY <2>1
  <2> HIDE DEF payload
  <2> QED BY <1>1, <1>2, <2>2, <2>3, <2>4, FillKeepsOverview
<1> QED BY <1>3, <1>4 DEF ReadSections

(* A redemption makes what is being read and what is cached outdated as of now. *)
LEMMA RedeemKeepsOverview ==
    ASSUME OverviewInv, NEW t \in Threads, RedeemPosition(t)
    PROVE  (PortfolioTypeOK /\ LockInv /\ AgesInv)'
<1>1. /\ pc[t] = "redeem" /\ pc'[t] = "idle" /\ \A u \in Threads : u # t => pc'[u] = pc[u]
      /\ job[t].amount \in Nat
      /\ changedAge' = (IF earn' = earn THEN changedAge ELSE 0)
      /\ UNCHANGED <<holder, now, reading, readAge, cache, cachedAge, sectionAge>>
  BY DEF RedeemPosition, Answer, Goto, OverviewInv, ThreadsInv, cacheVars
<1>2. PortfolioTypeOK
  BY DEF OverviewInv
<1>3. earn' \in 0..Money
  BY <1>1, <1>2, PortfolioAssumption DEF RedeemPosition, PortfolioTypeOK
<1>4. PortfolioTypeOK'
  BY <1>1, <1>2, <1>3, PortfolioAssumption DEF PortfolioTypeOK
<1>5. LockInv'
  BY <1>1 DEF OverviewInv, LockInv
<1>6. \A overview, age : age \in 0..CacheSeconds /\ Current(overview, age)
        => (overview.ok => overview.spot = Money - earn' \/ changedAge' <= age)
  BY <1>1 DEF Current
<1>7. AgesInv'
  BY <1>1, <1>2, <1>6 DEF OverviewInv, AgesInv, Current, PortfolioTypeOK
<1> QED BY <1>4, <1>5, <1>7

LEMMA PortfolioKeepsOverview ==
    ASSUME OverviewInv, NEW t \in Threads, PortfolioStep(t)
    PROVE  (PortfolioTypeOK /\ LockInv /\ AgesInv)'
<1>1. CASE FindPosition(t)
  <2>1. UNCHANGED portfolioVars /\ pc'[t] \in {"redeem", "idle"}
    BY <1>1 DEF FindPosition, Goto, Answer, OverviewInv, ThreadsInv
  <2>2. Moves(t, Steps)
    BY PortfolioKeepsThreads DEF OverviewInv
  <2> QED BY <2>1, <2>2, OtherStepsKeepOverview
<1> QED BY <1>1, InvalidateKeepsOverview, AskKeepsOverview, AccountKeepsOverview, SectionsKeepOverview,
           RedeemKeepsOverview DEF PortfolioStep

LEMMA NextKeepsOverview == OverviewInv /\ [Next]_vars => OverviewInv'
<1> SUFFICES ASSUME OverviewInv, [Next]_vars PROVE (PortfolioTypeOK /\ LockInv /\ AgesInv)'
  BY NextKeepsThreads DEF OverviewInv
<1>1. CASE Serve
  <2>1. PICK t \in Threads : (DoGet(t) \/ DoPost(t)) /\ UNCHANGED portfolioVars
    BY <1>1 DEF Serve
  <2> QED BY <2>1, ServeKeepsThreads, OtherStepsKeepOverview DEF OverviewInv
<1>2. CASE PortfolioActs
  BY <1>2, PortfolioKeepsOverview DEF PortfolioActs
<1>3. CASE LabActs
  <2>1. PICK t \in Threads : LabStep(t) /\ UNCHANGED portfolioVars
    BY <1>3 DEF LabActs
  <2>2. Moves(t, LabSteps \cup {"idle"})
    BY <2>1, LabMoves DEF OverviewInv
  <2>3. Moves(t, Steps) /\ pc'[t] \notin {"account", "sections", "portfolio"}
    BY <2>2 DEF Moves, Steps, LabSteps
  <2> QED BY <2>1, <2>3, OtherStepsKeepOverview
<1>4. CASE Tick
  <2>1. CASE PortfolioTick
    BY <2>1, TickKeepsOverview
  <2>2. CASE LabTick /\ UNCHANGED <<serverVars, portfolioVars>>
    BY <2>2 DEF OverviewInv, PortfolioTypeOK, LockInv, AgesInv, Current, serverVars, portfolioVars, cacheVars
  <2> QED BY <1>4, <2>1, <2>2 DEF Tick
<1>5. CASE Restart
  BY <1>5, PortfolioAssumption
     DEF Restart, OverviewInv, PortfolioTypeOK, LockInv, AgesInv, Current, Nothing
<1>6. CASE UNCHANGED vars
  BY <1>6 DEF vars, OverviewInv, PortfolioTypeOK, LockInv, AgesInv, Current, serverVars, portfolioVars, cacheVars
<1> QED BY <1>1, <1>2, <1>3, <1>4, <1>5, <1>6 DEF Next

-----------------------------------------------------------------------------
(* What a snapshot may be given from the cache was read, every section of it, less than
   portfolio_cache_seconds ago (_portfolio_section takes the time before it fetches). *)
THEOREM CacheStaysRecent == Spec => [](PortfolioTypeOK /\ CacheIsRecent)
<1>1. OverviewInv => PortfolioTypeOK /\ CacheIsRecent
  BY PortfolioAssumption DEF OverviewInv, PortfolioTypeOK, AgesInv, CacheIsRecent
<1> QED BY <1>1, OverviewInit, NextKeepsOverview, PTL DEF Spec

(* Only _portfolio_section takes a snapshot on, and from the cache only if that is young. *)
LEMMA ShownFromTheCache ==
    ASSUME OverviewInv, [Next]_vars, NEW t \in Browsers, pc[t] = "portfolio", pc'[t] = "deployment"
    PROVE  cache.full /\ cachedAge < CacheSeconds
<1>1. t \in Threads
  BY DEF Threads
<1>2. \A u \in Threads : u # t => ~Moves(u, Steps)
  BY <1>1 DEF Moves
<1>3. CASE Serve
  BY <1>2, <1>3, ServeKeepsThreads DEF Serve, OverviewInv
<1>4. CASE PortfolioActs
  <2>1. PICK u \in Threads : PortfolioStep(u)
    BY <1>4 DEF PortfolioActs
  <2>2. PortfolioStep(t)
    BY <1>2, <2>1, PortfolioKeepsThreads DEF OverviewInv
  <2>3. AskPortfolio(t)
    BY <2>2 DEF PortfolioStep, InvalidatePortfolioCache, ReadAccount, ReadSections, FindPosition, RedeemPosition
  <2> QED BY <1>1, <2>3 DEF AskPortfolio, Goto, OverviewInv, ThreadsInv
<1>5. CASE LabActs
  <2>1. PICK u \in Threads : LabStep(u)
    BY <1>5 DEF LabActs
  <2>2. pc[u] \in LabSteps /\ Moves(u, LabSteps \cup {"idle"})
    BY <2>1, LabMoves DEF OverviewInv
  <2> QED BY <1>1, <2>2 DEF Moves, LabSteps
<1>6. CASE Tick \/ Restart \/ UNCHANGED vars
  BY <1>1, <1>6 DEF Tick, PortfolioTick, LabTick, Restart, vars, serverVars
<1> QED BY <1>3, <1>4, <1>5, <1>6 DEF Next

(* What a snapshot is given from the cache shows every redemption that was done
   portfolio_cache_seconds ago or more, though do_POST drops the cache before it redeems. *)
THEOREM RedemptionsAreShown == Spec => RedemptionIsShown
<1> DEFINE Right == \A t \in Browsers :
              pc[t] = "portfolio" /\ pc'[t] = "deployment" /\ cache.ok /\ changedAge = CacheSeconds =>
                  cache.spot = Money - earn
<1>1. OverviewInv /\ [Next]_vars => [Right]_<<serverVars, portfolioVars>>
  <2> SUFFICES ASSUME OverviewInv, [Next]_vars, NEW t \in Browsers,
                      pc[t] = "portfolio", pc'[t] = "deployment", cache.ok, changedAge = CacheSeconds
               PROVE  cache.spot = Money - earn
    OBVIOUS
  <2>1. cache.full /\ cachedAge < CacheSeconds
    BY ShownFromTheCache
  <2> QED BY <2>1, PortfolioAssumption DEF OverviewInv, AgesInv, Current, PortfolioTypeOK
<1> QED BY <1>1, OverviewInit, NextKeepsOverview, PTL DEF Spec, RedemptionIsShown

-----------------------------------------------------------------------------
(* Sums and shares of money. *)
(* A set of numbers has a least one. *)
LEMMA LeastNat ==
    ASSUME NEW T, T \subseteq Nat, T # {}
    PROVE  \E n \in T : \A m \in T : n <= m
<1>1. PICK t \in T : TRUE
  OBVIOUS
<1> DEFINE F == {0..k : k \in {k \in T : k <= t}}
<1>2. F \subseteq FiniteSubsetsOf(0..t) /\ F # {}
  <2>1. IsFiniteSet(0..t)
    BY <1>1, FS_Interval
  <2>2. \A k \in {k \in T : k <= t} : 0..k \in SUBSET (0..t)
    BY <1>1
  <2>3. F \subseteq SUBSET (0..t) /\ F # {}
    BY <1>1, <2>2
  <2> QED BY <2>1, <2>3, FS_FiniteSubsetsOfFinite
<1>3. \E x \in F : \A y \in F : <<y, x>> \notin StrictSubsetOrdering(0..t)
  BY <1>2, FS_StrictSubsetOrderingWellFounded, WFMin
<1>4. PICK n \in T : n <= t /\ \A y \in F : <<y, 0..n>> \notin StrictSubsetOrdering(0..t)
  BY <1>3
<1>5. ASSUME NEW m \in T, m < n PROVE FALSE
  <2>1. 0..m \in F /\ 0..m \in SUBSET (0..t) /\ 0..n \in SUBSET (0..t)
    BY <1>5, <1>4, <1>1
  <2>2. 0..m \subseteq 0..n /\ 0..m # 0..n
    <3>1. n \in 0..n /\ n \notin 0..m BY <1>5
    <3> QED BY <3>1, <1>5
  <2> QED BY <2>1, <2>2, <1>4 DEF StrictSubsetOrdering
<1> QED BY <1>5

(* So what holds of 0, and of each number after one it holds of, holds of all. *)
LEMMA Induct ==
    ASSUME NEW T, 0 \in T, \A n \in Nat : n \in T => n + 1 \in T
    PROVE  \A n \in Nat : n \in T
  <1>1. ASSUME Nat \ T # {} PROVE FALSE
    <2>1. PICK n \in Nat \ T : \A m \in Nat \ T : n <= m
      BY <1>1, LeastNat
    <2>2. n # 0
      BY <2>1
    <2>3. n - 1 \in Nat /\ n - 1 \in T
      BY <2>1, <2>2
    <2>4. n - 1 + 1 = n
      BY <2>1
    <2>. QED
      BY <2>1, <2>3, <2>4
  <1>. QED
    BY <1>1

(* What a fold takes from a set next, and the sums over the subsets of a set. *)
Pick(s) == CHOOSE x \in s : TRUE
SumIter(it, f, S) ==
    it = [s \in SUBSET S |-> IF s = {} THEN 0 ELSE LET x == CHOOSE x \in s : TRUE IN f[x] + it[s \ {x}]]

(* SumFunction is the sum over the whole domain, of the sums of all its subsets. *)
LEMMA SumIsIter == ASSUME NEW f PROVE SumFunction(f) = (CHOOSE it : SumIter(it, f, DOMAIN f))[DOMAIN f]
  BY DEF SumFunction, SumFunctionOnSet, FoldFunctionOnSet, MapThenFoldSet, SumIter

(* A set of subsets that has the empty one, and each one whose rest it has, has the set. *)
LEMMA SetInduct ==
    ASSUME NEW D, IsFiniteSet(D), NEW T, {} \in T,
           \A s \in (SUBSET D) \ {{}} : s \ {Pick(s)} \in T => s \in T
    PROVE  D \in T
  <1>. DEFINE K == {n \in Nat : \A s \in SUBSET D : Cardinality(s) = n => s \in T}
  <1>1. \A s \in SUBSET D : IsFiniteSet(s) /\ Cardinality(s) \in Nat
    BY FS_Subset, FS_CardinalityType
  <1>2. 0 \in K
    BY <1>1, FS_EmptySet
  <1>3. ASSUME NEW n \in Nat, n \in K PROVE n + 1 \in K
    <2>. SUFFICES ASSUME NEW s \in SUBSET D, Cardinality(s) = n + 1 PROVE s \in T
      OBVIOUS
    <2>1. s # {}
      BY FS_EmptySet
    <2>2. Pick(s) \in s
      BY <2>1 DEF Pick
    <2>3. s \ {Pick(s)} \in SUBSET D /\ Cardinality(s \ {Pick(s)}) = n
      BY <1>1, <2>2, FS_RemoveElement
    <2>4. s \ {Pick(s)} \in T
      BY <1>3, <2>3
    <2>. QED
      BY <2>1, <2>4
  <1>4. \A n \in Nat : n \in K
    <2>. HIDE DEF K
    <2>. QED
      BY <1>2, <1>3, Induct
  <1>. QED
    BY <1>1, <1>4

(* The sums of a function exist. *)
LEMMA SumsExist ==
    ASSUME NEW f, NEW D, IsFiniteSet(D)
    PROVE  \E it : SumIter(it, f, D)
  <1>. DEFINE Small(n) == {s \in SUBSET D : Cardinality(s) <= n}
              next(it, s) == IF s = {} THEN 0 ELSE f[Pick(s)] + it[s \ {Pick(s)}]
              Sums(it, n) == it = [s \in Small(n) |-> next(it, s)]
              K == {n \in Nat : \E it : Sums(it, n)}
  <1>1. \A s \in SUBSET D : IsFiniteSet(s) /\ Cardinality(s) \in Nat
    BY FS_Subset, FS_CardinalityType
  <1>2. \A s \in SUBSET D : Cardinality(s) <= 0 => s = {}
    BY <1>1, FS_EmptySet
  <1>3. ASSUME NEW n \in Nat, NEW s \in Small(n + 1), s # {} PROVE s \ {Pick(s)} \in Small(n)
    <2>1. Pick(s) \in s
      BY <1>3 DEF Pick
    <2>2. s \ {Pick(s)} \in SUBSET D /\ Cardinality(s \ {Pick(s)}) = Cardinality(s) - 1
      BY <1>1, <2>1, FS_RemoveElement
    <2>. QED
      BY <1>1, <2>2
  <1>4. 0 \in K
    <2>. DEFINE it == [s \in Small(0) |-> 0]
    <2>1. \A s \in Small(0) : next(it, s) = 0
      BY <1>2
    <2>2. Sums(it, 0)
      BY <2>1
    <2>. HIDE DEF it, Sums
    <2>. QED
      BY <2>2
  <1>5. ASSUME NEW n \in Nat, n \in K PROVE n + 1 \in K
    <2>1. PICK g : Sums(g, n)
      BY <1>5
    <2>. DEFINE h == [s \in Small(n + 1) |-> next(g, s)]
    <2>2. \A s \in Small(n) : s \in Small(n + 1) /\ h[s] = g[s]
      <3>1. \A s \in Small(n) : s \in Small(n + 1)
        BY <1>1
      <3>2. \A s \in Small(n) : g[s] = next(g, s)
        <4>. HIDE DEF next, Small
        <4>. QED
          BY <2>1
      <3>3. \A s \in Small(n + 1) : h[s] = next(g, s)
        <4>. HIDE DEF next, Small
        <4>. QED
          OBVIOUS
      <3>. HIDE DEF next, Small, h
      <3>. QED
        BY <3>1, <3>2, <3>3
    <2>3. \A s \in Small(n + 1) : next(h, s) = next(g, s)
      <3>1. ASSUME NEW s \in Small(n + 1), s # {} PROVE h[s \ {Pick(s)}] = g[s \ {Pick(s)}]
        <4>1. s \ {Pick(s)} \in Small(n)
          <5>. HIDE DEF Small
          <5>. QED
            BY <1>3, <3>1
        <4>. HIDE DEF Small, h
        <4>. QED
          BY <2>2, <4>1
      <3>. HIDE DEF Small, h
      <3>. QED
        BY <3>1
    <2>4. Sums(h, n + 1)
      <3>. HIDE DEF next, Small
      <3>. QED
        BY <2>3
    <2>. HIDE DEF Sums, h
    <2>. QED
      BY <2>4
  <1>6. Cardinality(D) \in Nat /\ Small(Cardinality(D)) = SUBSET D
    BY <1>1, FS_Subset
  <1>7. \A n \in Nat : n \in K
    <2>. HIDE DEF K
    <2>. QED
      BY <1>4, <1>5, Induct
  <1>8. \E it : Sums(it, Cardinality(D))
    <2>. HIDE DEF Sums
    <2>. QED
      BY <1>6, <1>7
  <1>9. PICK it : it = [s \in SUBSET D |-> next(it, s)]
    <2>. HIDE DEF next, Small
    <2>. QED
      BY <1>6, <1>8
  <1>. QED
    BY <1>9 DEF SumIter, Pick

(* What a sum is made of. *)
LEMMA SumSteps ==
    ASSUME NEW f, IsFiniteSet(DOMAIN f)
    PROVE  \E it : /\ SumFunction(f) = it[DOMAIN f] /\ it[{}] = 0
                   /\ \A s \in (SUBSET DOMAIN f) \ {{}} :
                        Pick(s) \in s /\ it[s] = f[Pick(s)] + it[s \ {Pick(s)}]
  <1>. DEFINE it == CHOOSE it : SumIter(it, f, DOMAIN f)
  <1>1. SumIter(it, f, DOMAIN f)
    BY SumsExist
  <1>2. SumFunction(f) = it[DOMAIN f]
    BY SumIsIter
  <1>. HIDE DEF it
  <1>3. it = [s \in SUBSET DOMAIN f |-> IF s = {} THEN 0 ELSE f[Pick(s)] + it[s \ {Pick(s)}]]
    BY <1>1 DEF SumIter, Pick
  <1>4. \A s \in SUBSET DOMAIN f : it[s] = IF s = {} THEN 0 ELSE f[Pick(s)] + it[s \ {Pick(s)}]
    BY <1>3
  <1>5. \A s \in (SUBSET DOMAIN f) \ {{}} : Pick(s) \in s
    BY DEF Pick
  <1>. QED
    BY <1>2, <1>4, <1>5

(* A sum of numbers that are not negative is one, and none of them is more. *)
LEMMA SumOfNats ==
    ASSUME NEW f, IsFiniteSet(DOMAIN f), \A i \in DOMAIN f : f[i] \in Nat
    PROVE  SumFunction(f) \in Nat /\ \A i \in DOMAIN f : f[i] <= SumFunction(f)
  <1>1. PICK it : /\ SumFunction(f) = it[DOMAIN f] /\ it[{}] = 0
                  /\ \A s \in (SUBSET DOMAIN f) \ {{}} :
                       Pick(s) \in s /\ it[s] = f[Pick(s)] + it[s \ {Pick(s)}]
    BY SumSteps
  <1>. DEFINE T == {s \in SUBSET DOMAIN f : it[s] \in Nat /\ \A i \in s : f[i] <= it[s]}
  <1>2. {} \in T
    BY <1>1
  <1>3. ASSUME NEW s \in (SUBSET DOMAIN f) \ {{}}, s \ {Pick(s)} \in T PROVE s \in T
    <2>. PICK p : p = Pick(s)
      OBVIOUS
    <2>1. p \in s /\ p \in DOMAIN f /\ f[p] \in Nat /\ it[s] = f[p] + it[s \ {p}]
      BY <1>1
    <2>2. it[s \ {p}] \in Nat /\ \A i \in s \ {p} : f[i] <= it[s \ {p}] /\ f[i] \in Nat
      BY <1>3
    <2>3. it[s] \in Nat /\ \A i \in s : f[i] <= it[s]
      BY <2>1, <2>2
    <2>. QED
      BY <2>3
  <1>4. DOMAIN f \in T
    <2>. HIDE DEF T
    <2>. QED
      BY <1>2, <1>3, SetInduct
  <1>. QED
    BY <1>1, <1>4

(* What a division leaves over is less than the divisor. *)
LEMMA Quotient ==
    ASSUME NEW a \in Nat, NEW b \in Nat \ {0}
    PROVE  a \div b \in Nat /\ b * (a \div b) <= a /\ a < b * (a \div b) + b
  OBVIOUS

(* A share is the part of the money, rounded. *)
LEMMA ShareRounds ==
    ASSUME NEW money \in Nat, NEW part \in Nat, NEW total \in Nat \ {0}
    PROVE  /\ Share(money, part, total) \in Nat
           /\ Near(2 * (total * Share(money, part, total)), 2 * (money * part), total)
  <1>. DEFINE a == money * part
              q == (2 * a + total) \div (2 * total)
  <1>1. a \in Nat /\ 2 * a + total \in Nat /\ 2 * total \in Nat \ {0}
    OBVIOUS
  <1>2. q \in Nat /\ (2 * total) * q <= 2 * a + total /\ 2 * a + total < (2 * total) * q + 2 * total
    <2>. HIDE DEF a
    <2>. QED
      BY <1>1, Quotient
  <1>3. (2 * total) * q = 2 * (total * q)
    <2>1. \A n \in Nat : (2 * total) * n = 2 * (total * n)
      OBVIOUS
    <2>. HIDE DEF q
    <2>. QED
      BY <1>2, <2>1
  <1>4. total * q \in Nat
    BY <1>2
  <1>5. Share(money, part, total) = q
    BY DEF Share, Round
  <1>. HIDE DEF q, a
  <1>6. Near(2 * (total * q), 2 * a, total)
    BY <1>1, <1>2, <1>3, <1>4 DEF Near
  <1>. QED
    BY <1>2, <1>5, <1>6 DEF a

(* One more share keeps the distance of half a cent for each. *)
LEMMA ShareAdds ==
    ASSUME NEW money \in Nat, NEW total \in Nat, NEW a \in Nat, NEW b \in Nat, NEW c \in Nat, NEW x \in Nat,
           NEW y \in Nat, Near(2 * (total * a), 2 * (money * b), total * c),
           Near(2 * (total * x), 2 * (money * y), total)
    PROVE  Near(2 * (total * (x + a)), 2 * (money * (y + b)), total * (c + 1))
  <1>1. /\ total * (x + a) = total * x + total * a
        /\ money * (y + b) = money * y + money * b
        /\ total * (c + 1) = total * c + total
    OBVIOUS
  <1>. DEFINE p == total * x
              q == total * a
              r == money * y
              t == money * b
              u == total * c
  <1>2. p \in Nat /\ q \in Nat /\ r \in Nat /\ t \in Nat /\ u \in Nat
    OBVIOUS
  <1>3. Near(2 * q, 2 * t, u) /\ Near(2 * p, 2 * r, total)
    OBVIOUS
  <1>. HIDE DEF p, q, r, t, u
  <1>4. Near(2 * (p + q), 2 * (r + t), u + total)
    BY <1>2, <1>3 DEF Near
  <1>. QED
    BY <1>1, <1>4 DEF p, q, r, t, u

(* Rounded shares of money make it up again, but for half a cent each. *)
LEMMA SharesMakeUp ==
    ASSUME NEW f, NEW money \in Nat, NEW total \in Nat \ {0}, IsFiniteSet(DOMAIN f),
           \A i \in DOMAIN f : f[i] \in Nat
    PROVE  LET shares == [i \in DOMAIN f |-> Share(money, f[i], total)]
           IN  /\ SumFunction(shares) \in Nat
               /\ Near(2 * (total * SumFunction(shares)), 2 * (money * SumFunction(f)),
                       total * Cardinality(DOMAIN f))
  <1>. DEFINE g == [i \in DOMAIN f |-> Share(money, f[i], total)]
  <1>1. /\ DOMAIN g = DOMAIN f
        /\ \A i \in DOMAIN f : g[i] \in Nat /\ Near(2 * (total * g[i]), 2 * (money * f[i]), total)
    BY ShareRounds
  <1>. HIDE DEF g
  <1>2. PICK it : /\ SumFunction(f) = it[DOMAIN f] /\ it[{}] = 0
                  /\ \A s \in (SUBSET DOMAIN f) \ {{}} :
                       Pick(s) \in s /\ it[s] = f[Pick(s)] + it[s \ {Pick(s)}]
    BY SumSteps
  <1>3. PICK is : /\ SumFunction(g) = is[DOMAIN f] /\ is[{}] = 0
                  /\ \A s \in (SUBSET DOMAIN f) \ {{}} :
                       Pick(s) \in s /\ is[s] = g[Pick(s)] + is[s \ {Pick(s)}]
    <2>1. IsFiniteSet(DOMAIN g)
      BY <1>1
    <2>2. \E is : /\ SumFunction(g) = is[DOMAIN g] /\ is[{}] = 0
                  /\ \A s \in (SUBSET DOMAIN g) \ {{}} :
                       Pick(s) \in s /\ is[s] = g[Pick(s)] + is[s \ {Pick(s)}]
      BY <2>1, SumSteps
    <2>. QED
      BY <1>1, <2>2
  <1>. DEFINE OK(s) == /\ it[s] \in Nat /\ is[s] \in Nat
                       /\ Near(2 * (total * is[s]), 2 * (money * it[s]), total * Cardinality(s))
              T == {s \in SUBSET DOMAIN f : OK(s)}
  <1>4. {} \in T
    <2>1. Cardinality({}) = 0 /\ it[{}] = 0 /\ is[{}] = 0
      BY <1>2, <1>3, FS_EmptySet
    <2>2. Near(2 * (total * 0), 2 * (money * 0), total * 0)
      BY DEF Near
    <2>. QED
      BY <2>1, <2>2
  <1>5. ASSUME NEW s \in (SUBSET DOMAIN f) \ {{}}, s \ {Pick(s)} \in T PROVE s \in T
    <2>. PICK p : p = Pick(s)
      OBVIOUS
    <2>1. p \in s /\ p \in DOMAIN f /\ it[s] = f[p] + it[s \ {p}] /\ is[s] = g[p] + is[s \ {p}]
      BY <1>2, <1>3
    <2>2. f[p] \in Nat /\ g[p] \in Nat /\ Near(2 * (total * g[p]), 2 * (money * f[p]), total)
      BY <1>1, <2>1
    <2>3. OK(s \ {p})
      BY <1>5
    <2>4. Cardinality(s \ {p}) \in Nat /\ Cardinality(s) = Cardinality(s \ {p}) + 1
      <3>1. IsFiniteSet(s)
        BY FS_Subset
      <3>2. Cardinality(s) \in Nat /\ IsFiniteSet(s \ {p}) /\ Cardinality(s \ {p}) = Cardinality(s) - 1
        BY <2>1, <3>1, FS_RemoveElement, FS_CardinalityType
      <3>3. Cardinality(s \ {p}) \in Nat
        BY <3>2, FS_CardinalityType
      <3>. QED
        BY <3>2, <3>3
    <2>5. Near(2 * (total * (g[p] + is[s \ {p}])), 2 * (money * (f[p] + it[s \ {p}])),
               total * (Cardinality(s \ {p}) + 1))
      BY <2>2, <2>3, <2>4, ShareAdds
    <2>6. it[s] \in Nat /\ is[s] \in Nat
      BY <2>1, <2>2, <2>3
    <2>7. OK(s)
      BY <2>1, <2>4, <2>5, <2>6
    <2>. QED
      BY <2>7
  <1>6. DOMAIN f \in T
    <2>. HIDE DEF T
    <2>. QED
      BY <1>4, <1>5, SetInduct
  <1>. QED
    BY <1>2, <1>3, <1>6 DEF g

(* So shares of all there is make up the money, a cent of rounding for each. *)
LEMMA SharesOfAll ==
    ASSUME NEW f, NEW money \in Nat, IsFiniteSet(DOMAIN f), \A i \in DOMAIN f : f[i] \in Nat, SumFunction(f) # 0
    PROVE  Near(SumFunction([i \in DOMAIN f |-> Share(money, f[i], SumFunction(f))]), money, Cardinality(DOMAIN f))
  <1>1. SumFunction(f) \in Nat \ {0} /\ Cardinality(DOMAIN f) \in Nat
    BY SumOfNats, FS_CardinalityType
  <1>. DEFINE total == SumFunction(f)
              sum == SumFunction([i \in DOMAIN f |-> Share(money, f[i], total)])
              n == Cardinality(DOMAIN f)
  <1>2. sum \in Nat /\ Near(2 * (total * sum), 2 * (money * total), total * n)
    BY <1>1, SharesMakeUp
  <1>. HIDE DEF total, sum, n
  <1>3. total \in Nat \ {0} /\ n \in Nat
    BY <1>1 DEF total, n
  <1>4. sum - money <= n
    <2>. SUFFICES ASSUME sum > money + n PROVE FALSE
      BY <1>2, <1>3
    <2>1. total * sum >= total * (money + n + 1)
      BY <1>2, <1>3
    <2>2. total * (money + n + 1) = money * total + total * n + total
      BY <1>3
    <2>3. money * total \in Nat /\ total * n \in Nat /\ total * sum \in Nat
      BY <1>2, <1>3
    <2>. QED
      BY <1>2, <1>3, <2>1, <2>2, <2>3 DEF Near
  <1>5. money - sum <= n
    <2>. SUFFICES ASSUME money > sum + n PROVE FALSE
      BY <1>2, <1>3
    <2>1. total * money >= total * (sum + n + 1)
      BY <1>2, <1>3
    <2>2. total * (sum + n + 1) = total * sum + total * n + total /\ total * money = money * total
      BY <1>2, <1>3
    <2>3. money * total \in Nat /\ total * n \in Nat /\ total * sum \in Nat
      BY <1>2, <1>3
    <2>. QED
      BY <1>2, <1>3, <2>1, <2>2, <2>3 DEF Near
  <1>6. Near(sum, money, n)
    BY <1>4, <1>5 DEF Near
  <1>. QED
    BY <1>6 DEF sum, n, total

(* The sums over the subsets of the domain of a function. *)
Sums(it, f) ==
    /\ it[{}] = 0
    /\ \A s \in (SUBSET DOMAIN f) \ {{}} : Pick(s) \in s /\ it[s] = f[Pick(s)] + it[s \ {Pick(s)}]

(* The sum of a function is the one over all its domain. *)
LEMMA SumIsOneOfSums ==
    ASSUME NEW f, IsFiniteSet(DOMAIN f)
    PROVE  \E it : SumFunction(f) = it[DOMAIN f] /\ Sums(it, f)
<1>1. PICK it : /\ SumFunction(f) = it[DOMAIN f] /\ it[{}] = 0
                /\ \A s \in (SUBSET DOMAIN f) \ {{}} :
                     Pick(s) \in s /\ it[s] = f[Pick(s)] + it[s \ {Pick(s)}]
  BY SumSteps
<1>2. Sums(it, f)
  BY <1>1 DEF Sums
<1> QED BY <1>1, <1>2

(* They are whole numbers if the function's values are. *)
LEMMA SumsAreNats ==
    ASSUME NEW f, IsFiniteSet(DOMAIN f), \A i \in DOMAIN f : f[i] \in Nat, NEW it, Sums(it, f)
    PROVE  \A s \in SUBSET DOMAIN f : it[s] \in Nat
<1> SUFFICES ASSUME NEW D \in SUBSET DOMAIN f PROVE it[D] \in Nat
  OBVIOUS
<1>1. IsFiniteSet(D)
  BY FS_Subset
<1> DEFINE T == {s \in SUBSET D : it[s] \in Nat}
<1>2. {} \in T
  BY DEF Sums
<1>3. ASSUME NEW s \in (SUBSET D) \ {{}}, s \ {Pick(s)} \in T PROVE s \in T
  <2>1. Pick(s) \in s /\ it[s] = f[Pick(s)] + it[s \ {Pick(s)}]
    BY DEF Sums
  <2>2. f[Pick(s)] \in Nat
    BY <2>1
  <2> QED BY <1>3, <2>1, <2>2
<1>4. D \in T
  <2> HIDE DEF T
  <2> QED BY <1>1, <1>2, <1>3, SetInduct
<1> QED BY <1>4

(* A sum is taken in any order. *)
LEMMA SumSplits ==
    ASSUME NEW f, IsFiniteSet(DOMAIN f), \A i \in DOMAIN f : f[i] \in Nat, NEW it, Sums(it, f)
    PROVE  \A s \in SUBSET DOMAIN f : it[s] \in Nat /\ \A x \in s : it[s] = f[x] + it[s \ {x}]
<1> DEFINE Whole(s) == it[s] \in Nat /\ \A x \in s : it[s] = f[x] + it[s \ {x}]
           T == {n \in Nat : \A s \in SUBSET DOMAIN f : Cardinality(s) = n => Whole(s)}
<1>0. \A s \in SUBSET DOMAIN f : it[s] \in Nat
  BY SumsAreNats
<1>1. \A s \in SUBSET DOMAIN f : IsFiniteSet(s) /\ Cardinality(s) \in Nat
  BY FS_Subset, FS_CardinalityType
<1>2. 0 \in T
  <2>1. \A s \in SUBSET DOMAIN f : Cardinality(s) = 0 => s = {}
    BY <1>1, FS_EmptySet
  <2>2. it[{}] = 0
    BY DEF Sums
  <2> QED BY <2>1, <2>2
<1>3. ASSUME NEW n \in Nat, n \in T PROVE n + 1 \in T
  <2> SUFFICES ASSUME NEW s \in SUBSET DOMAIN f, Cardinality(s) = n + 1 PROVE Whole(s)
    OBVIOUS
  <2>1. s # {}
    BY FS_EmptySet
  <2> PICK p : p = Pick(s)
    OBVIOUS
  <2>2. p \in s /\ f[p] \in Nat /\ it[s] = f[p] + it[s \ {p}]
    BY <2>1 DEF Sums
  <2>3. \A x \in s : s \ {x} \in SUBSET DOMAIN f /\ Cardinality(s \ {x}) = n
    BY <1>1, FS_RemoveElement
  <2>4. \A x \in s : Whole(s \ {x})
    BY <1>3, <2>3
  <2>5. it[s] \in Nat
    BY <2>2, <2>4
  <2>6. ASSUME NEW x \in s, x # p PROVE it[s] = f[x] + it[s \ {x}]
    <3>1. it[s \ {p}] = f[x] + it[(s \ {p}) \ {x}]
      BY <2>2, <2>4, <2>6
    <3>2. it[s \ {x}] = f[p] + it[(s \ {x}) \ {p}]
      BY <2>2, <2>4, <2>6
    <3>3. (s \ {p}) \ {x} = (s \ {x}) \ {p}
      OBVIOUS
    <3>4. it[(s \ {x}) \ {p}] \in Nat
      BY <1>0
    <3>5. f[x] \in Nat
      OBVIOUS
    <3> QED BY <2>2, <3>1, <3>2, <3>3, <3>4, <3>5
  <2> QED BY <2>2, <2>5, <2>6
<1>4. \A n \in Nat : n \in T
  <2> HIDE DEF T
  <2> QED BY <1>2, <1>3, Induct
<1> QED BY <1>1, <1>4

(* What is summed elsewhere, and all of it that counts, has the same sum. *)
LEMMA SumMoved ==
    ASSUME NEW f, NEW h, NEW g, IsFiniteSet(DOMAIN f), IsFiniteSet(DOMAIN h),
           \A i \in DOMAIN f : f[i] \in Nat,
           g \in [DOMAIN h -> DOMAIN f], \A a, b \in DOMAIN h : g[a] = g[b] => a = b,
           \A a \in DOMAIN h : h[a] = f[g[a]],
           \A i \in DOMAIN f : f[i] = 0 \/ \E a \in DOMAIN h : g[a] = i
    PROVE  SumFunction(h) = SumFunction(f)
<1>1. PICK it : SumFunction(f) = it[DOMAIN f] /\ Sums(it, f)
  BY SumIsOneOfSums
<1>2. PICK ih : SumFunction(h) = ih[DOMAIN h] /\ Sums(ih, h)
  BY SumIsOneOfSums
<1>3. \A s \in SUBSET DOMAIN f : it[s] \in Nat /\ \A x \in s : it[s] = f[x] + it[s \ {x}]
  BY <1>1, SumSplits
<1> DEFINE Image(s) == {g[a] : a \in s}
           all == Image(DOMAIN h)
<1>4. ih[DOMAIN h] = it[all]
  <2> DEFINE T == {s \in SUBSET DOMAIN h : ih[s] = it[Image(s)]}
  <2>1. {} \in T
    <3>1. ih[{}] = 0 /\ it[{}] = 0
      BY <1>1, <1>2 DEF Sums
    <3>2. Image({}) = {}
      OBVIOUS
    <3> HIDE DEF Image
    <3> QED BY <3>1, <3>2
  <2>2. ASSUME NEW s \in (SUBSET DOMAIN h) \ {{}}, s \ {Pick(s)} \in T PROVE s \in T
    <3> PICK p : p = Pick(s)
      OBVIOUS
    <3>1. p \in s /\ ih[s] = h[p] + ih[s \ {p}]
      BY <1>2 DEF Sums
    <3>2. Image(s \ {p}) = Image(s) \ {g[p]}
      BY <3>1
    <3>3. Image(s) \in SUBSET DOMAIN f /\ g[p] \in Image(s)
      BY <3>1
    <3>4. it[Image(s)] = f[g[p]] + it[Image(s) \ {g[p]}]
      BY <1>3, <3>3
    <3>5. ih[s \ {p}] = it[Image(s \ {p})]
      BY <2>2
    <3> QED BY <3>1, <3>2, <3>4, <3>5
  <2>3. DOMAIN h \in T
    <3> HIDE DEF T
    <3> QED BY <2>1, <2>2, SetInduct
  <2> QED BY <2>3
<1>5. it[DOMAIN f] = it[all]
  <2> DEFINE T == {s \in SUBSET DOMAIN f : it[s] = it[s \cap all]}
  <2>0. \A i \in DOMAIN f : i \in all \/ f[i] = 0
    OBVIOUS
  <2>1. {} \in T
    OBVIOUS
  <2>2. ASSUME NEW s \in (SUBSET DOMAIN f) \ {{}}, s \ {Pick(s)} \in T PROVE s \in T
    <3> PICK p : p = Pick(s)
      OBVIOUS
    <3>1. p \in s /\ it[s] = f[p] + it[s \ {p}] /\ it[s \ {p}] = it[(s \ {p}) \cap all]
      BY <1>1, <2>2 DEF Sums
    <3>2. CASE p \in all
      <4>1. (s \ {p}) \cap all = (s \cap all) \ {p} /\ p \in s \cap all /\ s \cap all \in SUBSET DOMAIN f
        BY <3>1, <3>2
      <4>2. it[s \cap all] = f[p] + it[(s \cap all) \ {p}]
        BY <1>3, <4>1
      <4> QED BY <3>1, <4>1, <4>2
    <3>3. CASE p \notin all
      <4>1. (s \ {p}) \cap all = s \cap all
        BY <3>3
      <4>2. f[p] = 0
        BY <2>0, <3>1, <3>3
      <4>3. it[s \cap all] \in Nat
        BY <1>3
      <4> QED BY <3>1, <4>1, <4>2, <4>3
    <3> QED BY <3>2, <3>3
  <2>3. DOMAIN f \in T
    <3> HIDE DEF T
    <3> QED BY <2>1, <2>2, SetInduct
  <2>4. DOMAIN f \cap all = all
    OBVIOUS
  <2> QED BY <2>3, <2>4
<1> QED BY <1>1, <1>2, <1>4, <1>5

-----------------------------------------------------------------------------
(* The plan of a scan: candidates in the order of their scores, rows of money for some of    *)
(* them, and the simulated portfolio.  A list that is sorted or filtered has a member for   *)
(* each of the places taken, in an order that is total; a sum over it is the sum over those *)
(* places.                                                                                  *)
Row == [name : Names, budget : Nat]

(* A strict order of a finite set puts it in a row, each member once. *)
LEMMA InOrderIsBijection ==
    ASSUME NEW S, IsFiniteSet(S), NEW before,
           \A x \in S : <<x, x>> \notin before,
           \A x, y \in S : x = y \/ <<x, y>> \in before \/ <<y, x>> \in before,
           \A x, y, z \in S : <<x, y>> \in before /\ <<y, z>> \in before => <<x, z>> \in before
    PROVE  /\ InOrder(S, before) \in [1..Cardinality(S) -> S]
           /\ \A j, k \in 1..Cardinality(S) : InOrder(S, before)[j] = InOrder(S, before)[k] => j = k
           /\ \A x \in S : \E k \in 1..Cardinality(S) : InOrder(S, before)[k] = x
<1> DEFINE n == Cardinality(S)
           Below(x) == {y \in S : <<y, x>> \in before}
           rank == [x \in S |-> Cardinality(Below(x))]
           order == InOrder(S, before)
<1>1. n \in Nat
  BY FS_CardinalityType
<1>2. \A x \in S : Below(x) \in SUBSET S /\ x \notin Below(x)
  OBVIOUS
<1>3. \A x \in S : IsFiniteSet(Below(x)) /\ Cardinality(Below(x)) \in Nat
  <2> HIDE DEF Below
  <2> QED BY <1>2, FS_Subset, FS_CardinalityType
<1>4. \A x \in S : Cardinality(Below(x)) \in 0..n - 1
  <2> SUFFICES ASSUME NEW x \in S PROVE Cardinality(Below(x)) \in 0..n - 1
    OBVIOUS
  <2> HIDE DEF Below
  <2>1. Cardinality(Below(x)) <= n /\ Cardinality(Below(x)) # n
    BY <1>2, FS_Subset
  <2> QED BY <1>1, <1>3, <2>1
<1>5. ASSUME NEW x \in S, NEW y \in S, <<x, y>> \in before PROVE Cardinality(Below(x)) < Cardinality(Below(y))
  <2>1. Below(x) \in SUBSET Below(y) /\ x \in Below(y) /\ x \notin Below(x)
    BY <1>5
  <2> HIDE DEF Below
  <2>2. Cardinality(Below(x)) <= Cardinality(Below(y)) /\ Cardinality(Below(x)) # Cardinality(Below(y))
    BY <1>3, <2>1, FS_Subset
  <2> QED BY <1>3, <2>2
<1>6. \A x, y \in S : Cardinality(Below(x)) = Cardinality(Below(y)) => x = y
  <2> SUFFICES ASSUME NEW x \in S, NEW y \in S, x # y PROVE Cardinality(Below(x)) # Cardinality(Below(y))
    OBVIOUS
  <2>1. <<x, y>> \in before \/ <<y, x>> \in before
    OBVIOUS
  <2> HIDE DEF Below
  <2> QED BY <1>3, <1>5, <2>1
<1>7. rank \in [S -> 0..n - 1] /\ \A x, y \in S : rank[x] = rank[y] => x = y
  <2> HIDE DEF Below
  <2> QED BY <1>4, <1>6
<1>8. \A m \in 0..n - 1 : \E x \in S : rank[x] = m
  <2> HIDE DEF rank
  <2>1. rank \in Injection(S, 0..n - 1)
    BY <1>7 DEF Injection, IsInjective
  <2>2. IsFiniteSet(0..n - 1) /\ Cardinality(0..n - 1) = n
    <3>1. 0 \in Int /\ n - 1 \in Int
      BY <1>1
    <3>2. IsFiniteSet(0..n - 1) /\ Cardinality(0..n - 1) = IF 0 > n - 1 THEN 0 ELSE n - 1 - 0 + 1
      BY <3>1, FS_Interval
    <3> QED BY <1>1, <3>2
  <2>3. rank \in Surjection(S, 0..n - 1)
    BY <2>1, <2>2, FS_Injection
  <2> QED BY <2>3 DEF Surjection
<1>9. order = [k \in 1..n |-> CHOOSE x \in S : Cardinality({y \in S : <<y, x>> \in before}) = k - 1]
  BY DEF InOrder
<1>10. \A k \in 1..n : order[k] \in S /\ rank[order[k]] = k - 1
  <2> SUFFICES ASSUME NEW k \in 1..n PROVE order[k] \in S /\ rank[order[k]] = k - 1
    OBVIOUS
  <2>1. \E x \in S : rank[x] = k - 1
    <3>1. k - 1 \in 0..n - 1
      BY <1>1
    <3> HIDE DEF rank
    <3> QED BY <1>8, <3>1
  <2>2. order[k] = CHOOSE x \in S : Cardinality(Below(x)) = k - 1
    BY <1>9
  <2>3. \E x \in S : Cardinality(Below(x)) = k - 1
    BY <2>1
  <2> HIDE DEF order, Below
  <2>4. order[k] \in S /\ Cardinality(Below(order[k])) = k - 1
    BY <2>2, <2>3
  <2> QED BY <2>4
<1>11. order \in [1..n -> S]
  BY <1>9, <1>10
<1> HIDE DEF order, rank, n
<1>12. \A j, k \in 1..n : order[j] = order[k] => j = k
  BY <1>1, <1>10
<1>13. ASSUME NEW x \in S PROVE \E k \in 1..n : order[k] = x
  <2>1. rank[x] \in 0..n - 1
    BY <1>7
  <2> PICK k \in 1..n : k = rank[x] + 1
    BY <1>1, <2>1
  <2>2. order[k] \in S /\ rank[order[k]] = rank[x]
    BY <1>1, <1>10, <2>1
  <2> QED BY <1>7, <2>2
<1> QED BY <1>11, <1>12, <1>13 DEF order, n

(* g numbers the places from 1 to m, each once; the list has what the sequence has there. *)
Numbers(g, m, places) ==
    /\ m \in Nat /\ g \in [1..m -> places] /\ \A j, k \in 1..m : g[j] = g[k] => j = k
    /\ \A i \in places : \E k \in 1..m : g[k] = i
Lists(list, seq, g, m) == list = [k \in 1..m |-> seq[g[k]]]

(* At takes each of the places once. *)
LEMMA AtIsNumbered ==
    ASSUME NEW seq, NEW places, IsFiniteSet(places), places \subseteq Int
    PROVE  \E m, g : Numbers(g, m, places) /\ Lists(At(seq, places), seq, g, m)
<1> DEFINE before == {p \in places \X places : p[1] < p[2]}
           g == InOrder(places, before)
           m == Cardinality(places)
<1>1. /\ \A x \in places : <<x, x>> \notin before
      /\ \A x, y \in places : x = y \/ <<x, y>> \in before \/ <<y, x>> \in before
      /\ \A x, y, z \in places : <<x, y>> \in before /\ <<y, z>> \in before => <<x, z>> \in before
  OBVIOUS
<1>2. At(seq, places) = [k \in DOMAIN g |-> seq[g[k]]]
  BY DEF At
<1> HIDE DEF before
<1>3. /\ g \in [1..m -> places]
      /\ \A j, k \in 1..m : g[j] = g[k] => j = k
      /\ \A i \in places : \E k \in 1..m : g[k] = i
  BY <1>1, InOrderIsBijection
<1>4. m \in Nat
  BY FS_CardinalityType
<1> HIDE DEF g, m
<1>5. Numbers(g, m, places)
  BY <1>3, <1>4 DEF Numbers
<1>6. Lists(At(seq, places), seq, g, m)
  BY <1>2, <1>3 DEF Lists
<1> QED BY <1>5, <1>6

Candidate == [name : Names, score : Nat, ret : Int]
Ranked(candidates, n) == candidates \in [1..n -> Candidate]

(* A score is not negative. *)
LEMMA ScoreIsNat ==
    ASSUME NEW m \in [ret : Int, drawdown : Int, factor : Int, sharpe : Int, turnover : Int]
    PROVE  Score(m) \in Nat
<1>1. ASSUME NEW a \in Int, NEW b \in Int, NEW c \in Nat PROVE Larger(a, b) \in Int /\ (b \in Nat => Larger(a, b) \in Nat)
  BY DEF Larger
<1>2. CASE m.ret <= 0 \/ m.factor <= 0
  BY <1>2 DEF Score
<1>3. CASE m.ret > 0 /\ m.factor > 0
  <2> DEFINE a == m.ret
             b == Larger(m.factor, 10)
             c == Larger(m.sharpe + 15, 5)
             d == Larger(20 - m.drawdown, 1)
             e == Larger(120 - m.turnover, 24)
             product == a * b * c * d * e
  <2>1. a \in Nat /\ b \in Nat /\ c \in Nat /\ d \in Nat /\ e \in Nat
    BY <1>3 DEF Larger
  <2>2. Score(m) = Round(product, 24)
    BY <1>3 DEF Score
  <2> HIDE DEF a, b, c, d, e
  <2>3. a * b \in Nat
    BY <2>1
  <2>4. a * b * c \in Nat
    BY <2>1, <2>3
  <2>5. a * b * c * d \in Nat
    BY <2>1, <2>4
  <2>6. product \in Nat
    BY <2>1, <2>5
  <2> HIDE DEF product
  <2>7. (2 * product + 24) \div (2 * 24) \in Nat
    <3>1. 2 * product + 24 \in Nat /\ 2 * 24 \in Nat \ {0}
      BY <2>6
    <3> QED BY <3>1, Quotient
  <2> QED BY <2>2, <2>7 DEF Round
<1> QED BY <1>2, <1>3

(* The candidates of a scan are strategies that completed. *)
LEMMA CandidatesAreRanked ==
    ASSUME NEW s \in Sessions, NEW results \in s.results, NEW names \in Seq(Names)
    PROVE  \E n \in Nat : /\ Ranked(Candidates(names, results), n)
                          /\ \A k \in 1..n : results[Candidates(names, results)[k].name].status # "ERROR"
<1> DEFINE completed == {i \in DOMAIN names : results[names[i]].status # "ERROR"}
           metrics(i) == Metrics(results[names[i]])
           row(i) == [name |-> names[i], score |-> Score(metrics(i)), ret |-> metrics(i).ret]
           better(a, b) == a.score > b.score \/ (a.score = b.score /\ a.ret > b.ret)
           before == {p \in completed \X completed : \/ better(row(p[1]), row(p[2]))
                                                    \/ (~better(row(p[2]), row(p[1])) /\ p[1] < p[2])}
           order == InOrder(completed, before)
           n == Cardinality(completed)
<1>1. Candidates(names, results) = [k \in DOMAIN order |-> row(order[k])]
  BY DEF Candidates
<1>2. IsFiniteSet(completed) /\ completed \subseteq Nat /\ \A i \in completed : names[i] \in Names
  <2>1. DOMAIN names = 1..Len(names) /\ Len(names) \in Nat /\ \A i \in DOMAIN names : names[i] \in Names
    OBVIOUS
  <2>2. IsFiniteSet(DOMAIN names)
    BY <2>1, FS_Interval
  <2>3. completed \in SUBSET DOMAIN names
    OBVIOUS
  <2> HIDE DEF completed
  <2> QED BY <2>1, <2>2, <2>3, FS_Subset
<1>3. \A i \in completed : results[names[i]].status # "ERROR"
  OBVIOUS
<1> HIDE DEF completed
<1>4. \A i \in completed : metrics(i) \in [ret : Int, drawdown : Int, factor : Int, sharpe : Int, turnover : Int]
  BY <1>2, <1>3, BacktestAssumption
<1>5. \A i \in completed : Score(metrics(i)) \in Nat /\ metrics(i).ret \in Int
  <2> HIDE DEF metrics
  <2> QED BY <1>4, ScoreIsNat
<1> HIDE DEF metrics
<1>6. \A i \in completed : row(i) \in Candidate /\ row(i).score \in Nat /\ row(i).ret \in Int /\ row(i).name = names[i]
  BY <1>2, <1>5 DEF Candidate
<1> HIDE DEF row
<1>7. /\ \A x \in completed : <<x, x>> \notin before
      /\ \A x, y \in completed : x = y \/ <<x, y>> \in before \/ <<y, x>> \in before
      /\ \A x, y, z \in completed : <<x, y>> \in before /\ <<y, z>> \in before => <<x, z>> \in before
  <2>1. \A x, y \in completed : <<x, y>> \in before <=>
          \/ better(row(x), row(y)) \/ (~better(row(y), row(x)) /\ x < y)
    OBVIOUS
  <2>2. \A x \in completed : x \in Int /\ row(x).score \in Int /\ row(x).ret \in Int
    BY <1>2, <1>6
  <2> HIDE DEF before
  <2>3. \A x \in completed : <<x, x>> \notin before
    BY <2>1, <2>2
  <2>4. ASSUME NEW x \in completed, NEW y \in completed, x # y
        PROVE  <<x, y>> \in before \/ <<y, x>> \in before
    <3>1. /\ x \in Int /\ row(x).score \in Int /\ row(x).ret \in Int
          /\ y \in Int /\ row(y).score \in Int /\ row(y).ret \in Int
      BY <2>2
    <3>2. \/ better(row(x), row(y)) \/ (~better(row(y), row(x)) /\ x < y)
          \/ better(row(y), row(x)) \/ (~better(row(x), row(y)) /\ y < x)
      BY <2>4, <3>1
    <3> QED BY <2>1, <3>2
  <2>5. ASSUME NEW x \in completed, NEW y \in completed, NEW z \in completed,
               <<x, y>> \in before, <<y, z>> \in before
        PROVE  <<x, z>> \in before
    <3>1. /\ better(row(x), row(y)) \/ (~better(row(y), row(x)) /\ x < y)
          /\ better(row(y), row(z)) \/ (~better(row(z), row(y)) /\ y < z)
      BY <2>1, <2>5
    <3>2. /\ x \in Int /\ row(x).score \in Int /\ row(x).ret \in Int
          /\ y \in Int /\ row(y).score \in Int /\ row(y).ret \in Int
          /\ z \in Int /\ row(z).score \in Int /\ row(z).ret \in Int
      BY <2>2
    <3>3. better(row(x), row(z)) \/ (~better(row(z), row(x)) /\ x < z)
      BY <3>1, <3>2
    <3> QED BY <2>1, <3>3
  <2> QED BY <2>3, <2>4, <2>5
<1> HIDE DEF before
<1>8. order \in [1..n -> completed]
  BY <1>2, <1>7, InOrderIsBijection
<1>9. n \in Nat
  BY <1>2, FS_CardinalityType
<1> HIDE DEF order, n
<1>10. Ranked(Candidates(names, results), n)
  BY <1>1, <1>6, <1>8 DEF Ranked
<1>11. \A k \in 1..n : results[Candidates(names, results)[k].name].status # "ERROR"
  <2> SUFFICES ASSUME NEW k \in 1..n PROVE results[Candidates(names, results)[k].name].status # "ERROR"
    OBVIOUS
  <2>1. order[k] \in completed /\ Candidates(names, results)[k] = row(order[k])
    BY <1>1, <1>8
  <2> QED BY <1>3, <1>6, <2>1
<1> QED BY <1>9, <1>10, <1>11

(* Rows of chosen candidates, each with its share of the money. *)
RowsOf(chosen, part, total, money) ==
    [i \in DOMAIN chosen |-> [name |-> chosen[i].name, budget |-> Share(money, part[i], total)]]

Weighed(part, m) == part \in [1..m -> Nat]

(* They are rows, one for each. *)
LEMMA RowsAreTyped ==
    ASSUME NEW m \in Nat, NEW chosen, Ranked(chosen, m), NEW part, Weighed(part, m),
           NEW total \in Nat, m # 0 => total # 0, NEW money \in Nat
    PROVE  /\ RowsOf(chosen, part, total, money) \in Seq(Row) /\ Len(RowsOf(chosen, part, total, money)) = m
           /\ \A i \in 1..m : RowsOf(chosen, part, total, money)[i].name = chosen[i].name
<1> DEFINE row(i) == [name |-> chosen[i].name, budget |-> Share(money, part[i], total)]
           rows == RowsOf(chosen, part, total, money)
<1>1. rows = [i \in 1..m |-> row(i)]
  BY DEF RowsOf, Ranked
<1>2. \A i \in 1..m : row(i) \in Row /\ row(i).name = chosen[i].name /\ row(i).budget = Share(money, part[i], total)
  <2> SUFFICES ASSUME NEW i \in 1..m
               PROVE  row(i) \in Row /\ row(i).name = chosen[i].name /\ row(i).budget = Share(money, part[i], total)
    OBVIOUS
  <2>1. total \in Nat \ {0} /\ part[i] \in Nat /\ chosen[i].name \in Names
    BY DEF Candidate, Ranked, Weighed
  <2>2. Share(money, part[i], total) \in Nat
    BY <2>1, ShareRounds
  <2> QED BY <2>1, <2>2 DEF Row
<1> HIDE DEF row, rows
<1>3. rows \in [1..m -> Row] /\ DOMAIN rows = 1..m
  BY <1>1, <1>2
<1>4. rows \in Seq(Row) /\ Len(rows) = m
  <2> HIDE DEF Row
  <2> QED BY <1>3
<1> QED BY <1>1, <1>2, <1>4 DEF rows

(* Shares of the money by all parts there are make it up, a cent of rounding for each. *)
LEMMA RowsShareMoney ==
    ASSUME NEW m \in Nat \ {0}, NEW chosen, Ranked(chosen, m), NEW part, Weighed(part, m),
           SumFunction(part) # 0, NEW money \in Nat
    PROVE  /\ SumFunction(BudgetsOf(RowsOf(chosen, part, SumFunction(part), money))) \in Nat
           /\ Near(SumFunction(BudgetsOf(RowsOf(chosen, part, SumFunction(part), money))), money, m)
<1> DEFINE total == SumFunction(part)
           budgets == BudgetsOf(RowsOf(chosen, part, total, money))
<1>1. DOMAIN part = 1..m /\ IsFiniteSet(1..m) /\ Cardinality(1..m) = m /\ \A i \in DOMAIN part : part[i] \in Nat
  <2>1. IsFiniteSet(1..m) /\ Cardinality(1..m) = IF 1 > m THEN 0 ELSE m - 1 + 1
    BY FS_Interval
  <2> QED BY <2>1 DEF Weighed
<1>2. total \in Nat \ {0}
  BY <1>1, SumOfNats
<1> HIDE DEF total
<1>3. budgets = [i \in 1..m |-> Share(money, part[i], total)]
  BY DEF RowsOf, BudgetsOf, Ranked
<1>4. \A i \in 1..m : Share(money, part[i], total) \in Nat
  BY <1>2, ShareRounds DEF Weighed
<1> HIDE DEF budgets
<1>5. SumFunction(budgets) \in Nat
  <2>1. IsFiniteSet(DOMAIN budgets) /\ \A i \in DOMAIN budgets : budgets[i] \in Nat
    BY <1>1, <1>3, <1>4
  <2> QED BY <2>1, SumOfNats
<1>6. Near(SumFunction(budgets), money, m)
  <2>1. budgets = [i \in DOMAIN part |-> Share(money, part[i], SumFunction(part))]
    BY <1>1, <1>3 DEF total
  <2>2. IsFiniteSet(DOMAIN part) /\ SumFunction(part) # 0 /\ Cardinality(DOMAIN part) = m
    BY <1>1
  <2> QED BY <1>1, <2>1, <2>2, SharesOfAll
<1> QED BY <1>5, <1>6 DEF budgets, total

(* Those candidates of a scan at some places are candidates. *)
LEMMA ChosenAreRanked ==
    ASSUME NEW n \in Nat, NEW candidates, Ranked(candidates, n), NEW places \in SUBSET (1..n)
    PROVE  \E m \in Nat : /\ Ranked(At(candidates, places), m)
                          /\ \A k \in 1..m : \E i \in places : At(candidates, places)[k] = candidates[i]
                          /\ m = 0 <=> places = {}
<1> DEFINE chosen == At(candidates, places)
<1>1. IsFiniteSet(places) /\ places \subseteq Int
  <2>1. IsFiniteSet(1..n)
    BY FS_Interval
  <2>2. IsFiniteSet(places)
    BY <2>1, FS_Subset
  <2>3. places \subseteq Int
    OBVIOUS
  <2> QED BY <2>2, <2>3
<1>2. PICK m, g : Numbers(g, m, places) /\ Lists(chosen, candidates, g, m)
  BY <1>1, AtIsNumbered
<1>3. /\ m \in Nat /\ g \in [1..m -> places] /\ \A i \in places : \E k \in 1..m : g[k] = i
      /\ chosen = [k \in 1..m |-> candidates[g[k]]]
  BY <1>2 DEF Numbers, Lists
<1> HIDE DEF chosen
<1>4. \A k \in 1..m : g[k] \in places /\ chosen[k] = candidates[g[k]] /\ candidates[g[k]] \in Candidate
  BY <1>3 DEF Ranked
<1>5. Ranked(chosen, m)
  BY <1>3, <1>4 DEF Ranked
<1>6. m = 0 <=> places = {}
  <2>1. m # 0 => 1 \in 1..m /\ g[1] \in places
    BY <1>3
  <2>2. ASSUME NEW i \in places PROVE m # 0
    <3>1. PICK k \in 1..m : g[k] = i
      BY <1>3
    <3> QED BY <1>3, <3>1
  <2> QED BY <2>1, <2>2
<1> QED BY <1>3, <1>4, <1>5, <1>6 DEF chosen

(* A plan funds candidates, and what it leaves of the capital and the budgets make that up. *)
IsPlan(plan, candidates, n) ==
    /\ plan.rows \in Seq(Row) /\ plan.deployable \in Nat
    /\ \A i \in DOMAIN plan.rows : \E k \in 1..n : plan.rows[i].name = candidates[k].name
MakesUp(plan) ==
    /\ SumFunction(BudgetsOf(plan.rows)) \in Nat
    /\ Near(Capital - plan.deployable + SumFunction(BudgetsOf(plan.rows)), Capital, Len(plan.rows))

(* Nothing adds up to nothing. *)
LEMMA SumOfNone == \A f : DOMAIN f = {} => SumFunction(f) = 0
<1> SUFFICES ASSUME NEW f, DOMAIN f = {} PROVE SumFunction(f) = 0
  OBVIOUS
<1>1. IsFiniteSet(DOMAIN f)
  BY FS_EmptySet
<1>2. PICK it : SumFunction(f) = it[DOMAIN f] /\ Sums(it, f)
  BY <1>1, SumIsOneOfSums
<1> QED BY <1>2 DEF Sums

(* The automatic mode funds candidates, out of 85 % of the capital. *)
LEMMA AutoIsFunded ==
    ASSUME NEW n \in Nat, NEW candidates, Ranked(candidates, n), NEW top \in Nat \ {0}
    PROVE  IsPlan(AutoRows(candidates, top), candidates, n) /\ MakesUp(AutoRows(candidates, top))
<1> DEFINE places == {i \in DOMAIN candidates : candidates[i].score > 0}
           positive == At(candidates, places)
           chosen == SubSeq(positive, 1, Min({top, Len(positive)}))
           part == [i \in DOMAIN chosen |-> chosen[i].score]
           money == IF positive = <<>> THEN 0 ELSE Round(85 * Capital, 100)
           plan == AutoRows(candidates, top)
<1>1. places \in SUBSET (1..n) /\ \A i \in places : candidates[i].score > 0
  BY DEF Ranked
<1>2. plan = [rows |-> [i \in DOMAIN chosen |-> [name |-> chosen[i].name,
                                                budget |-> Share(money, chosen[i].score, SumFunction(part))]],
              deployable |-> money]
  BY DEF AutoRows, Budgets
<1>3. plan.deployable = money /\ plan.rows = RowsOf(chosen, part, SumFunction(part), money)
  <2>1. \A i \in DOMAIN chosen : part[i] = chosen[i].score
    <3> HIDE DEF chosen
    <3> QED OBVIOUS
  <2> HIDE DEF plan, chosen, part, money
  <2>2. RowsOf(chosen, part, SumFunction(part), money) =
          [i \in DOMAIN chosen |-> [name |-> chosen[i].name,
                                    budget |-> Share(money, chosen[i].score, SumFunction(part))]]
    BY <2>1 DEF RowsOf
  <2> QED BY <1>2, <2>2
<1> SUFFICES IsPlan(plan, candidates, n) /\ MakesUp(plan)
  OBVIOUS
<1> HIDE DEF places, plan
<1>4. PICK m \in Nat : /\ Ranked(positive, m)
                       /\ \A k \in 1..m : \E i \in places : positive[k] = candidates[i]
                       /\ m = 0 <=> places = {}
  BY <1>1, ChosenAreRanked
<1>5. Len(positive) = m /\ DOMAIN positive = 1..m /\ (positive = <<>> <=> m = 0)
  <2> HIDE DEF positive
  <2> QED BY <1>4 DEF Ranked
<1> HIDE DEF positive
<1>6. CASE m = 0
  <2>1. positive = <<>> /\ money = 0
    BY <1>5, <1>6
  <2>2. DOMAIN chosen = {} /\ DOMAIN part = {}
    <3>1. Min({top, 0}) = 0
      BY DEF Min
    <3>2. chosen = SubSeq(<<>>, 1, 0)
      BY <1>5, <1>6, <2>1, <3>1
    <3>3. SubSeq(<<>>, 1, 0) = <<>> /\ DOMAIN <<>> = {}
      OBVIOUS
    <3>4. DOMAIN chosen = {}
      BY <3>2, <3>3
    <3> HIDE DEF chosen
    <3> QED BY <3>4
  <2>3. plan.rows = <<>> /\ DOMAIN plan.rows = {} /\ BudgetsOf(plan.rows) = <<>> /\ DOMAIN BudgetsOf(plan.rows) = {}
    <3> HIDE DEF chosen, part, money
    <3>1. DOMAIN RowsOf(chosen, part, SumFunction(part), money) = {}
          /\ RowsOf(chosen, part, SumFunction(part), money) = <<>>
      BY <2>2 DEF RowsOf
    <3> QED BY <1>3, <3>1 DEF BudgetsOf
  <2>4. SumFunction(BudgetsOf(plan.rows)) = 0 /\ Len(plan.rows) = 0
    BY <2>3, SumOfNone
  <2>5. plan.deployable = 0
    BY <1>3, <2>1
  <2>6. IsPlan(plan, candidates, n)
    <3>1. <<>> \in Seq(Row)
      OBVIOUS
    <3> QED BY <2>3, <2>5, <3>1 DEF IsPlan
  <2>7. MakesUp(plan)
    BY <2>4, <2>5, CapitalAssumption DEF MakesUp, Near
  <2> QED BY <2>6, <2>7
<1>7. CASE m # 0
  <2>1. PICK r \in 1..m : chosen = [k \in 1..r |-> positive[k]]
    <3>1. Min({top, m}) \in {top, m} /\ Min({top, m}) <= m
      BY DEF Min
    <3>2. Min({top, m}) \in 1..m
      BY <1>7, <3>1
    <3>3. PICK r \in 1..m : r = Min({top, m})
      BY <3>2
    <3>4. positive \in Seq(Candidate)
      BY <1>4 DEF Ranked
    <3>5. chosen = SubSeq(positive, 1, r)
      BY <1>5, <3>3
    <3>6. SubSeq(positive, 1, r) = [k \in 1..r |-> positive[k]]
      BY <1>5, <3>3, <3>4
    <3> QED BY <3>5, <3>6
  <2> HIDE DEF chosen
  <2>2. r \in Nat \ {0} /\ Ranked(chosen, r) /\ DOMAIN chosen = 1..r
    BY <1>4, <2>1 DEF Ranked
  <2>3. \A k \in 1..r : \E i \in places : chosen[k] = candidates[i]
    BY <1>4, <2>1
  <2>4. \A k \in 1..r : chosen[k].score \in Nat \ {0}
    BY <1>1, <2>2, <2>3 DEF Ranked, Candidate
  <2>5. Weighed(part, r) /\ part[1] # 0 /\ DOMAIN part = 1..r /\ \A i \in DOMAIN part : part[i] \in Nat
    BY <2>2, <2>4 DEF Weighed
  <2> HIDE DEF part
  <2>6. SumFunction(part) \in Nat \ {0}
    <3>1. IsFiniteSet(DOMAIN part) /\ 1 \in DOMAIN part
      BY <2>2, <2>5, FS_Interval
    <3>2. SumFunction(part) \in Nat /\ part[1] <= SumFunction(part)
      BY <2>5, <3>1, SumOfNats
    <3> QED BY <2>5, <3>1, <3>2
  <2>7. money \in Nat
    <3>1. 2 * (85 * Capital) + 100 \in Nat /\ 2 * 100 \in Nat \ {0}
      BY CapitalAssumption
    <3>2. (2 * (85 * Capital) + 100) \div (2 * 100) \in Nat
      BY <3>1, Quotient
    <3> QED BY <3>2 DEF Round
  <2> HIDE DEF money
  <2>8. /\ plan.rows \in Seq(Row) /\ Len(plan.rows) = r
        /\ \A i \in 1..r : plan.rows[i].name = chosen[i].name
    <3>1. r \in Nat /\ SumFunction(part) \in Nat /\ (r # 0 => SumFunction(part) # 0)
      BY <2>2, <2>6
    <3> QED BY <1>3, <2>2, <2>5, <2>7, <3>1, RowsAreTyped
  <2>9. SumFunction(BudgetsOf(plan.rows)) \in Nat /\ Near(SumFunction(BudgetsOf(plan.rows)), money, r)
    BY <1>3, <2>2, <2>5, <2>6, <2>7, RowsShareMoney
  <2>10. IsPlan(plan, candidates, n)
    <3>1. DOMAIN plan.rows = 1..r
      BY <2>8
    <3> QED BY <1>1, <1>3, <2>3, <2>7, <2>8, <3>1 DEF IsPlan
  <2>11. MakesUp(plan)
    <3> DEFINE sum == SumFunction(BudgetsOf(plan.rows))
    <3>1. sum \in Nat /\ Near(sum, money, r) /\ Capital \in Nat
      BY <2>9, CapitalAssumption
    <3> HIDE DEF sum
    <3>2. Near(Capital - money + sum, Capital, r)
      BY <2>2, <2>7, <3>1 DEF Near
    <3> QED BY <1>3, <2>8, <3>1, <3>2 DEF MakesUp, sum
  <2> QED BY <2>10, <2>11
<1> QED BY <1>6, <1>7

(* Every weight is of a row, and no row is there twice. *)
Matched(weights, rows) == DOMAIN weights \subseteq Range(NamesOf(rows)) /\ IsInjective(NamesOf(rows))

(* The manual mode funds candidates, and with all the capital if every weight is of one. *)
LEMMA ManualIsFunded ==
    ASSUME NEW n \in Nat, NEW candidates, Ranked(candidates, n), NEW weights, IsFiniteSet(DOMAIN weights),
           \A name \in DOMAIN weights : weights[name] \in Nat \ {0}, SumFunction(weights) > 0
    PROVE  /\ IsPlan(ManualRows(candidates, weights), candidates, n)
           /\ Matched(weights, ManualRows(candidates, weights).rows) => MakesUp(ManualRows(candidates, weights))
<1> DEFINE weight(c) == IF c.name \in DOMAIN weights THEN weights[c.name] ELSE 0
           total == SumFunction(weights)
           places == {i \in DOMAIN candidates : weight(candidates[i]) > 0}
           chosen == At(candidates, places)
           part == [i \in DOMAIN chosen |-> weight(chosen[i])]
           plan == ManualRows(candidates, weights)
<1>1. plan = [rows |-> [i \in DOMAIN chosen |-> [name |-> chosen[i].name, budget |-> Share(Capital, weight(chosen[i]), total)]],
              deployable |-> IF chosen = <<>> THEN 0 ELSE Capital]
  BY DEF ManualRows, Budgets
<1>2. places \in SUBSET (1..n) /\ \A i \in places : weight(candidates[i]) > 0
  BY DEF Ranked
<1>3. plan.deployable = (IF chosen = <<>> THEN 0 ELSE Capital) /\ plan.rows = RowsOf(chosen, part, total, Capital)
  <2>1. \A i \in DOMAIN chosen : part[i] = weight(chosen[i])
    <3> HIDE DEF chosen, weight
    <3> QED OBVIOUS
  <2> HIDE DEF plan, chosen, part, weight, total
  <2>2. RowsOf(chosen, part, total, Capital) =
          [i \in DOMAIN chosen |-> [name |-> chosen[i].name, budget |-> Share(Capital, weight(chosen[i]), total)]]
    BY <2>1 DEF RowsOf
  <2> QED BY <1>1, <2>2
<1> SUFFICES IsPlan(plan, candidates, n) /\ (Matched(weights, plan.rows) => MakesUp(plan))
  OBVIOUS
<1> HIDE DEF places, plan
<1>4. total \in Nat \ {0}
  <2>1. \A name \in DOMAIN weights : weights[name] \in Nat
    OBVIOUS
  <2>2. total \in Nat
    BY <2>1, SumOfNats
  <2> QED BY <2>2
<1>5. PICK m \in Nat : /\ Ranked(chosen, m)
                       /\ \A k \in 1..m : \E i \in places : chosen[k] = candidates[i]
                       /\ m = 0 <=> places = {}
  BY <1>2, ChosenAreRanked
<1> HIDE DEF chosen
<1>6. DOMAIN chosen = 1..m /\ (chosen = <<>> <=> m = 0)
  BY <1>5 DEF Ranked
<1>7. \A k \in 1..m : chosen[k].name \in DOMAIN weights /\ part[k] = weights[chosen[k].name] /\ part[k] \in Nat
  <2> SUFFICES ASSUME NEW k \in 1..m
               PROVE  chosen[k].name \in DOMAIN weights /\ part[k] = weights[chosen[k].name] /\ part[k] \in Nat
    OBVIOUS
  <2>1. weight(chosen[k]) > 0 /\ part[k] = weight(chosen[k])
    BY <1>2, <1>5, <1>6
  <2> QED BY <2>1
<1>8. DOMAIN part = 1..m /\ Weighed(part, m)
  BY <1>6, <1>7 DEF Weighed
<1> HIDE DEF total, part
<1>9. /\ plan.rows \in Seq(Row) /\ Len(plan.rows) = m
      /\ \A i \in 1..m : plan.rows[i].name = chosen[i].name
  <2>1. total \in Nat /\ (m # 0 => total # 0) /\ Capital \in Nat
    BY <1>4, CapitalAssumption
  <2> QED BY <1>3, <1>5, <1>8, <2>1, RowsAreTyped
<1>10. IsPlan(plan, candidates, n)
  <2>1. plan.deployable \in Nat
    BY <1>3, CapitalAssumption
  <2>2. DOMAIN plan.rows = 1..m
    BY <1>9
  <2> QED BY <1>2, <1>5, <1>9, <2>1, <2>2 DEF IsPlan
<1>11. ASSUME Matched(weights, plan.rows) PROVE MakesUp(plan)
  <2> DEFINE g == [k \in 1..m |-> chosen[k].name]
  <2>1. NamesOf(plan.rows) = g
    <3>1. DOMAIN plan.rows = 1..m
      BY <1>9
    <3> QED BY <1>9, <3>1 DEF NamesOf
  <2>2. g \in [1..m -> DOMAIN weights]
    BY <1>7
  <2>3. \A j, k \in 1..m : g[j] = g[k] => j = k
    <3>1. IsInjective(g)
      BY <1>11, <2>1 DEF Matched
    <3> QED BY <3>1 DEF IsInjective
  <2>4. \A name \in DOMAIN weights : \E k \in 1..m : g[k] = name
    <3>1. DOMAIN weights \subseteq Range(g)
      BY <1>11, <2>1 DEF Matched
    <3> QED BY <3>1 DEF Range
  <2>5. \A k \in 1..m : part[k] = weights[g[k]]
    BY <1>7
  <2> HIDE DEF g
  <2>6. SumFunction(part) = total
    <3>1. IsFiniteSet(DOMAIN part)
      BY <1>8, FS_Interval
    <3>2. \A name \in DOMAIN weights : weights[name] \in Nat
      OBVIOUS
    <3>3. SumFunction(part) = SumFunction(weights)
      BY <1>8, <2>2, <2>3, <2>4, <2>5, <3>1, <3>2, SumMoved
    <3> QED BY <3>3 DEF total
  <2>7. m # 0
    <3>1. SUFFICES ASSUME m = 0 PROVE FALSE
      OBVIOUS
    <3>2. DOMAIN part = {}
      BY <1>8, <3>1
    <3> QED BY <1>4, <2>6, <3>2, SumOfNone
  <2>8. plan.deployable = Capital
    BY <1>3, <1>6, <2>7
  <2> DEFINE sum == SumFunction(BudgetsOf(plan.rows))
  <2>9. sum \in Nat /\ Near(sum, Capital, m)
    <3>1. m \in Nat \ {0} /\ SumFunction(part) # 0 /\ Capital \in Nat
      BY <1>4, <2>6, <2>7, CapitalAssumption
    <3>2. plan.rows = RowsOf(chosen, part, SumFunction(part), Capital)
      BY <1>3, <2>6
    <3> QED BY <1>5, <1>8, <3>1, <3>2, RowsShareMoney
  <2> HIDE DEF sum
  <2>10. Near(Capital - plan.deployable + sum, Capital, m)
    BY <2>8, <2>9, CapitalAssumption DEF Near
  <2> QED BY <1>9, <2>9, <2>10 DEF MakesUp, sum
<1> QED BY <1>10, <1>11

(* A share of all is all. *)
LEMMA WholeShare == \A b \in Nat : Share(b, Capital, Capital) = b
<1> SUFFICES ASSUME NEW b \in Nat PROVE Share(b, Capital, Capital) = b
  OBVIOUS
<1> DEFINE share == Share(b, Capital, Capital)
           a == b * Capital
<1>1. share \in Nat /\ Near(2 * (Capital * share), 2 * a, Capital) /\ Capital \in Nat \ {0}
  BY CapitalAssumption, ShareRounds
<1> HIDE DEF share
<1>2. a = Capital * b
  BY <1>1
<1>3. ASSUME share > b PROVE FALSE
  <2> PICK d \in Nat : d = share - b - 1
    BY <1>1, <1>3
  <2>1. Capital * share = Capital * b + Capital + Capital * d
    <3>1. share = b + 1 + d
      BY <1>1
    <3> QED BY <1>1, <3>1
  <2>2. Capital * d \in Nat /\ Capital * b \in Nat
    BY <1>1
  <2> HIDE DEF a
  <2> QED BY <1>1, <1>2, <2>1, <2>2 DEF Near
<1>4. ASSUME share < b PROVE FALSE
  <2> PICK d \in Nat : d = b - share - 1
    BY <1>1, <1>4
  <2>1. Capital * b = Capital * share + Capital + Capital * d
    <3>1. b = share + 1 + d
      BY <1>1
    <3> QED BY <1>1, <3>1
  <2>2. Capital * d \in Nat /\ Capital * share \in Nat
    BY <1>1
  <2> HIDE DEF a
  <2> QED BY <1>1, <1>2, <2>1, <2>2 DEF Near
<1> QED BY <1>1, <1>3, <1>4 DEF share

(* The simulated portfolio starts with the reserve and the budgets. *)
LEMMA CurveStartsFunded ==
    ASSUME NEW s \in Sessions, NEW results \in s.results, NEW rows \in Seq(Row), NEW reserve,
           \A i \in DOMAIN rows : results[rows[i].name].status # "ERROR"
    PROVE  LET curve == PortfolioSimulation(rows, reserve, results).curve
           IN  Len(curve) = Points => curve[1] = reserve + SumFunction(BudgetsOf(rows))
<1> DEFINE places == {i \in DOMAIN rows : rows[i].budget > 0}
           funded == At(rows, places)
           length == Len(results[rows[1].name].curve)
           usable(curve) == SubSeq(curve, Larger(1, Len(curve) - length + 1), Len(curve))
           scaled == [k \in DOMAIN funded |-> Scaled(usable(results[funded[k].name].curve), funded[k].budget)]
           simulated == PortfolioSimulation(rows, reserve, results).curve
           first == [k \in DOMAIN scaled |-> scaled[k][1]]
<1>1. Points \in Nat \ {0}
  BY CapitalAssumption
<1>2. \A i \in DOMAIN rows : rows[i] \in Row /\ rows[i].name \in Names /\ rows[i].budget \in Nat
  <2>1. \A i \in DOMAIN rows : rows[i] \in Row
    OBVIOUS
  <2> QED BY <2>1 DEF Row
<1>3. \A i \in DOMAIN rows : /\ results[rows[i].name].curve \in Seq(Int)
                             /\ Len(results[rows[i].name].curve) \in 1..Points
                             /\ Len(results[rows[i].name].curve) = Points => results[rows[i].name].curve[1] = Capital
  BY <1>2, BacktestAssumption
<1>4. IsFiniteSet(DOMAIN rows) /\ DOMAIN rows \subseteq Int /\ (rows # <<>> => 1 \in DOMAIN rows)
  <2>1. DOMAIN rows = 1..Len(rows) /\ Len(rows) \in Nat /\ (rows # <<>> => 1 \in DOMAIN rows)
    OBVIOUS
  <2>2. IsFiniteSet(1..Len(rows))
    BY <2>1, FS_Interval
  <2> QED BY <2>1, <2>2
<1>5. places \in SUBSET DOMAIN rows /\ \A i \in DOMAIN rows : i \in places \/ rows[i].budget = 0
  BY <1>2
<1>6. simulated = IF funded = <<>> THEN <<>>
                  ELSE IF \E k \in DOMAIN scaled : Len(scaled[k]) < length THEN <<>>
                  ELSE [i \in 1..length |-> reserve + SumFunction([k \in DOMAIN scaled |-> scaled[k][i]])]
  BY DEF PortfolioSimulation
<1> HIDE DEF places
<1>7. IsFiniteSet(places) /\ places \subseteq Int
  <2>1. IsFiniteSet(places)
    BY <1>4, <1>5, FS_Subset
  <2> QED BY <1>4, <1>5, <2>1
<1>8. PICK m, g : Numbers(g, m, places) /\ Lists(funded, rows, g, m)
  BY <1>7, AtIsNumbered
<1>9. /\ m \in Nat /\ g \in [1..m -> places] /\ \A j, k \in 1..m : g[j] = g[k] => j = k
      /\ (\A i \in places : \E k \in 1..m : g[k] = i) /\ funded = [k \in 1..m |-> rows[g[k]]]
  BY <1>8 DEF Numbers, Lists
<1> SUFFICES ASSUME Len(simulated) = Points PROVE simulated[1] = reserve + SumFunction(BudgetsOf(rows))
  OBVIOUS
<1> HIDE DEF funded
<1>10. /\ funded # <<>> /\ \A k \in DOMAIN scaled : ~(Len(scaled[k]) < length)
      /\ simulated = [i \in 1..length |-> reserve + SumFunction([k \in DOMAIN scaled |-> scaled[k][i]])]
  <2>1. Len(<<>>) = 0
    OBVIOUS
  <2> HIDE DEF scaled, length, simulated
  <2> QED BY <1>1, <1>6, <2>1
<1>11. length = Points
  <2>1. funded # <<>>
    BY <1>10
  <2>2. m # 0
    <3> HIDE DEF scaled, length, simulated, first
    <3> QED BY <1>9, <2>1
  <2>3. places # {}
    BY <1>9, <2>2
  <2>4. 1 \in DOMAIN rows
    BY <1>4, <1>5, <2>3
  <2>5. length \in Nat
    BY <1>3, <2>4
  <2> HIDE DEF length, scaled, simulated
  <2> QED BY <1>10, <2>5
<1>12. DOMAIN scaled = 1..m /\ \A k \in 1..m : scaled[k][1] = BudgetsOf(rows)[g[k]]
  <2>1. DOMAIN funded = 1..m /\ DOMAIN scaled = 1..m
    BY <1>9
  <2>2. ASSUME NEW k \in 1..m PROVE scaled[k][1] = BudgetsOf(rows)[g[k]]
    <3> DEFINE row == rows[g[k]]
               curve == results[row.name].curve
    <3>1. g[k] \in DOMAIN rows /\ funded[k] = row
      BY <1>5, <1>9
    <3>2. curve \in Seq(Int) /\ Len(curve) \in 1..Points /\ (Len(curve) = Points => curve[1] = Capital)
      BY <1>3, <3>1
    <3>3. row.budget \in Nat /\ BudgetsOf(rows)[g[k]] = row.budget
      BY <1>2, <3>1 DEF BudgetsOf
    <3>4. scaled[k] = Scaled(usable(curve), row.budget)
      BY <2>1, <3>1
    <3>5. ~(Len(scaled[k]) < Points)
      BY <1>10, <1>11, <2>1
    <3> HIDE DEF scaled, row, curve, length
    <3>6. usable(curve) = curve
      <4>1. usable(curve) = SubSeq(curve, Larger(1, Len(curve) - Points + 1), Len(curve))
        BY <1>11
      <4>2. Larger(1, Len(curve) - Points + 1) = 1
        BY <1>1, <3>2 DEF Larger
      <4>3. SubSeq(curve, 1, Len(curve)) = curve
        BY <3>2
      <4> QED BY <4>1, <4>2, <4>3
    <3> HIDE DEF usable
    <3>7. scaled[k] = [i \in 1..Len(curve) |-> Share(row.budget, curve[i], Capital)] /\ Len(scaled[k]) = Len(curve)
      BY <3>2, <3>4, <3>6 DEF Scaled
    <3>8. Len(curve) = Points /\ curve[1] = Capital
      BY <1>1, <3>2, <3>5, <3>7
    <3>9. scaled[k][1] = Share(row.budget, Capital, Capital)
      BY <1>1, <3>7, <3>8
    <3> QED BY <3>3, <3>9, WholeShare
  <2> QED BY <2>1, <2>2
<1>13. DOMAIN first = 1..m /\ \A k \in 1..m : first[k] = BudgetsOf(rows)[g[k]]
  <2> HIDE DEF scaled
  <2> QED BY <1>12
<1>14. simulated[1] = reserve + SumFunction(first)
  <2>1. simulated = [i \in 1..Points |-> reserve + SumFunction([k \in DOMAIN scaled |-> scaled[k][i]])]
    <3> HIDE DEF scaled, simulated, length
    <3> QED BY <1>10, <1>11
  <2> HIDE DEF scaled, simulated
  <2> QED BY <1>1, <2>1
<1> HIDE DEF first, simulated
<1>15. SumFunction(first) = SumFunction(BudgetsOf(rows))
  <2> PICK f : f = BudgetsOf(rows)
    OBVIOUS
  <2>1. DOMAIN f = DOMAIN rows /\ \A i \in DOMAIN f : f[i] = rows[i].budget /\ f[i] \in Nat
    BY <1>2 DEF BudgetsOf
  <2>2. IsFiniteSet(DOMAIN f) /\ IsFiniteSet(DOMAIN first)
    BY <1>4, <1>9, <1>13, <2>1, FS_Interval
  <2>3. /\ g \in [DOMAIN first -> DOMAIN f]
        /\ \A a, b \in DOMAIN first : g[a] = g[b] => a = b
        /\ \A a \in DOMAIN first : first[a] = f[g[a]]
    BY <1>5, <1>9, <1>13, <2>1
  <2>4. \A i \in DOMAIN f : f[i] = 0 \/ \E k \in DOMAIN first : g[k] = i
    BY <1>5, <1>9, <1>13, <2>1
  <2>5. \A i \in DOMAIN f : f[i] \in Nat
    BY <2>1
  <2>6. SumFunction(first) = SumFunction(f)
    BY <2>2, <2>3, <2>4, <2>5, SumMoved
  <2> QED BY <2>6
<1> QED BY <1>14, <1>15

(* The result of a scan: rows of money that account for the capital. *)
HasPlan(state) ==
    /\ {"request", "rows", "reserve", "portfolio"} \subseteq DOMAIN state
    /\ state.rows \in Seq(Row) /\ Funded(state)

(* Whatever was asked for and whichever backtests completed, a scan ends with one. *)
LEMMA BuildIsFunded ==
    ASSUME NEW s \in Sessions, NEW request \in s.posts, request.kind = "research_scan", NEW results \in s.results
    PROVE  HasPlan(BuildResearchState(request, results))
<1> DEFINE candidates == Candidates(request.names, results)
           weights == request.weights
           manual == request.mode = "manual" /\ SumFunction(weights) > 0
           plan == IF manual THEN ManualRows(candidates, weights) ELSE AutoRows(candidates, request.top)
           rows == plan.rows
           reserve == Capital - plan.deployable
           portfolio == PortfolioSimulation(rows, reserve, results)
           state == BuildResearchState(request, results)
           matched == request.mode = "auto" \/ Matched(weights, rows)
<1>1. /\ request.names \in Seq(Names) /\ request.mode \in {"auto", "manual"} /\ request.top \in Nat \ {0}
      /\ IsFiniteSet(DOMAIN weights) /\ \A name \in DOMAIN weights : weights[name] \in Nat \ {0}
  BY RequestAssumption
<1>2. PICK n \in Nat : /\ Ranked(candidates, n)
                       /\ \A k \in 1..n : results[candidates[k].name].status # "ERROR"
  BY <1>1, CandidatesAreRanked
<1>3. /\ DOMAIN state = {"status", "request", "rows", "reserve", "stack", "portfolio"}
      /\ state.request = request /\ state.rows = rows /\ state.reserve = reserve /\ state.portfolio = portfolio
  BY DEF BuildResearchState
<1> HIDE DEF candidates, state, weights
<1>4. IsPlan(plan, candidates, n) /\ (matched => MakesUp(plan))
  <2>1. CASE manual
    <3>1. /\ IsPlan(ManualRows(candidates, weights), candidates, n)
          /\ Matched(weights, ManualRows(candidates, weights).rows) => MakesUp(ManualRows(candidates, weights))
      BY <1>1, <1>2, <2>1, ManualIsFunded
    <3>2. plan = ManualRows(candidates, weights) /\ request.mode # "auto"
      BY <2>1
    <3> HIDE DEF plan
    <3> QED BY <3>1, <3>2
  <2>2. CASE ~manual
    <3>1. IsPlan(AutoRows(candidates, request.top), candidates, n) /\ MakesUp(AutoRows(candidates, request.top))
      BY <1>1, <1>2, AutoIsFunded
    <3>2. plan = AutoRows(candidates, request.top)
      BY <2>2
    <3> HIDE DEF plan
    <3> QED BY <3>1, <3>2
  <2> QED BY <2>1, <2>2
<1> HIDE DEF manual, plan
<1>5. rows \in Seq(Row) /\ plan.deployable \in Nat /\ \A i \in DOMAIN rows : results[rows[i].name].status # "ERROR"
  BY <1>2, <1>4 DEF IsPlan
<1> HIDE DEF rows
<1>6. Len(portfolio.curve) = Points => portfolio.curve[1] = reserve + SumFunction(BudgetsOf(rows))
  <2> HIDE DEF reserve
  <2> QED BY <1>5, CurveStartsFunded
<1> HIDE DEF portfolio
<1>7. matched => Near(reserve + SumFunction(BudgetsOf(rows)), Capital, Len(rows))
  BY <1>4 DEF MakesUp, rows
<1> HIDE DEF reserve
<1>8. Funded(state)
  <2>1. (\/ state.request.mode = "auto"
         \/ /\ DOMAIN state.request.weights \subseteq Range(NamesOf(state.rows))
            /\ IsInjective(NamesOf(state.rows))) => matched
    BY <1>3 DEF Matched, weights
  <2> HIDE DEF matched
  <2> QED BY <1>3, <1>6, <1>7, <2>1 DEF Funded
<1> QED BY <1>3, <1>5, <1>8 DEF HasPlan, state

-----------------------------------------------------------------------------
(* The files.  What DiskIsConsistent needs: the stack a thread or the result on disk names  *)
(* is listed and was made from the rows beside it, a thread that writes profiles is alone   *)
(* in its directory, and what it has not written yet is still on its list.                  *)
File == [status : {"absent", "empty", "torn", "whole"}, budget : Nat]

DiskTypeOK ==
    /\ research.status \in {"absent", "empty", "torn", "whole"}
    /\ stacks \in [AllStacks -> [status : {"absent", "directory", "listed"}, names : Seq(Names)]]
    /\ files \in [AllStacks -> [Names -> File]]
    /\ DOMAIN made = Generated

(* The result of a scan, with the stack generated from it. *)
Refers(state, listing, origin) ==
    /\ {"stack", "rows", "status"} \subseteq DOMAIN state /\ state.status = "whole"
    /\ state.rows \in Seq(Row)
    /\ state.stack # "none" => /\ state.stack \in Generated
                               /\ listing[state.stack].status = "listed"
                               /\ origin[state.stack] = state.rows

Written(s, name) == files[s][name].status # "absent"

JobOK(t) ==
    /\ pc[t] = "scan" => job[t] \in session.posts /\ job[t].kind = "research_scan"
    /\ pc[t] \in {"cut_research", "paste_research", "profiles", "check"} => Refers(job[t].state, stacks, made)
    /\ pc[t] \in {"profiles", "check"} => job[t].stack \in Generated
    /\ pc[t] = "profiles" =>
          /\ stacks[job[t].stack].status = "directory"
          /\ job[t].todo \in Seq(Row)
          /\ \A i \in DOMAIN job[t].state.rows :
               LET name == job[t].state.rows[i].name
               IN  Written(job[t].stack, name) \/ \E j \in DOMAIN job[t].todo : job[t].todo[j].name = name
    /\ pc[t] = "check" => /\ stacks[job[t].stack].status = "listed"
                          /\ made[job[t].stack] = job[t].state.rows
    /\ pc[t] \in {"load", "read", "cut", "paste"} => job[t].stack \in AllStacks /\ job[t].todo \in Seq(Row)
    /\ pc[t] \in {"cut", "paste"} => job[t].name \in Names /\ job[t].text \in File
                                     /\ job[t].text.status # "absent"

Alone == \A t, u \in Threads : t # u /\ pc[t] = "profiles" /\ pc[u] = "profiles" => job[t].stack # job[u].stack

ListsWritten ==
    \A s \in AllStacks : stacks[s].status = "listed" =>
        \A i \in DOMAIN stacks[s].names : Written(s, stacks[s].names[i])

DiskInv ==
    /\ ThreadsInv /\ DiskTypeOK
    /\ \A t \in Threads : JobOK(t)
    /\ Alone
    /\ research.status = "whole" => Refers(research, stacks, made)
    /\ ListsWritten
    /\ DamageIsExplained

LEMMA DiskInvImpliesConsistent == DiskInv => DiskIsConsistent
<1> SUFFICES ASSUME DiskInv PROVE DiskIsConsistent
  OBVIOUS
<1>1. StacksAreWhole
  <2> SUFFICES ASSUME NEW s \in AllStacks, stacks[s].status = "listed", NEW name \in Range(stacks[s].names)
               PROVE  files[s][name].status # "absent"
    BY DEF StacksAreWhole
  <2>1. PICK i \in DOMAIN stacks[s].names : stacks[s].names[i] = name
    BY DEF Range
  <2> QED BY <2>1 DEF DiskInv, ListsWritten, Written
<1>2. StackIsOfItsScan
  BY DEF DiskInv, Refers, StackIsOfItsScan
<1> QED BY <1>1, <1>2 DEF DiskInv, DiskIsConsistent

(* What another thread relies on: nothing disappears, and a stack that is listed stays as
   it is. *)
Preserves(t) ==
    /\ \A s \in Generated : stacks[s].status = "listed" => stacks'[s].status = "listed" /\ made'[s] = made[s]
    /\ \A s \in AllStacks, name \in Names : Written(s, name) => Written(s, name)'
    /\ \A u \in Threads : u # t /\ pc[u] = "profiles" => stacks'[job[u].stack].status = "directory"

LEMMA RefersPreserved ==
    ASSUME NEW t, Preserves(t), NEW state, Refers(state, stacks, made)
    PROVE  Refers(state, stacks', made')
BY DEF Refers, Preserves

LEMMA OthersPreserved ==
    ASSUME DiskInv, NEW t \in Threads, Moves(t, Steps), Preserves(t)
    PROVE  \A u \in Threads : u # t => JobOK(u)'
<1> SUFFICES ASSUME NEW u \in Threads, u # t PROVE JobOK(u)'
  OBVIOUS
<1>1. JobOK(u) /\ pc'[u] = pc[u] /\ job'[u] = job[u] /\ session' = session
  BY DEF DiskInv, Moves
<1>2. Refers(job[u].state, stacks, made) => Refers(job[u].state, stacks', made')
  BY RefersPreserved
<1>3. pc[u] = "profiles" => \A i \in DOMAIN job[u].state.rows : job[u].state.rows[i].name \in Names
  <2>1. ASSUME NEW rows \in Seq(Row), NEW i \in DOMAIN rows PROVE rows[i].name \in Names
    <3>1. rows[i] \in Row
      OBVIOUS
    <3> QED BY <3>1 DEF Row
  <2> QED BY <1>1, <2>1 DEF JobOK, Refers
<1>4. pc[u] = "profiles" => job[u].stack \in AllStacks
  BY <1>1 DEF JobOK, AllStacks
<1>5. pc[u] = "profiles" => \A i \in DOMAIN job[u].state.rows :
         files[job[u].stack][job[u].state.rows[i].name].status # "absent" =>
             files'[job[u].stack][job[u].state.rows[i].name].status # "absent"
  BY <1>3, <1>4 DEF Preserves, Written
<1>6. pc[u] = "profiles" =>
        \A i \in DOMAIN job[u].state.rows :
           \/ files'[job[u].stack][job[u].state.rows[i].name].status # "absent"
           \/ \E j \in DOMAIN job[u].todo : job[u].todo[j].name = job[u].state.rows[i].name
  BY <1>1, <1>5 DEF JobOK, Written
<1>7. pc[u] = "check" => job[u].stack \in Generated
  BY <1>1 DEF JobOK
<1>8. CASE pc[u] = "profiles"
  <2>1. stacks'[job[u].stack].status = "directory"
    BY <1>8 DEF Preserves
  <2>2. /\ job[u].todo \in Seq(Row) /\ job[u].stack \in Generated
        /\ Refers(job[u].state, stacks', made')
    BY <1>1, <1>2, <1>8 DEF JobOK
  <2> HIDE DEF Row
  <2> QED BY <1>1, <1>6, <1>8, <2>1, <2>2 DEF JobOK, Written
<1>9. CASE pc[u] = "check"
  BY <1>1, <1>2, <1>7, <1>9 DEF JobOK, Preserves
<1>10. CASE pc[u] \notin {"profiles", "check"}
  BY <1>1, <1>2, <1>10 DEF JobOK
<1> QED BY <1>8, <1>9, <1>10

(* A stack that is listed is still of written profiles, where no other one is listed now. *)
LEMMA ListsKept ==
    ASSUME DiskTypeOK, ListsWritten,
           \A s \in AllStacks, name \in Names : Written(s, name) => Written(s, name)',
           \A s \in AllStacks : stacks'[s] = stacks[s] \/ stacks'[s].status # "listed"
    PROVE  ListsWritten'
<1> SUFFICES ASSUME NEW s \in AllStacks, stacks'[s].status = "listed", NEW i \in DOMAIN stacks'[s].names
             PROVE  files'[s][stacks'[s].names[i]].status # "absent"
  BY DEF ListsWritten, Written
<1>1. stacks'[s] = stacks[s]
  OBVIOUS
<1>2. stacks[s].names \in Seq(Names)
  BY DEF DiskTypeOK
<1>3. stacks[s].names[i] \in Names
  BY <1>1, <1>2
<1> QED BY <1>1, <1>3 DEF ListsWritten, Written

(* A step that changes no file, and does not leave one half written. *)
LEMMA QuietStep ==
    ASSUME DiskInv, NEW t \in Threads, Moves(t, Steps), ThreadsInv',
           UNCHANGED <<research, stacks, files, made, spoiled>>,
           pc[t] \notin {"paste", "paste_research"}, pc'[t] # "profiles", JobOK(t)'
    PROVE  DiskInv'
<1>1. Preserves(t)
  BY DEF Preserves, Written, DiskInv, JobOK
<1>2. \A u \in Threads : JobOK(u)'
  BY <1>1, OthersPreserved
<1>3. Alone'
  BY DEF DiskInv, Alone, Moves
<1>4. research'.status = "whole" => Refers(research', stacks', made')
  BY <1>1, RefersPreserved DEF DiskInv
<1>5. ListsWritten' /\ DiskTypeOK'
  BY ListsKept DEF DiskInv, DiskTypeOK, Written
<1>6. DamageIsExplained'
  BY DEF DiskInv, DamageIsExplained, Writing, Moves
<1> QED BY <1>2, <1>3, <1>4, <1>5, <1>6 DEF DiskInv

LEMMA ServeKeepsDisk ==
    ASSUME DiskInv, NEW t \in Threads, DoGet(t) \/ DoPost(t), UNCHANGED labVars
    PROVE  DiskInv'
<1>1. ThreadsInv' /\ Moves(t, Steps) /\ pc[t] = "idle"
  BY ServeKeepsThreads DEF DiskInv
<1>2. pc'[t] # "profiles" /\ JobOK(t)'
  <2>1. CASE DoGet(t)
    BY <2>1 DEF DoGet, Goto, JobOK, DiskInv, ThreadsInv
  <2>2. CASE DoPost(t)
    <3>1. PICK request \in session.posts :
            /\ pc' = [pc EXCEPT ![t] = FirstStep[request.kind]]
            /\ job' = [job EXCEPT ![t] = request]
      BY <2>2 DEF DoPost
    <3>2. session \in Sessions /\ session' = session
      BY <2>2 DEF DoPost, DiskInv, ThreadsInv
    <3>3. request.kind \in DOMAIN FirstStep
      BY <3>1, <3>2, ServerAssumption
    <3>4. request.kind \in {"update_profile_params", "start_stack"} =>
              request.stack \in AllStacks /\ request.todo \in Seq(Row)
      BY <3>1, <3>2, RequestAssumption DEF Row
    <3>5. /\ FirstStep[request.kind] \in {"invalidate", "scan", "generate", "load"}
          /\ FirstStep[request.kind] = "scan" => request.kind = "research_scan"
          /\ FirstStep[request.kind] = "load" => request.kind \in {"update_profile_params", "start_stack"}
      BY <3>3 DEF FirstStep
    <3>6. pc'[t] = FirstStep[request.kind] /\ job'[t] = request
      BY <3>1 DEF DiskInv, ThreadsInv
    <3> QED BY <3>1, <3>2, <3>4, <3>5, <3>6 DEF JobOK
  <2> QED BY <2>1, <2>2
<1> QED BY <1>1, <1>2, QuietStep DEF labVars

(* The handlers of the portfolio touch no file. *)
LEMMA PortfolioKeepsDisk ==
    ASSUME DiskInv, NEW t \in Threads, PortfolioStep(t), UNCHANGED labVars
    PROVE  DiskInv'
<1>1. ThreadsInv' /\ Moves(t, Steps)
  BY PortfolioKeepsThreads DEF DiskInv
<1>2. pc[t] \in PortfolioSteps /\ pc'[t] \in PortfolioSteps \cup {"deployment", "idle"}
  BY DEF PortfolioStep, InvalidatePortfolioCache, AskPortfolio, ReadAccount, ReadSections, FindPosition,
         RedeemPosition, FillCache, Show, Goto, Answer, DiskInv, ThreadsInv, PortfolioSteps
<1>3. pc'[t] # "profiles" /\ JobOK(t)' /\ pc[t] \notin {"paste", "paste_research"}
  BY <1>2 DEF JobOK, PortfolioSteps
<1> QED BY <1>1, <1>3, QuietStep DEF labVars

(* The steps of the Strategy Lab that only read. *)
LEMMA ReadersKeepDisk ==
    ASSUME DiskInv, NEW t \in Threads,
           ResearchScan(t) \/ CheckStack(t) \/ LoadTarget(t) \/ ReadProfile(t)
           \/ ShowDeployment(t) \/ ComputeSuggestions(t)
    PROVE  DiskInv'
<1>1. ThreadsInv' /\ Moves(t, Steps) /\ session' = session
  <2>1. LabStep(t)
    BY DEF LabStep
  <2>2. Moves(t, LabSteps \cup {"idle"})
    BY <2>1, LabMoves DEF DiskInv
  <2> QED BY <2>2, LabKeepsThreads DEF DiskInv, Moves, Steps
<1>2. UNCHANGED <<research, stacks, files, made, spoiled>> /\ pc[t] \notin {"paste", "paste_research"}
  BY DEF ResearchScan, CheckStack, LoadTarget, ReadProfile, ShowDeployment, ComputeSuggestions, labVars
<1>3. pc'[t] # "profiles" /\ JobOK(t)'
  <2>0. JobOK(t) /\ pc \in [Threads -> Steps] /\ DOMAIN job = Threads
    BY DEF DiskInv, ThreadsInv
  <2>1. CASE Answer(t)
    BY <2>0, <2>1 DEF Answer, Goto, JobOK
  <2>2. CASE ResearchScan(t) /\ ~Answer(t)
    <3>1. PICK results \in session.results :
            Goto(t, "cut_research", [kind |-> "write", state |-> BuildResearchState(job[t], results)])
      BY <2>2 DEF ResearchScan
    <3>2. job[t] \in session.posts /\ job[t].kind = "research_scan" /\ session \in Sessions
      BY <2>0, <2>2 DEF ResearchScan, JobOK, DiskInv, ThreadsInv
    <3>3. BuildResearchState(job[t], results).rows \in Seq(Row)
      BY <3>1, <3>2, BuildIsFunded DEF HasPlan
    <3>4. {"stack", "rows", "status"} \subseteq DOMAIN BuildResearchState(job[t], results)
          /\ BuildResearchState(job[t], results).status = "whole"
          /\ BuildResearchState(job[t], results).stack = "none"
      BY DEF BuildResearchState
    <3>5. Refers(BuildResearchState(job[t], results), stacks', made')
      BY <3>3, <3>4 DEF Refers
    <3> DEFINE state == BuildResearchState(job[t], results)
    <3>6. pc'[t] = "cut_research" /\ job'[t].state = state
      BY <2>0, <3>1 DEF Goto
    <3> HIDE DEF state
    <3> QED BY <3>5, <3>6 DEF JobOK, state
  <2>3. CASE CheckStack(t) /\ ~Answer(t)
    <3> DEFINE old == job[t].state
               state == [old EXCEPT !.stack = job[t].stack]
    <3>1. pc[t] = "check" /\ Goto(t, "cut_research", [kind |-> "write", state |-> state])
      BY <2>3 DEF CheckStack
    <3>2. /\ Refers(old, stacks, made) /\ job[t].stack \in Generated
          /\ stacks[job[t].stack].status = "listed" /\ made[job[t].stack] = old.rows
      BY <2>0, <3>1 DEF JobOK
    <3>3. pc'[t] = "cut_research" /\ job'[t].state = state
      BY <2>0, <3>1 DEF Goto
    <3> HIDE DEF old
    <3>4. /\ DOMAIN state = DOMAIN old /\ state.stack = job[t].stack
          /\ state.rows = old.rows /\ state.status = old.status
      BY <3>2 DEF Refers
    <3> HIDE DEF state
    <3>5. Refers(state, stacks', made')
      BY <1>2, <3>2, <3>4 DEF Refers
    <3> QED BY <3>3, <3>5 DEF JobOK
  <2>4. CASE LoadTarget(t) /\ ~Answer(t)
    BY <2>0, <2>4 DEF LoadTarget, Goto, JobOK
  <2>5. CASE ReadProfile(t) /\ ~Answer(t)
    <3> DEFINE row == Head(job[t].todo)
               text == files[job[t].stack][row.name]
    <3>1. job[t].stack \in AllStacks /\ job[t].todo \in Seq(Row) /\ job[t].todo # <<>>
      BY <2>0, <2>5 DEF ReadProfile, JobOK
    <3>2. row \in Row /\ Tail(job[t].todo) \in Seq(Row)
      BY <3>1
    <3>3. row.name \in Names /\ row.budget \in Nat
      BY <3>2 DEF Row
    <3>4. text \in File
      BY <3>1, <3>3 DEF DiskInv, DiskTypeOK
    <3>5. /\ text.status \notin {"empty", "absent"}
          /\ Goto(t, "cut", [kind |-> job[t].kind, stack |-> job[t].stack, todo |-> Tail(job[t].todo),
                            name |-> row.name, text |-> [text EXCEPT !.budget = row.budget]])
      BY <2>5 DEF ReadProfile
    <3> HIDE DEF row, text
    <3>6. /\ pc'[t] = "cut" /\ job'[t].stack = job[t].stack /\ job'[t].todo = Tail(job[t].todo)
          /\ job'[t].name = row.name /\ job'[t].text = [text EXCEPT !.budget = row.budget]
      BY <2>0, <3>5 DEF Goto
    <3>7. [text EXCEPT !.budget = row.budget] \in File /\ [text EXCEPT !.budget = row.budget].status = text.status
      BY <3>3, <3>4 DEF File
    <3> QED BY <3>1, <3>2, <3>3, <3>5, <3>6, <3>7 DEF JobOK
  <2>6. CASE ShowDeployment(t) \/ ComputeSuggestions(t)
    BY <2>0, <2>6 DEF ShowDeployment, ComputeSuggestions, Advise, Answer, Goto, JobOK
  <2> QED BY <2>1, <2>2, <2>3, <2>4, <2>5, <2>6
<1> QED BY <1>1, <1>2, <1>3, QuietStep

(* What every step of the Strategy Lab does with the threads. *)
LEMMA LabThreads ==
    ASSUME DiskInv, NEW t \in Threads, LabStep(t)
    PROVE  ThreadsInv' /\ Moves(t, Steps)
<1>1. Moves(t, LabSteps \cup {"idle"})
  BY LabMoves DEF DiskInv
<1> QED BY <1>1, LabKeepsThreads DEF DiskInv, Moves, Steps

LEMMA CutResearchKeepsDisk ==
    ASSUME DiskInv, NEW t \in Threads, CutResearch(t)
    PROVE  DiskInv'
<1>1. ThreadsInv' /\ Moves(t, Steps)
  BY LabThreads DEF LabStep
<1>2. /\ pc[t] = "cut_research" /\ pc'[t] = "paste_research" /\ job'[t] = job[t]
      /\ research' = [status |-> "empty"] /\ UNCHANGED <<stacks, files, made, spoiled>>
  BY DEF CutResearch, Goto, DiskInv, ThreadsInv
<1>3. Preserves(t)
  BY <1>2 DEF Preserves, Written, DiskInv, JobOK
<1>4. JobOK(t)'
  BY <1>2 DEF DiskInv, JobOK
<1>5. Alone'
  BY <1>1, <1>2 DEF DiskInv, Alone, Moves
<1>6. ListsWritten' /\ DiskTypeOK'
  BY <1>2, ListsKept DEF DiskInv, DiskTypeOK, Written
<1>7. DamageIsExplained'
  BY <1>1, <1>2 DEF DiskInv, DamageIsExplained, Writing, Moves
<1> QED BY <1>1, <1>2, <1>3, <1>4, <1>5, <1>6, <1>7, OthersPreserved DEF DiskInv

LEMMA PasteResearchKeepsDisk ==
    ASSUME DiskInv, NEW t \in Threads, PasteResearch(t)
    PROVE  DiskInv'
<1>1. ThreadsInv' /\ Moves(t, Steps)
  BY LabThreads DEF LabStep
<1>2. /\ pc[t] = "paste_research" /\ pc'[t] = "idle" /\ UNCHANGED <<stacks, files, made>>
      /\ Spoil(research.status, "whole", ResearchFile)
      /\ \/ research' = job[t].state
         \/ research.status # "empty" /\ research' = [status |-> "torn"]
  BY DEF PasteResearch, Answer, Goto, Outcomes, DiskInv, ThreadsInv
<1>3. Preserves(t)
  BY <1>2 DEF Preserves, Written, DiskInv, JobOK
<1>4. Refers(job[t].state, stacks, made)
  BY <1>2 DEF DiskInv, JobOK
<1>5. JobOK(t)'
  BY <1>2 DEF JobOK
<1>6. Alone'
  BY <1>1, <1>2 DEF DiskInv, Alone, Moves
<1>7. ListsWritten'
  BY <1>2, ListsKept DEF DiskInv, DiskTypeOK, Written
<1>8. DiskTypeOK' /\ (research'.status = "whole" => Refers(research', stacks', made'))
  BY <1>2, <1>4 DEF DiskInv, DiskTypeOK, Refers
<1>9. DamageIsExplained'
  <2>1. research'.status \in {"empty", "torn"} => ResearchFile \in spoiled'
    BY <1>2, <1>4 DEF Spoil, Refers
  <2>2. \A s \in AllStacks, name \in Names : <<s, name>> \in spoiled => <<s, name>> \in spoiled'
    <3>1. \A s \in AllStacks, name \in Names : <<s, name>> # ResearchFile
      BY LabAssumption DEF AllStacks, ResearchFile
    <3> QED BY <1>2, <3>1 DEF Spoil
  <2> QED BY <1>1, <1>2, <2>1, <2>2 DEF DiskInv, DamageIsExplained, Writing, Moves
<1> QED BY <1>1, <1>3, <1>5, <1>6, <1>7, <1>8, <1>9, OthersPreserved DEF DiskInv

(* The directory a thread makes was nobody's. *)
LEMMA GenerateKeepsDisk ==
    ASSUME DiskInv, NEW t \in Threads, GenerateStack(t)
    PROVE  DiskInv'
<1>1. ThreadsInv' /\ Moves(t, Steps)
  BY LabThreads DEF LabStep
<1>2. pc[t] = "generate" /\ UNCHANGED <<research, files, made, spoiled>>
  BY DEF GenerateStack
<1>3. CASE Answer(t) /\ UNCHANGED stacks
  <2>1. pc'[t] = "idle"
    BY <1>3 DEF Answer, Goto, DiskInv, ThreadsInv
  <2> QED BY <1>1, <1>2, <1>3, <2>1, QuietStep DEF JobOK
<1>4. CASE ~(Answer(t) /\ UNCHANGED stacks)
  <2>1. PICK s \in Generated :
          /\ research.status = "whole" /\ stacks[s].status = "absent"
          /\ stacks' = [stacks EXCEPT ![s].status = "directory"]
          /\ Goto(t, "profiles", [kind |-> "generate", stack |-> s, state |-> research, todo |-> research.rows])
    BY <1>4 DEF GenerateStack
  <2>2. /\ pc'[t] = "profiles" /\ job'[t].stack = s /\ job'[t].state = research /\ job'[t].todo = research.rows
    BY <2>1 DEF Goto, DiskInv, ThreadsInv
  <2>3. s \in AllStacks /\ stacks \in [AllStacks -> [status : {"absent", "directory", "listed"}, names : Seq(Names)]]
    BY DEF AllStacks, DiskInv, DiskTypeOK
  <2>4. /\ stacks'[s].status = "directory" /\ \A r \in AllStacks : r # s => stacks'[r] = stacks[r]
        /\ stacks' \in [AllStacks -> [status : {"absent", "directory", "listed"}, names : Seq(Names)]]
    BY <2>1, <2>3
  <2>5. \A u \in Threads : pc[u] = "profiles" => job[u].stack \in Generated /\ job[u].stack # s
    BY <2>1 DEF DiskInv, JobOK
  <2>6. Preserves(t)
    <3>1. \A r \in Generated : stacks[r].status = "listed" => r # s /\ r \in AllStacks
      BY <2>1 DEF AllStacks
    <3>2. \A u \in Threads : pc[u] = "profiles" => stacks'[job[u].stack].status = "directory"
      BY <2>4, <2>5 DEF DiskInv, JobOK, AllStacks
    <3> QED BY <1>2, <2>4, <3>1, <3>2 DEF Preserves, Written
  <2>7. Refers(research, stacks, made)
    BY <2>1 DEF DiskInv
  <2>8. Refers(research, stacks', made')
    BY <2>6, <2>7, RefersPreserved
  <2>9. JobOK(t)'
    BY <2>1, <2>2, <2>4, <2>8 DEF JobOK, Refers
  <2>10. Alone'
    BY <1>1, <2>2, <2>5 DEF DiskInv, Alone, Moves
  <2>11. ListsWritten'
    BY <1>2, <2>4, ListsKept DEF DiskInv, Written
  <2>12. DiskTypeOK'
    BY <1>2, <2>4 DEF DiskInv, DiskTypeOK
  <2>13. DamageIsExplained'
    BY <1>1, <1>2 DEF DiskInv, DamageIsExplained, Writing, Moves
  <2> QED BY <1>1, <1>2, <2>6, <2>8, <2>9, <2>10, <2>11, <2>12, <2>13, OthersPreserved DEF DiskInv
<1> QED BY <1>3, <1>4

(* What is in a sequence is its head or in its tail. *)
LEMMA TailHasTheRest ==
    ASSUME NEW S, NEW seq \in Seq(S), seq # <<>>
    PROVE  /\ Head(seq) \in S /\ Tail(seq) \in Seq(S)
           /\ \A j \in DOMAIN seq : seq[j] = Head(seq) \/ \E k \in DOMAIN Tail(seq) : Tail(seq)[k] = seq[j]
<1>1. Len(seq) \in Nat /\ DOMAIN seq = 1 .. Len(seq) /\ Len(seq) # 0 /\ Head(seq) = seq[1]
  OBVIOUS
<1>2. /\ Tail(seq) \in Seq(S) /\ Len(Tail(seq)) = Len(seq) - 1
      /\ DOMAIN Tail(seq) = 1 .. Len(Tail(seq))
      /\ \A k \in 1 .. Len(Tail(seq)) : Tail(seq)[k] = seq[k + 1]
  OBVIOUS
<1>3. ASSUME NEW j \in DOMAIN seq, j # 1 PROVE \E k \in DOMAIN Tail(seq) : Tail(seq)[k] = seq[j]
  <2>1. j - 1 \in DOMAIN Tail(seq) /\ (j - 1) + 1 = j
    BY <1>1, <1>2, <1>3
  <2> QED BY <1>2, <2>1
<1> QED BY <1>1, <1>2, <1>3

LEMMA WriteProfileKeepsDisk ==
    ASSUME DiskInv, NEW t \in Threads, WriteProfile(t)
    PROVE  DiskInv'
<1>1. ThreadsInv' /\ Moves(t, Steps)
  BY LabThreads DEF LabStep
<1> DEFINE s == job[t].stack
           todo == job[t].todo
           row == Head(todo)
<1>2. /\ pc[t] = "profiles" /\ todo # <<>> /\ UNCHANGED <<research, stacks, made, spoiled>>
      /\ files' = [files EXCEPT ![s][row.name] = Profile("whole", row.budget)]
      /\ Goto(t, "profiles", [kind |-> "generate", stack |-> s, state |-> job[t].state, todo |-> Tail(todo)])
  BY DEF WriteProfile
<1>3. /\ pc'[t] = "profiles" /\ job'[t].stack = s /\ job'[t].state = job[t].state /\ job'[t].todo = Tail(todo)
  BY <1>2 DEF Goto, DiskInv, ThreadsInv
<1>4. /\ s \in Generated /\ s \in AllStacks /\ stacks[s].status = "directory" /\ todo \in Seq(Row)
      /\ Refers(job[t].state, stacks, made)
      /\ \A i \in DOMAIN job[t].state.rows :
           \/ files[s][job[t].state.rows[i].name].status # "absent"
           \/ \E j \in DOMAIN todo : todo[j].name = job[t].state.rows[i].name
  BY <1>2 DEF DiskInv, JobOK, AllStacks, Written
<1>5. row \in Row /\ Tail(todo) \in Seq(Row)
      /\ \A j \in DOMAIN todo : todo[j] = row \/ \E k \in DOMAIN Tail(todo) : Tail(todo)[k] = todo[j]
  BY <1>2, <1>4, TailHasTheRest DEF row
<1>6. row.name \in Names /\ row.budget \in Nat
  BY <1>5 DEF Row
<1> HIDE DEF s, todo, row
<1>7. /\ files' \in [AllStacks -> [Names -> File]]
      /\ files'[s][row.name].status = "whole"
      /\ \A r \in AllStacks, name \in Names : files'[r][name] = files[r][name] \/ files'[r][name].status = "whole"
  <2>1. files \in [AllStacks -> [Names -> File]]
    BY DEF DiskInv, DiskTypeOK
  <2>2. Profile("whole", row.budget) \in File /\ Profile("whole", row.budget).status = "whole"
    BY <1>6 DEF Profile, File
  <2> QED BY <1>2, <1>4, <1>6, <2>1, <2>2
<1>8. \A r \in AllStacks, name \in Names : Written(r, name) => Written(r, name)'
  BY <1>7 DEF Written
<1>9. Preserves(t)
  BY <1>2, <1>8 DEF Preserves, DiskInv, JobOK
<1>10. JobOK(t)'
  <2>1. \A i \in DOMAIN job[t].state.rows : job[t].state.rows[i].name \in Names
    <3>1. ASSUME NEW rows \in Seq(Row), NEW i \in DOMAIN rows PROVE rows[i].name \in Names
      <4>1. rows[i] \in Row
        OBVIOUS
      <4> QED BY <4>1 DEF Row
    <3> QED BY <1>4, <3>1 DEF Refers
  <2>2. \A i \in DOMAIN job[t].state.rows :
          \/ files'[s][job[t].state.rows[i].name].status # "absent"
          \/ \E j \in DOMAIN Tail(todo) : Tail(todo)[j].name = job[t].state.rows[i].name
    <3> SUFFICES ASSUME NEW i \in DOMAIN job[t].state.rows
                 PROVE  \/ files'[s][job[t].state.rows[i].name].status # "absent"
                        \/ \E j \in DOMAIN Tail(todo) : Tail(todo)[j].name = job[t].state.rows[i].name
      OBVIOUS
    <3>0. job[t].state.rows[i].name \in Names
      BY <2>1
    <3>1. CASE files[s][job[t].state.rows[i].name].status # "absent"
      BY <1>4, <1>8, <3>0, <3>1 DEF Written
    <3>2. CASE \E j \in DOMAIN todo : todo[j].name = job[t].state.rows[i].name
      <4>1. PICK j \in DOMAIN todo : todo[j].name = job[t].state.rows[i].name
        BY <3>2
      <4>2. CASE todo[j] = row
        BY <1>7, <4>1, <4>2
      <4>3. CASE \E k \in DOMAIN Tail(todo) : Tail(todo)[k] = todo[j]
        BY <4>1, <4>3
      <4> QED BY <1>5, <4>2, <4>3
    <3> QED BY <1>4, <3>1, <3>2
  <2>3. Refers(job'[t].state, stacks', made') /\ job'[t].stack \in Generated
        /\ stacks'[job'[t].stack].status = "directory" /\ job'[t].todo \in Seq(Row)
    BY <1>2, <1>3, <1>4, <1>5
  <2>4. \A i \in DOMAIN job'[t].state.rows :
          \/ files'[job'[t].stack][job'[t].state.rows[i].name].status # "absent"
          \/ \E j \in DOMAIN job'[t].todo : job'[t].todo[j].name = job'[t].state.rows[i].name
    BY <1>3, <2>2
  <2> QED BY <1>3, <2>3, <2>4 DEF JobOK, Written
<1>11. Alone'
  BY <1>1, <1>2, <1>3 DEF DiskInv, Alone, Moves, s
<1>12. ListsWritten' /\ DiskTypeOK'
  BY <1>2, <1>7, <1>8, ListsKept DEF DiskInv, DiskTypeOK
<1>13. DamageIsExplained'
  <2>1. \A r \in AllStacks, name \in Names :
          files'[r][name].status \in {"empty", "torn"} => files'[r][name] = files[r][name]
    BY <1>7
  <2> QED BY <1>1, <1>2, <2>1 DEF DiskInv, DamageIsExplained, Writing, Moves
<1>14. research'.status = "whole" => Refers(research', stacks', made')
  BY <1>2 DEF DiskInv
<1> QED BY <1>1, <1>9, <1>10, <1>11, <1>12, <1>13, <1>14, OthersPreserved DEF DiskInv

LEMMA NamesOfRows ==
    ASSUME NEW rows \in Seq(Row)
    PROVE  NamesOf(rows) \in Seq(Names) /\ DOMAIN NamesOf(rows) = DOMAIN rows
           /\ \A i \in DOMAIN rows : NamesOf(rows)[i] = rows[i].name /\ rows[i].name \in Names
<1>1. Len(rows) \in Nat /\ DOMAIN rows = 1 .. Len(rows) /\ \A i \in DOMAIN rows : rows[i] \in Row
  OBVIOUS
<1>2. \A i \in DOMAIN rows : rows[i].name \in Names
  BY <1>1 DEF Row
<1>3. NamesOf(rows) = [i \in 1 .. Len(rows) |-> rows[i].name]
  BY <1>1 DEF NamesOf
<1>4. NamesOf(rows) \in [1 .. Len(rows) -> Names]
  BY <1>1, <1>2, <1>3
<1> QED BY <1>1, <1>2, <1>3, <1>4

(* The stack that is listed was a directory of this thread alone, and its profiles are there. *)
LEMMA WriteStackKeepsDisk ==
    ASSUME DiskInv, NEW t \in Threads, WriteStack(t)
    PROVE  DiskInv'
<1>1. ThreadsInv' /\ Moves(t, Steps)
  BY LabThreads DEF LabStep
<1> DEFINE s == job[t].stack
           rows == job[t].state.rows
<1>2. /\ pc[t] = "profiles" /\ job[t].todo = <<>> /\ UNCHANGED <<research, files, spoiled>>
      /\ stacks' = [stacks EXCEPT ![s] = [status |-> "listed", names |-> NamesOf(rows)]]
      /\ made' = [made EXCEPT ![s] = rows]
      /\ pc'[t] = "check" /\ job'[t] = job[t]
  BY DEF WriteStack, Goto, DiskInv, ThreadsInv
<1>3. /\ s \in Generated /\ s \in AllStacks /\ stacks[s].status = "directory"
      /\ Refers(job[t].state, stacks, made) /\ rows \in Seq(Row)
  BY <1>2 DEF DiskInv, JobOK, AllStacks, Refers
<1>4. \A i \in DOMAIN rows : Written(s, rows[i].name)
  <2>1. DOMAIN job[t].todo = {}
    BY <1>2
  <2> QED BY <1>2, <2>1 DEF DiskInv, JobOK
<1>5. /\ NamesOf(rows) \in Seq(Names) /\ DOMAIN NamesOf(rows) = DOMAIN rows
      /\ \A i \in DOMAIN rows : NamesOf(rows)[i] = rows[i].name
  BY <1>3, NamesOfRows
<1>6. \A u \in Threads : u # t /\ pc[u] = "profiles" => job[u].stack # s
  BY <1>2 DEF DiskInv, Alone
<1> HIDE DEF s, rows
<1>7. /\ stacks' \in [AllStacks -> [status : {"absent", "directory", "listed"}, names : Seq(Names)]]
      /\ stacks'[s].status = "listed" /\ stacks'[s].names = NamesOf(rows)
      /\ \A r \in AllStacks : r # s => stacks'[r] = stacks[r]
  BY <1>2, <1>3, <1>5 DEF DiskInv, DiskTypeOK
<1>8. DOMAIN made' = Generated /\ made'[s] = rows /\ \A r \in Generated : r # s => made'[r] = made[r]
  BY <1>2, <1>3 DEF DiskInv, DiskTypeOK
<1>9. Preserves(t)
  <2>1. \A r \in Generated : stacks[r].status = "listed" => r # s /\ r \in AllStacks
    BY <1>3 DEF AllStacks
  <2>2. \A u \in Threads : u # t /\ pc[u] = "profiles" => stacks'[job[u].stack].status = "directory"
    BY <1>6, <1>7 DEF DiskInv, JobOK, AllStacks
  <2> QED BY <1>2, <1>7, <1>8, <2>1, <2>2 DEF Preserves, Written
<1>10. JobOK(t)'
  <2>1. Refers(job[t].state, stacks', made')
    BY <1>3, <1>9, RefersPreserved
  <2> QED BY <1>2, <1>3, <1>7, <1>8, <2>1 DEF JobOK, s, rows
<1>11. Alone'
  BY <1>1, <1>2 DEF DiskInv, Alone, Moves
<1>12. DiskTypeOK'
  BY <1>2, <1>7, <1>8 DEF DiskInv, DiskTypeOK
<1>13. ListsWritten'
  <2> SUFFICES ASSUME NEW r \in AllStacks, stacks'[r].status = "listed", NEW i \in DOMAIN stacks'[r].names
               PROVE  files'[r][stacks'[r].names[i]].status # "absent"
    BY DEF ListsWritten, Written
  <2>1. CASE r = s
    BY <1>2, <1>4, <1>5, <1>7, <2>1 DEF Written
  <2>2. CASE r # s
    BY <1>2, <1>7, <2>2 DEF DiskInv, ListsWritten, Written
  <2> QED BY <2>1, <2>2
<1>14. DamageIsExplained'
  BY <1>1, <1>2 DEF DiskInv, DamageIsExplained, Writing, Moves
<1>15. research'.status = "whole" => Refers(research', stacks', made')
  BY <1>2, <1>9, RefersPreserved DEF DiskInv
<1> QED BY <1>1, <1>9, <1>10, <1>11, <1>12, <1>13, <1>14, <1>15, OthersPreserved DEF DiskInv

LEMMA CutProfileKeepsDisk ==
    ASSUME DiskInv, NEW t \in Threads, CutProfile(t)
    PROVE  DiskInv'
<1>1. ThreadsInv' /\ Moves(t, Steps)
  BY LabThreads DEF LabStep
<1> DEFINE s == job[t].stack
           name == job[t].name
<1>2. /\ pc[t] = "cut" /\ pc'[t] = "paste" /\ job'[t] = job[t]
      /\ files' = [files EXCEPT ![s][name] = Profile("empty", 0)]
      /\ UNCHANGED <<research, stacks, made, spoiled>>
  BY DEF CutProfile, Goto, DiskInv, ThreadsInv
<1>3. s \in AllStacks /\ name \in Names
  BY <1>2 DEF DiskInv, JobOK
<1> HIDE DEF s, name
<1>4. /\ files' \in [AllStacks -> [Names -> File]]
      /\ files'[s][name].status = "empty"
      /\ \A r \in AllStacks, n \in Names : <<r, n>> # <<s, name>> => files'[r][n] = files[r][n]
  <2>1. files \in [AllStacks -> [Names -> File]]
    BY DEF DiskInv, DiskTypeOK
  <2>2. Profile("empty", 0) \in File /\ Profile("empty", 0).status = "empty"
    BY DEF Profile, File
  <2> QED BY <1>2, <1>3, <2>1, <2>2
<1>5. \A r \in AllStacks, n \in Names : Written(r, n) => Written(r, n)'
  BY <1>4 DEF Written
<1>6. Preserves(t)
  BY <1>2, <1>5 DEF Preserves, DiskInv, JobOK
<1>7. JobOK(t)'
  BY <1>2 DEF DiskInv, JobOK
<1>8. Alone'
  BY <1>1, <1>2 DEF DiskInv, Alone, Moves
<1>9. ListsWritten' /\ DiskTypeOK'
  BY <1>2, <1>4, <1>5, ListsKept DEF DiskInv, DiskTypeOK
<1>10. DamageIsExplained'
  <2>1. t \in Writing("paste")' /\ job'[t].stack = s /\ job'[t].name = name
    BY <1>2 DEF Writing, s, name
  <2>2. \A r \in AllStacks, n \in Names : ~(r = s /\ n = name) => files'[r][n] = files[r][n]
    BY <1>4
  <2>3. \A step : step \in {"paste", "paste_research"} =>
           \A u \in Writing(step) : u \in Writing(step)' /\ job'[u] = job[u]
    BY <1>1, <1>2 DEF Moves, Writing
  <2>4. \A r \in AllStacks, n \in Names :
          /\ files'[r][n].status = "torn" => <<r, n>> \in spoiled
          /\ files'[r][n].status = "empty" =>
               \/ <<r, n>> \in spoiled
               \/ \E u \in Writing("paste")' : job'[u].stack = r /\ job'[u].name = n
    <3> SUFFICES ASSUME NEW r \in AllStacks, NEW n \in Names
                 PROVE  /\ files'[r][n].status = "torn" => <<r, n>> \in spoiled
                        /\ files'[r][n].status = "empty" =>
                             \/ <<r, n>> \in spoiled
                             \/ \E u \in Writing("paste")' : job'[u].stack = r /\ job'[u].name = n
      OBVIOUS
    <3>1. CASE r = s /\ n = name
      BY <1>4, <2>1, <3>1
    <3>2. CASE ~(r = s /\ n = name)
      BY <2>2, <2>3, <3>2 DEF DiskInv, DamageIsExplained
    <3> QED BY <3>1, <3>2
  <2>5. Writing("paste_research") # {} => Writing("paste_research")' # {}
    BY <2>3
  <2> QED BY <1>2, <2>4, <2>5 DEF DiskInv, DamageIsExplained
<1>11. research'.status = "whole" => Refers(research', stacks', made')
  BY <1>2 DEF DiskInv
<1> QED BY <1>1, <1>6, <1>7, <1>8, <1>9, <1>10, <1>11, OthersPreserved DEF DiskInv

LEMMA PasteProfileKeepsDisk ==
    ASSUME DiskInv, NEW t \in Threads, PasteProfile(t)
    PROVE  DiskInv'
<1>1. ThreadsInv' /\ Moves(t, Steps)
  BY LabThreads DEF LabStep
<1> DEFINE s == job[t].stack
           name == job[t].name
           old == files[s][name].status
           text == job[t].text
<1>2. /\ pc[t] = "paste" /\ pc'[t] = "read" /\ job'[t] = job[t]
      /\ \/ files' = [files EXCEPT ![s][name] = text]
         \/ old # "empty" /\ files' = [files EXCEPT ![s][name] = Profile("torn", 0)]
      /\ Spoil(old, text.status, <<s, name>>)
      /\ UNCHANGED <<research, stacks, made>>
  BY DEF PasteProfile, Goto, Outcomes, DiskInv, ThreadsInv
<1>3. s \in AllStacks /\ name \in Names /\ text \in File /\ text.status # "absent"
  BY <1>2 DEF DiskInv, JobOK
<1> HIDE DEF s, name, old, text
<1>4. /\ files' \in [AllStacks -> [Names -> File]]
      /\ files'[s][name] = text \/ (old # "empty" /\ files'[s][name].status = "torn")
      /\ \A r \in AllStacks, n \in Names : <<r, n>> # <<s, name>> => files'[r][n] = files[r][n]
  <2>1. files \in [AllStacks -> [Names -> File]]
    BY DEF DiskInv, DiskTypeOK
  <2>2. Profile("torn", 0) \in File /\ Profile("torn", 0).status = "torn"
    BY DEF Profile, File
  <2>3. PICK written \in File :
          /\ files' = [files EXCEPT ![s][name] = written]
          /\ written = text \/ (old # "empty" /\ written.status = "torn")
    <3>1. CASE files' = [files EXCEPT ![s][name] = text]
      BY <1>3, <3>1
    <3>2. CASE old # "empty" /\ files' = [files EXCEPT ![s][name] = Profile("torn", 0)]
      BY <2>2, <3>2
    <3> QED BY <1>2, <3>1, <3>2
  <2>4. /\ files' \in [AllStacks -> [Names -> File]] /\ files'[s][name] = written
        /\ \A r \in AllStacks, n \in Names : <<r, n>> # <<s, name>> => files'[r][n] = files[r][n]
    BY <1>3, <2>1, <2>3
  <2>5. files'[s][name] = text \/ (old # "empty" /\ files'[s][name].status = "torn")
    <3>1. files'[s][name] = written
      BY <2>4
    <3>2. CASE written = text
      BY <3>1, <3>2
    <3>3. CASE old # "empty" /\ written.status = "torn"
      BY <3>1, <3>3
    <3> QED BY <2>3, <3>2, <3>3
  <2> QED BY <2>4, <2>5
<1>5. \A r \in AllStacks, n \in Names : Written(r, n) => Written(r, n)'
  BY <1>3, <1>4 DEF Written
<1>6. Preserves(t)
  BY <1>2, <1>5 DEF Preserves, DiskInv, JobOK
<1>7. JobOK(t)'
  BY <1>2 DEF DiskInv, JobOK
<1>8. Alone'
  BY <1>1, <1>2 DEF DiskInv, Alone, Moves
<1>9. ListsWritten' /\ DiskTypeOK'
  BY <1>2, <1>4, <1>5, ListsKept DEF DiskInv, DiskTypeOK
<1>10. DamageIsExplained'
  <2>1. files'[s][name].status \in {"empty", "torn"} => <<s, name>> \in spoiled'
    BY <1>2, <1>4 DEF Spoil
  <2>2. \A r \in AllStacks, n \in Names : ~(r = s /\ n = name) =>
           files'[r][n] = files[r][n] /\ (<<r, n>> \in spoiled => <<r, n>> \in spoiled')
    BY <1>2, <1>4 DEF Spoil
  <2>3. ResearchFile \in spoiled => ResearchFile \in spoiled'
    <3>1. ResearchFile # <<s, name>>
      BY <1>3, LabAssumption DEF AllStacks, ResearchFile
    <3> QED BY <1>2, <3>1 DEF Spoil
  <2>4. \A u \in Threads : u # t => pc'[u] = pc[u] /\ job'[u] = job[u]
    BY <1>1 DEF Moves
  <2>5. \A r \in AllStacks, n \in Names :
          ~(r = s /\ n = name) /\ pc[t] = "paste" /\ job[t].stack = r /\ job[t].name = n => FALSE
    BY DEF s, name
  <2> QED BY <1>2, <2>1, <2>2, <2>3, <2>4, <2>5 DEF DiskInv, DamageIsExplained, Writing
<1>11. research'.status = "whole" => Refers(research', stacks', made')
  BY <1>2 DEF DiskInv
<1> QED BY <1>1, <1>6, <1>7, <1>8, <1>9, <1>10, <1>11, OthersPreserved DEF DiskInv

LEMMA RestartKeepsDisk ==
    ASSUME DiskInv, Restart
    PROVE  DiskInv'
<1>1. /\ pc' = [t \in Threads |-> "idle"] /\ job' = [t \in Threads |-> NoJob]
      /\ UNCHANGED <<session, research, stacks, files, made>>
      /\ spoiled \subseteq spoiled'
      /\ research.status = "empty" => ResearchFile \in spoiled'
      /\ \A s \in AllStacks, n \in Names : files[s][n].status = "empty" => <<s, n>> \in spoiled'
  BY DEF Restart
<1>2. ThreadsInv' /\ \A t \in Threads : JobOK(t)'
  BY <1>1 DEF DiskInv, ThreadsInv, JobOK, Steps
<1>3. Alone'
  BY <1>1 DEF Alone
<1>4. DiskTypeOK' /\ ListsWritten' /\ (research'.status = "whole" => Refers(research', stacks', made'))
  BY <1>1 DEF DiskInv, DiskTypeOK, ListsWritten, Written
<1>5. DamageIsExplained'
  BY <1>1 DEF DiskInv, DamageIsExplained
<1> QED BY <1>2, <1>3, <1>4, <1>5 DEF DiskInv

LEMMA NextKeepsDisk == DiskInv /\ [Next]_vars => DiskInv'
<1> SUFFICES ASSUME DiskInv, [Next]_vars PROVE DiskInv'
  OBVIOUS
<1>1. CASE Serve
  BY <1>1, ServeKeepsDisk DEF Serve
<1>2. CASE PortfolioActs
  BY <1>2, PortfolioKeepsDisk DEF PortfolioActs
<1>3. CASE LabActs
  <2>1. PICK t \in Threads : LabStep(t)
    BY <1>3 DEF LabActs
  <2>2. CASE ResearchScan(t) \/ CheckStack(t) \/ LoadTarget(t) \/ ReadProfile(t)
             \/ ShowDeployment(t) \/ ComputeSuggestions(t)
    BY <2>2, ReadersKeepDisk
  <2>3. CASE CutResearch(t) \/ PasteResearch(t) \/ GenerateStack(t)
    BY <2>3, CutResearchKeepsDisk, PasteResearchKeepsDisk, GenerateKeepsDisk
  <2>4. CASE WriteProfile(t) \/ WriteStack(t)
    BY <2>4, WriteProfileKeepsDisk, WriteStackKeepsDisk
  <2>5. CASE CutProfile(t) \/ PasteProfile(t)
    BY <2>5, CutProfileKeepsDisk, PasteProfileKeepsDisk
  <2> QED BY <2>1, <2>2, <2>3, <2>4, <2>5 DEF LabStep
<1>4. CASE Tick \/ UNCHANGED vars
  <2>1. UNCHANGED <<session, pc, job, research, stacks, files, made, spoiled>>
    BY <1>4 DEF Tick, PortfolioTick, LabTick, vars, serverVars, labVars
  <2>2. ThreadsInv' /\ (\A t \in Threads : JobOK(t)')
    <3>1. ThreadsInv'
      BY <2>1 DEF DiskInv, ThreadsInv
    <3>2. ASSUME NEW t \in Threads PROVE JobOK(t)'
      <4>1. JobOK(t)
        BY DEF DiskInv
      <4> QED BY <2>1, <4>1 DEF JobOK, Refers, Written
    <3> QED BY <3>1, <3>2
  <2>3. Alone' /\ DiskTypeOK' /\ ListsWritten' /\ (research'.status = "whole" => Refers(research', stacks', made'))
    BY <2>1 DEF DiskInv, Alone, DiskTypeOK, ListsWritten, Written
  <2>4. DamageIsExplained'
    BY <2>1 DEF DiskInv, DamageIsExplained, Writing
  <2> QED BY <2>2, <2>3, <2>4 DEF DiskInv
<1>5. CASE Restart
  BY <1>5, RestartKeepsDisk
<1> QED BY <1>1, <1>2, <1>3, <1>4, <1>5 DEF Next

LEMMA DiskInit == Init => DiskInv
<1> SUFFICES ASSUME Init PROVE DiskInv
  OBVIOUS
<1>1. ThreadsInv /\ \A t \in Threads : pc[t] = "idle"
  BY ThreadsInit DEF Init, ServerInit
<1>2. Shipped \in Seq(Row)
  BY LabAssumption DEF Row
<1>3. /\ NamesOf(Shipped) \in Seq(Names) /\ DOMAIN NamesOf(Shipped) = DOMAIN Shipped
      /\ \A i \in DOMAIN Shipped : NamesOf(Shipped)[i] = Shipped[i].name /\ Shipped[i].name \in Names
  BY <1>2, NamesOfRows
<1>4. \A row \in Range(Shipped) : row.name \in Names /\ row.budget \in Nat
  <2>1. \A i \in DOMAIN Shipped : Shipped[i] \in Row
    BY <1>2
  <2> QED BY <2>1 DEF Range, Row
<1>5. /\ research = [status |-> "absent"] /\ DOMAIN made = Generated
      /\ stacks = [s \in AllStacks |-> IF s = "shipped" THEN [status |-> "listed", names |-> NamesOf(Shipped)]
                                       ELSE [status |-> "absent", names |-> <<>>]]
      /\ files = [s \in AllStacks |-> [n \in Names |->
                    IF s = "shipped" /\ \E row \in Range(Shipped) : row.name = n
                      THEN Profile("whole", (CHOOSE row \in Range(Shipped) : row.name = n).budget)
                      ELSE Profile("absent", 0)]]
  BY DEF Init, LabInit
<1>6. \A s \in AllStacks, n \in Names : files[s][n] \in File /\ files[s][n].status \in {"whole", "absent"}
      /\ (s = "shipped" /\ (\E row \in Range(Shipped) : row.name = n) => files[s][n].status = "whole")
  <2> SUFFICES ASSUME NEW s \in AllStacks, NEW n \in Names
               PROVE  /\ files[s][n] \in File /\ files[s][n].status \in {"whole", "absent"}
                      /\ (s = "shipped" /\ (\E row \in Range(Shipped) : row.name = n) => files[s][n].status = "whole")
    OBVIOUS
  <2>1. CASE s = "shipped" /\ \E row \in Range(Shipped) : row.name = n
    <3> DEFINE row == CHOOSE row \in Range(Shipped) : row.name = n
    <3>1. row \in Range(Shipped)
      BY <2>1
    <3>2. files[s][n] = Profile("whole", row.budget)
      BY <1>5, <2>1
    <3> HIDE DEF row
    <3> QED BY <1>4, <3>1, <3>2 DEF Profile, File
  <2>2. CASE ~(s = "shipped" /\ \E row \in Range(Shipped) : row.name = n)
    <3>1. files[s][n] = Profile("absent", 0)
      BY <1>5, <2>2
    <3> QED BY <2>2, <3>1 DEF Profile, File
  <2> QED BY <2>1, <2>2
<1>7. files \in [AllStacks -> [Names -> File]]
  <2>1. /\ DOMAIN files = AllStacks
        /\ \A s \in AllStacks : DOMAIN files[s] = Names /\ files[s] = [n \in Names |-> files[s][n]]
        /\ files = [s \in AllStacks |-> files[s]]
    BY <1>5
  <2>2. \A s \in AllStacks : files[s] \in [Names -> File]
    BY <1>6, <2>1
  <2> QED BY <2>1, <2>2
<1>8. DiskTypeOK
  BY <1>3, <1>5, <1>7 DEF DiskTypeOK
<1>9. ListsWritten
  <2> SUFFICES ASSUME NEW s \in AllStacks, stacks[s].status = "listed", NEW i \in DOMAIN stacks[s].names
               PROVE  files[s][stacks[s].names[i]].status # "absent"
    BY DEF ListsWritten, Written
  <2>1. s = "shipped" /\ stacks[s].names = NamesOf(Shipped)
    BY <1>5
  <2>2. i \in DOMAIN Shipped /\ stacks[s].names[i] = Shipped[i].name /\ Shipped[i].name \in Names
    BY <1>3, <2>1
  <2>3. Shipped[i] \in Range(Shipped)
    BY <2>2 DEF Range
  <2> QED BY <1>6, <2>1, <2>2, <2>3
<1>10. DamageIsExplained
  BY <1>5, <1>6 DEF DamageIsExplained
<1>11. Alone /\ \A t \in Threads : JobOK(t)
  BY <1>1 DEF Alone, JobOK
<1> QED BY <1>1, <1>5, <1>8, <1>9, <1>10, <1>11 DEF DiskInv

(* However requests overlap and wherever the dashboard is killed, a stack file lists profiles
   that have been written, the result of a scan names the stack generated from it, and a file
   that cannot be read is being written or was damaged by two writers or a kill. *)
THEOREM DiskStaysConsistent == Spec => []DiskIsConsistent
<1> QED BY DiskInit, NextKeepsDisk, DiskInvImpliesConsistent, PTL DEF Spec

-----------------------------------------------------------------------------
(* The advice: the money a snapshot carries to the deployment section, the stacks it has seen
   there and the scores there are, and how the advice shown last was made of them. *)
AdviceSteps == {"portfolio", "account", "sections", "deployment", "compute"}

(* Stacks that have been read, and scores: they have names, and numbers. *)
IsSeen(seen) ==
    /\ DOMAIN seen # {}
    /\ \A s \in DOMAIN seen : /\ s \in AllStacks
                              /\ seen[s].names \in Seq(Names) /\ seen[s].names # <<>>
                              /\ seen[s].budgets \in [DOMAIN seen[s].names -> Nat]
IsScores(scores) == \A path \in DOMAIN scores : scores[path] \in Nat

(* Parts of something, of which there is more than nothing. *)
IsParts(parts, n) == parts \in [1..n -> Nat] /\ SumFunction(parts) # 0

(* The suggestions for a stack are shares of the money by parts. *)
Shared(s, plan, money) ==
    \E n \in Nat : \E parts :
        /\ IsParts(parts, n) /\ plan.budgets \in [1..n -> Nat]
        /\ s # "shipped" /\ SumFunction(plan.budgets) > 0 => parts = plan.budgets
        /\ plan.suggested = [i \in 1..n |-> Share(money, parts[i], SumFunction(parts))]

AdviceJob(t) ==
    /\ pc[t] \in AdviceSteps => "money" \in DOMAIN job[t] /\ job[t].money \in Nat
    /\ pc[t] = "compute" => IsSeen(job[t].seen) /\ IsScores(job[t].old) /\ job[t].paths \subseteq AllStacks \X Names

AdviceInv ==
    /\ \A t \in Threads : AdviceJob(t)
    /\ {"age", "scores"} \subseteq DOMAIN suggestions /\ IsScores(suggestions.scores)
    /\ \A s \in DOMAIN advice.plans : advice.money \in Nat /\ Shared(s, advice.plans[s], advice.money)

(* Shares of the money make it up and, of budgets, keep their ratios. *)
LEMMA SharedIsSound ==
    ASSUME NEW s, NEW plan, NEW money \in Nat, Shared(s, plan, money)
    PROVE  /\ Near(SumFunction(plan.suggested), money, Len(plan.suggested))
           /\ s # "shipped" /\ SumFunction(plan.budgets) > 0 =>
                \A i \in DOMAIN plan.budgets :
                    Near(plan.suggested[i] * SumFunction(plan.budgets), money * plan.budgets[i],
                         SumFunction(plan.budgets))
  <1>0. PICK n \in Nat : \E parts :
          /\ IsParts(parts, n) /\ plan.budgets \in [1..n -> Nat]
          /\ s # "shipped" /\ SumFunction(plan.budgets) > 0 => parts = plan.budgets
          /\ plan.suggested = [i \in 1..n |-> Share(money, parts[i], SumFunction(parts))]
    BY DEF Shared
  <1>1. PICK parts :
          /\ IsParts(parts, n) /\ plan.budgets \in [1..n -> Nat]
          /\ s # "shipped" /\ SumFunction(plan.budgets) > 0 => parts = plan.budgets
          /\ plan.suggested = [i \in 1..n |-> Share(money, parts[i], SumFunction(parts))]
    BY <1>0
  <1>2. /\ DOMAIN parts = 1..n /\ IsFiniteSet(DOMAIN parts) /\ Cardinality(DOMAIN parts) = n
        /\ \A i \in DOMAIN parts : parts[i] \in Nat
    <2>1. IsFiniteSet(1..n) /\ Cardinality(1..n) = n
      <3>1. Cardinality(1..n) = IF 1 > n THEN 0 ELSE n - 1 + 1
        BY FS_Interval
      <3>. QED
        BY <3>1, FS_Interval
    <2>2. parts \in [1..n -> Nat]
      BY <1>1 DEF IsParts
    <2>. QED
      BY <2>1, <2>2
  <1>3. SumFunction(parts) \in Nat \ {0}
    BY <1>1, <1>2, SumOfNats DEF IsParts
  <1>4. Len(plan.suggested) = n
    BY <1>1
  <1>5. plan.suggested = [i \in DOMAIN parts |-> Share(money, parts[i], SumFunction(parts))]
    BY <1>1, <1>2
  <1>6. Near(SumFunction(plan.suggested), money, n)
    BY <1>1, <1>2, <1>5, SharesOfAll DEF IsParts
  <1>7. ASSUME s # "shipped", SumFunction(plan.budgets) > 0, NEW i \in DOMAIN plan.budgets
        PROVE  Near(plan.suggested[i] * SumFunction(plan.budgets), money * plan.budgets[i],
                    SumFunction(plan.budgets))
    <2>. DEFINE total == SumFunction(plan.budgets)
                share == Share(money, plan.budgets[i], total)
                budget == plan.budgets[i]
    <2>1. plan.budgets = parts /\ i \in 1..n /\ plan.suggested[i] = share
      BY <1>1, <1>7
    <2>2. budget \in Nat /\ total \in Nat \ {0}
      BY <1>2, <1>3, <2>1
    <2>. HIDE DEF total, budget
    <2>3. share \in Nat /\ Near(2 * (total * share), 2 * (money * budget), total)
      BY <2>2, ShareRounds DEF budget
    <2>. HIDE DEF share
    <2>4. share * total = total * share /\ total * share \in Nat /\ money * budget \in Nat
      BY <2>2, <2>3
    <2>5. Near(share * total, money * budget, total)
      BY <2>2, <2>3, <2>4 DEF Near
    <2>. QED
      BY <2>1, <2>5 DEF total, budget
  <1>. QED
    BY <1>4, <1>6, <1>7

(* That is what AdviceIsSound asks of the advice shown. *)
LEMMA AdviceInvIsSound == AdviceInv => AdviceIsSound
  <1>. SUFFICES ASSUME AdviceInv, NEW s \in DOMAIN advice.plans
                PROVE  LET plan == advice.plans[s]
                           total == SumFunction(plan.budgets)
                       IN  /\ Near(SumFunction(plan.suggested), advice.money, Len(plan.suggested))
                           /\ s \in Generated /\ total > 0 /\ plan.budgets = BudgetsOf(made[s]) =>
                                \A i \in DOMAIN plan.budgets :
                                   Near(plan.suggested[i] * total, advice.money * made[s][i].budget, total)
    BY DEF AdviceIsSound
  <1>. DEFINE plan == advice.plans[s]
              total == SumFunction(plan.budgets)
  <1>1. advice.money \in Nat /\ Shared(s, plan, advice.money)
    BY DEF AdviceInv
  <1>. HIDE DEF plan, total
  <1>2. Near(SumFunction(plan.suggested), advice.money, Len(plan.suggested))
    BY <1>1, SharedIsSound
  <1>3. ASSUME s \in Generated, total > 0, plan.budgets = BudgetsOf(made[s]), NEW i \in DOMAIN plan.budgets
        PROVE  Near(plan.suggested[i] * total, advice.money * made[s][i].budget, total)
    <2>1. s # "shipped"
      BY <1>3, LabAssumption
    <2>2. Near(plan.suggested[i] * total, advice.money * plan.budgets[i], total)
      BY <1>1, <1>3, <2>1, SharedIsSound DEF total
    <2>3. plan.budgets[i] = made[s][i].budget
      BY <1>3 DEF BudgetsOf
    <2>. QED
      BY <2>2, <2>3
  <1>. QED
    BY <1>2, <1>3 DEF plan, total

(* Nothing has been suggested at first. *)
LEMMA AdviceInit == Init => AdviceInv
BY DEF Init, ServerInit, LabInit, AdviceInv, AdviceJob, AdviceSteps, IsScores

(* A step that leaves the suggestions alone keeps them sound, if its own thread is. *)
LEMMA OtherStepsKeepAdvice ==
    ASSUME AdviceInv, NEW t \in Threads, Moves(t, Steps), AdviceJob(t)', UNCHANGED <<suggestions, advice>>
    PROVE  AdviceInv'
<1>1. \A u \in Threads : AdviceJob(u)'
  <2>. SUFFICES ASSUME NEW u \in Threads, u # t PROVE AdviceJob(u)'
    OBVIOUS
  <2>1. AdviceJob(u) /\ pc'[u] = pc[u] /\ job'[u] = job[u]
    BY DEF AdviceInv, Moves
  <2>. QED
    BY <2>1 DEF AdviceJob
<1>2. IsScores(suggestions'.scores) /\ {"age", "scores"} \subseteq DOMAIN suggestions'
  BY DEF AdviceInv
<1>3. \A s \in DOMAIN advice'.plans : advice'.money \in Nat /\ Shared(s, advice'.plans[s], advice'.money)
  BY DEF AdviceInv
<1> QED BY <1>1, <1>2, <1>3 DEF AdviceInv

(* A snapshot starts without any money known. *)
LEMMA ServeKeepsAdvice ==
    ASSUME DiskInv, AdviceInv, NEW t \in Threads, DoGet(t) \/ DoPost(t), UNCHANGED labVars
    PROVE  AdviceInv'
<1>1. Moves(t, Steps)
  BY ServeKeepsThreads DEF DiskInv
<1>2. AdviceJob(t)'
  <2>1. CASE DoGet(t)
    BY <2>1 DEF DoGet, Goto, AdviceJob, AdviceSteps, DiskInv, ThreadsInv
  <2>2. CASE DoPost(t)
    <3>1. PICK request \in session.posts : pc' = [pc EXCEPT ![t] = FirstStep[request.kind]]
      BY <2>2 DEF DoPost
    <3>2. request.kind \in DOMAIN FirstStep
      BY <3>1, ServerAssumption DEF DiskInv, ThreadsInv
    <3>3. FirstStep[request.kind] \in {"invalidate", "scan", "generate", "load"}
      BY <3>2 DEF FirstStep
    <3> QED BY <3>1, <3>3 DEF AdviceJob, AdviceSteps, DiskInv, ThreadsInv
  <2> QED BY <2>1, <2>2
<1> QED BY <1>1, <1>2, OtherStepsKeepAdvice DEF labVars

(* The overview gives it the free money it shows, a whole number. *)
LEMMA PortfolioKeepsAdvice ==
    ASSUME OverviewInv, AdviceInv, NEW t \in Threads, PortfolioStep(t), UNCHANGED labVars
    PROVE  AdviceInv'
<1>1. Moves(t, Steps)
  BY PortfolioKeepsThreads DEF OverviewInv
<1>2. AdviceJob(t) /\ pc \in [Threads -> Steps] /\ DOMAIN job = Threads
  BY DEF AdviceInv, OverviewInv, ThreadsInv
<1>3. ASSUME NEW payload, payload.ok => payload.spot \in Nat, pc[t] \in AdviceSteps, Show(t, payload)
      PROVE  AdviceJob(t)'
  BY <1>2, <1>3 DEF Show, Goto, AdviceJob
<1>4. AdviceJob(t)'
  <2>1. CASE InvalidatePortfolioCache(t) \/ FindPosition(t) \/ RedeemPosition(t)
    <3>1. pc'[t] \in {"find", "redeem", "idle"}
      BY <1>2, <2>1 DEF InvalidatePortfolioCache, FindPosition, RedeemPosition, Goto, Answer
    <3> QED BY <3>1 DEF AdviceJob, AdviceSteps
  <2>2. CASE AskPortfolio(t)
    <3>1. CASE Show(t, cache)
      <4>1. cache.ok => cache.spot \in Nat
        BY PortfolioAssumption DEF OverviewInv, PortfolioTypeOK
      <4>2. pc[t] \in AdviceSteps
        BY <2>2 DEF AskPortfolio, AdviceSteps
      <4> QED BY <1>3, <3>1, <4>1, <4>2
    <3>2. CASE Goto(t, "account", job[t])
      BY <1>2, <2>2, <3>2 DEF AskPortfolio, Goto, AdviceJob, AdviceSteps
    <3> QED BY <2>2, <3>1, <3>2 DEF AskPortfolio
  <2>3. CASE ReadAccount(t)
    <3>1. CASE Show(t, Failed)
      <4>1. Failed.ok => Failed.spot \in Nat
        BY DEF Failed
      <4>2. pc[t] \in AdviceSteps
        BY <2>3 DEF ReadAccount, AdviceSteps
      <4> QED BY <1>3, <3>1, <4>1, <4>2
    <3>2. CASE Goto(t, "sections", job[t])
      BY <1>2, <2>3, <3>2 DEF ReadAccount, Goto, AdviceJob, AdviceSteps
    <3> QED BY <2>3, <3>1, <3>2 DEF ReadAccount, FillCache
  <2>4. CASE ReadSections(t)
    <3>1. pc[t] \in AdviceSteps
      BY <2>4 DEF ReadSections, AdviceSteps
    <3>2. CASE Show(t, Failed)
      <4>1. Failed.ok => Failed.spot \in Nat
        BY DEF Failed
      <4> QED BY <1>3, <3>1, <3>2, <4>1
    <3>3. CASE \E shown \in {0, earn} : Show(t, [reading EXCEPT !.earn = shown])
      <4>1. PICK shown \in {0, earn} : Show(t, [reading EXCEPT !.earn = shown])
        BY <3>3
      <4>2. [reading EXCEPT !.earn = shown].spot \in Nat
        BY PortfolioAssumption DEF OverviewInv, PortfolioTypeOK
      <4> QED BY <1>3, <3>1, <4>1, <4>2
    <3> QED BY <2>4, <3>2, <3>3 DEF ReadSections, FillCache
  <2> QED BY <2>1, <2>2, <2>3, <2>4 DEF PortfolioStep
<1> QED BY <1>1, <1>4, OtherStepsKeepAdvice DEF labVars

(* What _deployment_section makes of the stacks it has seen. *)
LEMMA PartsOfStack ==
    ASSUME NEW n \in Nat \ {0}, NEW budgets \in [1..n -> Nat], NEW scores \in [1..n -> Nat], NEW generated \in BOOLEAN
    PROVE  /\ IsParts(SuggestedParts(generated, budgets, scores), n)
           /\ generated /\ SumFunction(budgets) > 0 => SuggestedParts(generated, budgets, scores) = budgets
<1>1. /\ IsFiniteSet(DOMAIN budgets) /\ IsFiniteSet(DOMAIN scores)
      /\ SumFunction(budgets) \in Nat /\ SumFunction(scores) \in Nat
  <2>1. IsFiniteSet(1..n)
    BY FS_Interval
  <2>2. DOMAIN budgets = 1..n /\ \A i \in DOMAIN budgets : budgets[i] \in Nat
    OBVIOUS
  <2>3. DOMAIN scores = 1..n /\ \A i \in DOMAIN scores : scores[i] \in Nat
    OBVIOUS
  <2>4. SumFunction(budgets) \in Nat
    BY <2>1, <2>2, SumOfNats
  <2>5. SumFunction(scores) \in Nat
    BY <2>1, <2>3, SumOfNats
  <2> QED BY <2>1, <2>2, <2>3, <2>4, <2>5
<1> DEFINE equal == [i \in DOMAIN budgets |-> 1]
<1>2. IsParts(equal, n)
  <2>1. DOMAIN equal = 1..n /\ \A i \in DOMAIN equal : equal[i] = 1
    OBVIOUS
  <2>2. equal \in [1..n -> Nat]
    OBVIOUS
  <2> HIDE DEF equal
  <2>3. IsFiniteSet(DOMAIN equal) /\ (\A i \in DOMAIN equal : equal[i] \in Nat) /\ 1 \in DOMAIN equal
    BY <1>1, <2>1
  <2>4. SumFunction(equal) \in Nat /\ equal[1] <= SumFunction(equal)
    BY <2>3, SumOfNats
  <2>5. SumFunction(equal) # 0
    BY <2>1, <2>3, <2>4
  <2> QED BY <2>2, <2>5 DEF IsParts
<1> HIDE DEF equal
<1>3. SuggestedParts(generated, budgets, scores) =
        IF generated /\ SumFunction(budgets) > 0 THEN budgets
        ELSE IF SumFunction(scores) > 0 THEN scores ELSE equal
  BY DEF SuggestedParts, equal
<1>4. CASE generated /\ SumFunction(budgets) > 0
  BY <1>1, <1>3, <1>4 DEF IsParts
<1>5. CASE ~(generated /\ SumFunction(budgets) > 0) /\ SumFunction(scores) > 0
  BY <1>1, <1>3, <1>5 DEF IsParts
<1>6. CASE ~(generated /\ SumFunction(budgets) > 0) /\ ~(SumFunction(scores) > 0)
  BY <1>2, <1>3, <1>6
<1> QED BY <1>4, <1>5, <1>6

(* So the plan of a stack shares the money there is. *)
LEMMA PlanIsShared ==
    ASSUME NEW seen, IsSeen(seen), NEW scores, IsScores(scores), NEW s \in DOMAIN seen, NEW money \in Nat
    PROVE  Shared(s, PlanOf(s, seen, scores, money), money)
<1> DEFINE names == seen[s].names
           budgets == seen[s].budgets
           n == Len(names)
           score == [i \in DOMAIN names |-> IF <<s, names[i]>> \in DOMAIN scores THEN scores[<<s, names[i]>>] ELSE 0]
           parts == SuggestedParts(s # "shipped", budgets, score)
<1>1. n \in Nat \ {0} /\ DOMAIN names = 1..n
  <2>1. names \in Seq(Names) /\ names # <<>>
    BY DEF IsSeen
  <2> HIDE DEF names
  <2> QED BY <2>1
<1>2. budgets \in [1..n -> Nat]
  BY <1>1 DEF IsSeen
<1>3. score \in [1..n -> Nat]
  <2> HIDE DEF names, n
  <2> QED BY <1>1 DEF IsScores
<1>4. /\ IsParts(parts, n)
      /\ s # "shipped" /\ SumFunction(budgets) > 0 => parts = budgets
  <2> HIDE DEF budgets, score, n
  <2> QED BY <1>1, <1>2, <1>3, PartsOfStack
<1>5. PlanOf(s, seen, scores, money) = [budgets |-> budgets, suggested |-> SuggestedBudgets(parts, money)]
  BY DEF PlanOf
<1>6. SuggestedBudgets(parts, money) = [i \in 1..n |-> Share(money, parts[i], SumFunction(parts))]
  <2>1. DOMAIN parts = 1..n
    <3> HIDE DEF parts, n
    <3> QED BY <1>4 DEF IsParts
  <2> HIDE DEF parts, n
  <2> QED BY <2>1 DEF SuggestedBudgets
<1> DEFINE plan == PlanOf(s, seen, scores, money)
<1>7. plan.budgets = budgets /\ plan.suggested = [i \in 1..n |-> Share(money, parts[i], SumFunction(parts))]
  BY <1>5, <1>6
<1> HIDE DEF parts, n, budgets, plan
<1>8. /\ IsParts(parts, n) /\ plan.budgets \in [1..n -> Nat]
      /\ s # "shipped" /\ SumFunction(plan.budgets) > 0 => parts = plan.budgets
      /\ plan.suggested = [i \in 1..n |-> Share(money, parts[i], SumFunction(parts))]
  BY <1>2, <1>4, <1>7
<1>9. Shared(s, plan, money)
  <2>1. \E shares :
          /\ IsParts(shares, n) /\ plan.budgets \in [1..n -> Nat]
          /\ s # "shipped" /\ SumFunction(plan.budgets) > 0 => shares = plan.budgets
          /\ plan.suggested = [i \in 1..n |-> Share(money, shares[i], SumFunction(shares))]
    BY <1>8
  <2>2. n \in Nat
    BY <1>1
  <2> QED BY <2>1, <2>2 DEF Shared
<1> QED BY <1>9 DEF plan

(* And so does the advice, of the money it shows. *)
LEMMA AdviseIsShared ==
    ASSUME NEW t \in Threads, NEW seen, IsSeen(seen), NEW scores, IsScores(scores), NEW missing, NEW age,
           job[t].money \in Nat, Advise(t, seen, scores, missing, age)
    PROVE  \A s \in DOMAIN advice'.plans : advice'.money \in Nat /\ Shared(s, advice'.plans[s], advice'.money)
<1> DEFINE first == IF "shipped" \in DOMAIN seen THEN "shipped" ELSE CHOOSE s \in DOMAIN seen : TRUE
           money == IF job[t].money > 0 THEN job[t].money ELSE SumFunction(seen[first].budgets)
<1>1. advice' = [money |-> money, age |-> age, missing |-> missing,
                 plans |-> [s \in DOMAIN seen |-> PlanOf(s, seen, scores, money)]]
  BY DEF Advise
<1>2. money \in Nat
  <2>1. first \in DOMAIN seen
    BY DEF IsSeen
  <2> HIDE DEF first
  <2> DEFINE budgets == seen[first].budgets
  <2>2. DOMAIN seen[first].names = 1..Len(seen[first].names) /\ Len(seen[first].names) \in Nat
        /\ budgets \in [DOMAIN seen[first].names -> Nat]
    BY <2>1 DEF IsSeen
  <2>3. IsFiniteSet(1..Len(seen[first].names))
    BY <2>2, FS_Interval
  <2>4. IsFiniteSet(DOMAIN budgets) /\ \A i \in DOMAIN budgets : budgets[i] \in Nat
    BY <2>2, <2>3
  <2>5. SumFunction(budgets) \in Nat
    BY <2>4, SumOfNats
  <2> QED BY <2>5
<1> HIDE DEF money
<1>3. \A s \in DOMAIN seen : Shared(s, PlanOf(s, seen, scores, money), money)
  BY <1>2, PlanIsShared
<1> QED BY <1>1, <1>2, <1>3

(* The other steps of the Strategy Lab leave the suggestions alone. *)
LEMMA LabKeepsAdvice ==
    ASSUME DiskInv, AdviceInv, NEW t \in Threads, LabStep(t), ~ShowDeployment(t), ~ComputeSuggestions(t)
    PROVE  AdviceInv'
<1>1. Moves(t, Steps)
  <2>1. Moves(t, LabSteps \cup {"idle"})
    BY LabMoves DEF DiskInv
  <2> QED BY <2>1 DEF Moves, Steps
<1>2. pc \in [Threads -> Steps]
  BY DEF DiskInv, ThreadsInv
<1>3. pc'[t] \notin AdviceSteps /\ UNCHANGED <<suggestions, advice>>
  <2> USE <1>2 DEF AdviceSteps, Goto, Answer
  <2>1. CASE ResearchScan(t)
    BY <2>1 DEF ResearchScan, labVars
  <2>2. CASE CutResearch(t) \/ PasteResearch(t)
    BY <2>2 DEF CutResearch, PasteResearch
  <2>3. CASE GenerateStack(t)
    BY <2>3 DEF GenerateStack
  <2>4. CASE WriteProfile(t) \/ WriteStack(t) \/ CheckStack(t)
    BY <2>4 DEF WriteProfile, WriteStack, CheckStack, labVars
  <2>5. CASE LoadTarget(t) \/ ReadProfile(t)
    BY <2>5 DEF LoadTarget, ReadProfile, labVars
  <2>6. CASE CutProfile(t) \/ PasteProfile(t)
    BY <2>6 DEF CutProfile, PasteProfile
  <2> QED BY <2>1, <2>2, <2>3, <2>4, <2>5, <2>6 DEF LabStep
<1> QED BY <1>1, <1>3, OtherStepsKeepAdvice DEF AdviceJob, AdviceSteps

(* The stacks that load have names, and a budget for each. *)
Loaded ==
    [s \in {s \in AllStacks : StackLoads(s)} |->
       [names |-> stacks[s].names,
        budgets |-> [i \in DOMAIN stacks[s].names |-> files[s][stacks[s].names[i]].budget]]]

(* They can be shared, once there is one. *)
LEMMA LoadedIsSeen == DiskInv /\ Loaded # <<>> => IsSeen(Loaded)
<1> SUFFICES ASSUME DiskInv, Loaded # <<>> PROVE IsSeen(Loaded)
  OBVIOUS
<1>1. DOMAIN Loaded # {}
  <2>1. SUFFICES ASSUME DOMAIN Loaded = {} PROVE FALSE
    OBVIOUS
  <2> QED BY <2>1 DEF Loaded
<1>2. ASSUME NEW s \in DOMAIN Loaded
      PROVE  /\ s \in AllStacks
             /\ Loaded[s].names \in Seq(Names) /\ Loaded[s].names # <<>>
             /\ Loaded[s].budgets \in [DOMAIN Loaded[s].names -> Nat]
  <2> DEFINE names == stacks[s].names
  <2>1. s \in AllStacks /\ StackLoads(s)
    BY <1>2 DEF Loaded
  <2>2. /\ Loaded[s].names = names
        /\ Loaded[s].budgets = [i \in DOMAIN names |-> files[s][names[i]].budget]
    BY <1>2 DEF Loaded
  <2>3. names \in Seq(Names) /\ names # <<>>
    BY <2>1 DEF DiskInv, DiskTypeOK, StackLoads
  <2> HIDE DEF names
  <2>4. \A i \in DOMAIN names : names[i] \in Names
    BY <2>3
  <2>5. \A i \in DOMAIN names : files[s][names[i]].budget \in Nat
    BY <2>1, <2>4 DEF DiskInv, DiskTypeOK, File
  <2> QED BY <2>1, <2>2, <2>3, <2>5
<1> HIDE DEF Loaded
<1> QED BY <1>1, <1>2 DEF IsSeen

(* A snapshot that has shown the section is done: its advice is the one to account for. *)
LEMMA AdvisedKeepsAdvice ==
    ASSUME AdviceInv, NEW t \in Threads, Moves(t, Steps), pc'[t] = "idle",
           {"age", "scores"} \subseteq DOMAIN suggestions', IsScores(suggestions'.scores),
           \A s \in DOMAIN advice'.plans : advice'.money \in Nat /\ Shared(s, advice'.plans[s], advice'.money)
    PROVE  AdviceInv'
<1>1. \A u \in Threads : AdviceJob(u)'
  <2> SUFFICES ASSUME NEW u \in Threads PROVE AdviceJob(u)'
    OBVIOUS
  <2>1. CASE u = t
    BY <2>1 DEF AdviceJob, AdviceSteps
  <2>2. CASE u # t
    <3>1. AdviceJob(u) /\ pc'[u] = pc[u] /\ job'[u] = job[u]
      BY <2>2 DEF AdviceInv, Moves
    <3> QED BY <3>1 DEF AdviceJob
  <2> QED BY <2>1, <2>2
<1> QED BY <1>1 DEF AdviceInv

(* What is shown at once is of stacks on disk and of the scores of the file. *)
LEMMA ShowKeepsAdvice ==
    ASSUME DiskInv, AdviceInv, NEW t \in Threads, ShowDeployment(t)
    PROVE  AdviceInv'
<1> DEFINE paths == {path \in AllStacks \X Names :
                       path[1] \in DOMAIN Loaded /\ path[2] \in Range(Loaded[path[1]].names)}
<1>1. /\ pc[t] = "deployment" /\ suggestions' = suggestions
      /\ \/ Answer(t) /\ UNCHANGED advice
         \/ Loaded # <<>> /\ Advise(t, Loaded, suggestions.scores, {}, suggestions.age)
         \/ /\ Loaded # <<>> /\ advice' = advice
            /\ Goto(t, "compute", [kind |-> "snapshot", money |-> job[t].money, seen |-> Loaded, paths |-> paths,
                                   old |-> suggestions.scores])
  BY DEF ShowDeployment, Loaded
<1>2. Moves(t, Steps)
  <2>1. Moves(t, LabSteps \cup {"idle"})
    BY LabMoves DEF DiskInv, LabStep
  <2> QED BY <2>1 DEF Moves, Steps
<1>3. job[t].money \in Nat /\ IsScores(suggestions.scores) /\ pc \in [Threads -> Steps] /\ DOMAIN job = Threads
  BY <1>1 DEF AdviceInv, AdviceJob, AdviceSteps, DiskInv, ThreadsInv
<1>4. paths \subseteq AllStacks \X Names
  OBVIOUS
<1> HIDE DEF paths
<1>5. CASE Answer(t) /\ UNCHANGED advice
  <2>1. AdviceJob(t)'
    BY <1>3, <1>5 DEF Answer, Goto, AdviceJob, AdviceSteps
  <2> QED BY <1>1, <1>2, <1>5, <2>1, OtherStepsKeepAdvice
<1>6. CASE /\ Loaded # <<>> /\ advice' = advice
           /\ Goto(t, "compute", [kind |-> "snapshot", money |-> job[t].money, seen |-> Loaded, paths |-> paths,
                                  old |-> suggestions.scores])
  <2>1. IsSeen(Loaded)
    BY <1>6, LoadedIsSeen
  <2> HIDE DEF Loaded
  <2>2. /\ pc'[t] = "compute"
        /\ job'[t] = [kind |-> "snapshot", money |-> job[t].money, seen |-> Loaded, paths |-> paths,
                      old |-> suggestions.scores]
    BY <1>3, <1>6 DEF Goto
  <2>3. AdviceJob(t)'
    BY <1>3, <1>4, <2>1, <2>2 DEF AdviceJob
  <2> QED BY <1>1, <1>2, <1>6, <2>3, OtherStepsKeepAdvice
<1>7. CASE Loaded # <<>> /\ Advise(t, Loaded, suggestions.scores, {}, suggestions.age)
  <2>1. IsSeen(Loaded)
    BY <1>7, LoadedIsSeen
  <2> HIDE DEF Loaded
  <2>2. \A s \in DOMAIN advice'.plans : advice'.money \in Nat /\ Shared(s, advice'.plans[s], advice'.money)
    BY <1>3, <1>7, <2>1, AdviseIsShared
  <2>3. Answer(t)
    BY <1>7 DEF Advise
  <2>4. pc'[t] = "idle"
    BY <1>3, <2>3 DEF Answer, Goto
  <2>5. {"age", "scores"} \subseteq DOMAIN suggestions' /\ IsScores(suggestions'.scores)
    BY <1>1 DEF AdviceInv
  <2> QED BY <1>2, <2>2, <2>4, <2>5, AdvisedKeepsAdvice
<1> QED BY <1>1, <1>5, <1>6, <1>7

(* What is computed is of the stacks seen before, and of new scores or old ones. *)
LEMMA ComputeKeepsAdvice ==
    ASSUME DiskInv, AdviceInv, NEW t \in Threads, ComputeSuggestions(t)
    PROVE  AdviceInv'
<1> DEFINE paths == job[t].paths
<1>1. Moves(t, Steps)
  <2>1. Moves(t, LabSteps \cup {"idle"})
    BY LabMoves DEF DiskInv, LabStep
  <2> QED BY <2>1 DEF Moves, Steps
<1>2. /\ pc[t] = "compute" /\ job[t].money \in Nat /\ IsSeen(job[t].seen) /\ IsScores(job[t].old)
      /\ paths \subseteq AllStacks \X Names
  <2>1. pc[t] = "compute" /\ AdviceJob(t)
    BY DEF ComputeSuggestions, AdviceInv
  <2> QED BY <2>1 DEF AdviceJob, AdviceSteps
<1>3. session \in Sessions /\ pc \in [Threads -> Steps] /\ DOMAIN job = Threads
  BY DEF DiskInv, ThreadsInv
<1>4. pc'[t] = "idle"
  BY <1>3 DEF ComputeSuggestions, Advise, Answer, Goto
<1>5. CASE /\ Advise(t, job[t].seen, job[t].old, paths \ DOMAIN job[t].old, SuggestSeconds)
           /\ UNCHANGED suggestions
  <2>1. \A s \in DOMAIN advice'.plans : advice'.money \in Nat /\ Shared(s, advice'.plans[s], advice'.money)
    <3> HIDE DEF paths
    <3> QED BY <1>2, <1>5, AdviseIsShared
  <2>2. {"age", "scores"} \subseteq DOMAIN suggestions' /\ IsScores(suggestions'.scores)
    BY <1>5 DEF AdviceInv
  <2> QED BY <1>1, <1>4, <2>1, <2>2, AdvisedKeepsAdvice
<1>6. ASSUME NEW results \in session.results, \A path \in paths : results[path[2]].status # "ERROR",
             NEW scores, scores = [path \in paths |-> HistoryScore(Metrics(results[path[2]]))],
             suggestions' = [age |-> 0, scores |-> scores], Advise(t, job[t].seen, scores, {}, 0)
      PROVE  AdviceInv'
  <2>1. ASSUME NEW path \in paths PROVE HistoryScore(Metrics(results[path[2]])) \in Nat
    <3> DEFINE m == Metrics(results[path[2]])
    <3>1. path[2] \in Names
      BY <1>2, <2>1
    <3>2. m \in [ret : Int, drawdown : Int, factor : Int, sharpe : Int, turnover : Int]
      BY <1>3, <1>6, <3>1, BacktestAssumption
    <3> HIDE DEF m
    <3>3. HistoryScore(m) \in Nat
      BY <3>2 DEF HistoryScore, Larger
    <3> QED BY <3>3 DEF m
  <2>2. IsScores(scores)
    BY <1>6, <2>1 DEF IsScores
  <2>3. \A s \in DOMAIN advice'.plans : advice'.money \in Nat /\ Shared(s, advice'.plans[s], advice'.money)
    <3> HIDE DEF paths
    <3> QED BY <1>2, <1>6, <2>2, AdviseIsShared
  <2>4. {"age", "scores"} \subseteq DOMAIN suggestions' /\ IsScores(suggestions'.scores)
    BY <1>6, <2>2
  <2> QED BY <1>1, <1>4, <2>3, <2>4, AdvisedKeepsAdvice
<1> QED BY <1>5, <1>6 DEF ComputeSuggestions

(* Every step keeps the advice sound. *)
LEMMA NextKeepsAdvice == DiskInv /\ OverviewInv /\ AdviceInv /\ [Next]_vars => AdviceInv'
<1> SUFFICES ASSUME DiskInv, OverviewInv, AdviceInv, [Next]_vars PROVE AdviceInv'
  OBVIOUS
<1>1. CASE Serve
  BY <1>1, ServeKeepsAdvice DEF Serve
<1>2. CASE PortfolioActs
  BY <1>2, PortfolioKeepsAdvice DEF PortfolioActs
<1>3. CASE LabActs
  BY <1>3, LabKeepsAdvice, ShowKeepsAdvice, ComputeKeepsAdvice DEF LabActs
<1>4. CASE Tick \/ UNCHANGED vars
  <2>1. /\ UNCHANGED <<pc, job, advice>>
        /\ suggestions' = suggestions \/ suggestions' = [suggestions EXCEPT !.age = @ + 1]
    BY <1>4 DEF Tick, PortfolioTick, LabTick, vars, serverVars, labVars
  <2>2. {"age", "scores"} \subseteq DOMAIN suggestions' /\ IsScores(suggestions'.scores)
    BY <2>1 DEF AdviceInv
  <2>3. \A t \in Threads : AdviceJob(t)'
    BY <2>1 DEF AdviceInv, AdviceJob
  <2> QED BY <2>1, <2>2, <2>3 DEF AdviceInv
<1>5. CASE Restart
  <2>1. (\A t \in Threads : pc'[t] = "idle") /\ UNCHANGED <<suggestions, advice>>
    BY <1>5 DEF Restart
  <2>2. \A t \in Threads : AdviceJob(t)'
    BY <2>1 DEF AdviceJob, AdviceSteps
  <2> QED BY <2>1, <2>2 DEF AdviceInv
<1> QED BY <1>1, <1>2, <1>3, <1>4, <1>5 DEF Next

(* Whatever was scanned, generated and edited meanwhile, the budgets a snapshot suggests share
   the money it shows, and a stack generated from a scan keeps the ratios of its budgets. *)
THEOREM AdviceAlwaysSound == Spec => []AdviceIsSound
<1> QED BY DiskInit, NextKeepsDisk, OverviewInit, NextKeepsOverview, AdviceInit, NextKeepsAdvice,
           AdviceInvIsSound, PTL DEF Spec

-----------------------------------------------------------------------------
(* What a thread has of a scan's result, and what is on disk, has a plan. *)
FundedJob(t) == pc[t] \in {"cut_research", "paste_research", "profiles", "check"} => HasPlan(job[t].state)
FundedInv == (\A t \in Threads : FundedJob(t)) /\ (research.status = "whole" => HasPlan(research))

LEMMA FundedInvImpliesFunded == FundedInv => PlanIsFunded
BY DEF FundedInv, HasPlan, PlanIsFunded

LEMMA FundedInit == Init => FundedInv
BY DEF Init, ServerInit, LabInit, FundedInv, FundedJob

(* A step keeps the plans if what it leaves in its own thread and on disk has one. *)
LEMMA OneStepKeepsFunded ==
    ASSUME FundedInv, NEW t \in Threads, Moves(t, Steps), FundedJob(t)',
           research' = research \/ (research'.status = "whole" => HasPlan(research'))
    PROVE  FundedInv'
<1>1. ASSUME NEW u \in Threads, u # t PROVE FundedJob(u)'
  <2>1. FundedJob(u) /\ pc'[u] = pc[u] /\ job'[u] = job[u]
    BY <1>1 DEF FundedInv, Moves
  <2> QED BY <2>1 DEF FundedJob, HasPlan
<1>2. research' = research => (research'.status = "whole" => HasPlan(research'))
  BY DEF FundedInv
<1> QED BY <1>1, <1>2 DEF FundedInv, HasPlan

(* Requests and snapshots bring none. *)
LEMMA ServeKeepsFunded ==
    ASSUME DiskInv, FundedInv, NEW t \in Threads, DoGet(t) \/ DoPost(t), UNCHANGED labVars
    PROVE  FundedInv'
<1>1. Moves(t, Steps)
  BY ServeKeepsThreads DEF DiskInv
<1>2. FundedJob(t)'
  <2>1. CASE DoGet(t)
    BY <2>1 DEF DoGet, Goto, FundedJob, DiskInv, ThreadsInv
  <2>2. CASE DoPost(t)
    <3>1. PICK request \in session.posts : pc' = [pc EXCEPT ![t] = FirstStep[request.kind]]
      BY <2>2 DEF DoPost
    <3>2. request.kind \in DOMAIN FirstStep
      BY <3>1, ServerAssumption DEF DiskInv, ThreadsInv
    <3>3. FirstStep[request.kind] \in {"invalidate", "scan", "generate", "load"}
      BY <3>2 DEF FirstStep
    <3> QED BY <3>1, <3>3 DEF FundedJob, DiskInv, ThreadsInv
  <2> QED BY <2>1, <2>2
<1> QED BY <1>1, <1>2, OneStepKeepsFunded DEF labVars

LEMMA PortfolioKeepsFunded ==
    ASSUME DiskInv, FundedInv, NEW t \in Threads, PortfolioStep(t), UNCHANGED labVars
    PROVE  FundedInv'
<1>1. Moves(t, Steps)
  BY PortfolioKeepsThreads DEF DiskInv
<1>2. pc'[t] \in PortfolioSteps \cup {"deployment", "idle"}
  BY DEF PortfolioStep, InvalidatePortfolioCache, AskPortfolio, ReadAccount, ReadSections, FindPosition,
         RedeemPosition, FillCache, Show, Goto, Answer, DiskInv, ThreadsInv, PortfolioSteps
<1>3. FundedJob(t)'
  BY <1>2 DEF FundedJob, PortfolioSteps
<1> QED BY <1>1, <1>3, OneStepKeepsFunded DEF labVars

(* The name of its stack is all that is added to a result. *)
LEMMA NamedKeepsPlan ==
    ASSUME NEW state, HasPlan(state), NEW name
    PROVE  HasPlan([state EXCEPT !.stack = name])
<1> DEFINE named == [state EXCEPT !.stack = name]
<1>1. {"request", "rows", "reserve", "portfolio"} \subseteq DOMAIN state
  BY DEF HasPlan
<1>2. /\ DOMAIN named = DOMAIN state /\ named.request = state.request /\ named.rows = state.rows
      /\ named.reserve = state.reserve /\ named.portfolio = state.portfolio
  BY <1>1
<1> HIDE DEF named
<1>3. Funded(named)
  BY <1>2 DEF HasPlan, Funded
<1>4. HasPlan(named)
  BY <1>1, <1>2, <1>3 DEF HasPlan
<1> QED BY <1>4 DEF named

(* A scan leaves a plan, or no result; what is generated from one and written is that plan. *)
LEMMA LabKeepsFunded ==
    ASSUME DiskInv, FundedInv, NEW t \in Threads, LabStep(t)
    PROVE  FundedInv'
<1>1. Moves(t, Steps)
  BY LabThreads
<1>2. pc \in [Threads -> Steps] /\ DOMAIN job = Threads /\ JobOK(t) /\ FundedJob(t) /\ session \in Sessions
  BY DEF DiskInv, ThreadsInv, FundedInv
<1>3. CASE ResearchScan(t) /\ ~Answer(t)
  <2>1. PICK results \in session.results :
          Goto(t, "cut_research", [kind |-> "write", state |-> BuildResearchState(job[t], results)])
    BY <1>3 DEF ResearchScan
  <2>2. job[t] \in session.posts /\ job[t].kind = "research_scan"
    BY <1>2, <1>3 DEF ResearchScan, JobOK
  <2>3. HasPlan(BuildResearchState(job[t], results))
    BY <1>2, <2>1, <2>2, BuildIsFunded
  <2> PICK state : state = BuildResearchState(job[t], results)
    OBVIOUS
  <2>4. HasPlan(state) /\ job'[t].state = state
    BY <1>2, <2>1, <2>3 DEF Goto
  <2>5. FundedJob(t)' /\ research' = research
    BY <1>3, <2>4 DEF FundedJob, HasPlan, ResearchScan, labVars
  <2> QED BY <1>1, <2>5, OneStepKeepsFunded
<1>4. CASE CheckStack(t) /\ ~Answer(t)
  <2>1. /\ pc[t] = "check" /\ research' = research
        /\ Goto(t, "cut_research", [kind |-> "write", state |-> [job[t].state EXCEPT !.stack = job[t].stack]])
    BY <1>4 DEF CheckStack, labVars
  <2>2. HasPlan([job[t].state EXCEPT !.stack = job[t].stack])
    BY <1>2, <2>1, NamedKeepsPlan DEF FundedJob
  <2> PICK state : state = [job[t].state EXCEPT !.stack = job[t].stack]
    OBVIOUS
  <2>3. HasPlan(state) /\ job'[t].state = state
    BY <1>2, <2>1, <2>2 DEF Goto
  <2>4. FundedJob(t)'
    BY <2>3 DEF FundedJob, HasPlan
  <2> QED BY <1>1, <2>1, <2>4, OneStepKeepsFunded
<1>5. CASE CutResearch(t)
  <2>1. pc[t] = "cut_research" /\ job'[t] = job[t] /\ research'.status = "empty"
    BY <1>2, <1>5 DEF CutResearch, Goto
  <2>2. FundedJob(t)'
    BY <1>2, <2>1 DEF FundedJob, HasPlan
  <2> QED BY <1>1, <2>1, <2>2, OneStepKeepsFunded
<1>6. CASE PasteResearch(t)
  <2>1. /\ pc[t] = "paste_research" /\ pc'[t] = "idle"
        /\ research' = job[t].state \/ research'.status # "whole"
    BY <1>2, <1>6 DEF PasteResearch, Answer, Goto, Outcomes
  <2>2. FundedJob(t)'
    BY <2>1 DEF FundedJob
  <2>3. HasPlan(job[t].state)
    BY <1>2, <2>1 DEF FundedJob
  <2> QED BY <1>1, <2>1, <2>2, <2>3, OneStepKeepsFunded
<1>7. CASE GenerateStack(t) /\ ~Answer(t)
  <2>1. /\ research.status = "whole" /\ job'[t].state = research /\ research' = research
    BY <1>2, <1>7 DEF GenerateStack, Goto
  <2>2. HasPlan(research)
    BY <2>1 DEF FundedInv
  <2>3. FundedJob(t)'
    BY <2>1, <2>2 DEF FundedJob, HasPlan
  <2> QED BY <1>1, <2>1, <2>3, OneStepKeepsFunded
<1>8. CASE WriteProfile(t) \/ WriteStack(t)
  <2>1. pc[t] = "profiles" /\ job'[t].state = job[t].state /\ research' = research
    BY <1>2, <1>8 DEF WriteProfile, WriteStack, Goto
  <2>2. FundedJob(t)'
    BY <1>2, <2>1 DEF FundedJob, HasPlan
  <2> QED BY <1>1, <2>1, <2>2, OneStepKeepsFunded
<1>9. ASSUME pc'[t] \in {"idle", "load", "read", "cut", "paste", "deployment", "compute"}, research' = research
      PROVE  FundedInv'
  <2>1. FundedJob(t)'
    BY <1>9 DEF FundedJob
  <2> QED BY <1>1, <1>9, <2>1, OneStepKeepsFunded
<1>10. CASE (ResearchScan(t) \/ CheckStack(t) \/ GenerateStack(t)) /\ Answer(t)
  BY <1>2, <1>9, <1>10 DEF ResearchScan, CheckStack, GenerateStack, Answer, Goto, labVars
<1>11. CASE LoadTarget(t) \/ ReadProfile(t) \/ CutProfile(t) \/ PasteProfile(t)
  BY <1>2, <1>9, <1>11 DEF LoadTarget, ReadProfile, CutProfile, PasteProfile, Answer, Goto, labVars
<1>12. CASE ShowDeployment(t) \/ ComputeSuggestions(t)
  BY <1>2, <1>9, <1>12 DEF ShowDeployment, ComputeSuggestions, Advise, Answer, Goto
<1> QED BY <1>3, <1>4, <1>5, <1>6, <1>7, <1>8, <1>10, <1>11, <1>12 DEF LabStep

LEMMA NextKeepsFunded == DiskInv /\ FundedInv /\ [Next]_vars => FundedInv'
<1> SUFFICES ASSUME DiskInv, FundedInv, [Next]_vars PROVE FundedInv'
  OBVIOUS
<1>1. CASE Serve
  BY <1>1, ServeKeepsFunded DEF Serve
<1>2. CASE PortfolioActs
  BY <1>2, PortfolioKeepsFunded DEF PortfolioActs
<1>3. CASE LabActs
  BY <1>3, LabKeepsFunded DEF LabActs
<1>4. CASE Tick \/ UNCHANGED vars
  <2>1. UNCHANGED <<pc, job, research>>
    BY <1>4 DEF Tick, PortfolioTick, LabTick, vars, serverVars, labVars
  <2>2. \A t \in Threads : FundedJob(t)'
    BY <2>1 DEF FundedInv, FundedJob, HasPlan
  <2> QED BY <2>1, <2>2 DEF FundedInv, HasPlan
<1>5. CASE Restart
  <2>1. (\A t \in Threads : pc'[t] = "idle") /\ research' = research
    BY <1>5 DEF Restart
  <2>2. \A t \in Threads : FundedJob(t)'
    BY <2>1 DEF FundedJob
  <2> QED BY <2>1, <2>2 DEF FundedInv, HasPlan
<1> QED BY <1>1, <1>2, <1>3, <1>4, <1>5 DEF Next

(* For every number of backtests, whatever they return, every capital and every request of a
   scan, and however scans and generations overlap: the reserve and the budgets of the result on
   disk make up the capital, a cent of rounding for each row, and the simulated portfolio, if it
   has all its points, starts with it. *)
THEOREM PlanAlwaysFunded == Spec => []PlanIsFunded
<1> QED BY DiskInit, NextKeepsDisk, FundedInit, NextKeepsFunded, FundedInvImpliesFunded, PTL DEF Spec
====================================================================================

---------------------------------- MODULE Portfolio ----------------------------------
(***************************************************************************)
(* The portfolio section of a snapshot and the redemption of a flexible    *)
(* Earn position.  The overview is read section by section behind a cache  *)
(* of portfolio_cache_seconds; the lock of the cache is held while it is   *)
(* read.  Time goes on between any two steps; ages are counted up to       *)
(* CacheSeconds, where nothing depends on them any more.                   *)
(***************************************************************************)
EXTENDS DashboardServer

CONSTANTS
    Money,          \* what the account holds, spot and Earn together
    CacheSeconds    \* portfolio_cache_seconds

ASSUME PortfolioAssumption ==
    /\ Money \in Nat /\ CacheSeconds \in Nat \ {0}
    /\ \A s \in Sessions : \A request \in s.posts :
         request.kind = "redeem_earn_flexible" => request.amount \in Nat

VARIABLES
    earn,       \* the flexible position of the account; the rest of Money is free on spot
    holder,     \* the thread in _portfolio_lock, "none"
    now,        \* age of the time taken in _portfolio_section
    reading,    \* the overview being read
    readAge,    \* history: age of its first section
    cache,      \* _portfolio_cache; full where there is one, ok where it is no error
    cachedAge,  \* age of _portfolio_cached_at
    sectionAge, \* history: age of the first section in the cache
    changedAge  \* history: time since the position changed

cacheVars == <<holder, now, reading, readAge, cache, cachedAge, sectionAge>>
portfolioVars == <<earn, changedAge, cacheVars>>

Nothing == [full |-> FALSE, ok |-> FALSE, spot |-> 0, earn |-> 0]
Failed == [full |-> TRUE, ok |-> FALSE, spot |-> 0, earn |-> 0]

PortfolioTypeOK ==
    /\ earn \in 0..Money
    /\ holder \in Browsers \cup {"none"}
    /\ {reading, cache} \subseteq [full : BOOLEAN, ok : BOOLEAN, spot : 0..Money, earn : 0..Money]
    /\ {now, readAge, cachedAge, sectionAge, changedAge} \subseteq 0..CacheSeconds

PortfolioInit ==
    /\ earn = Money /\ changedAge = CacheSeconds
    /\ holder = "none" /\ now = CacheSeconds /\ reading = Nothing /\ readAge = CacheSeconds
    /\ cache = Nothing /\ cachedAge = CacheSeconds /\ sectionAge = CacheSeconds

Older(age) == IF age < CacheSeconds THEN age + 1 ELSE age

PortfolioTick ==
    /\ now' = Older(now) /\ readAge' = Older(readAge)
    /\ cachedAge' = Older(cachedAge) /\ sectionAge' = Older(sectionAge)
    /\ changedAge' = Older(changedAge)
    /\ UNCHANGED <<serverVars, earn, holder, reading, cache>>

\* do_POST of refresh_portfolio and redeem_earn_flexible: the cache is dropped first.
InvalidatePortfolioCache(t) ==
    /\ pc[t] = "invalidate" /\ holder = "none"
    /\ cache' = Nothing /\ cachedAge' = CacheSeconds /\ sectionAge' = CacheSeconds
    /\ IF job[t].kind = "redeem_earn_flexible" THEN Goto(t, "find", job[t]) ELSE Answer(t)
    /\ UNCHANGED <<earn, changedAge, holder, now, reading, readAge>>

-----------------------------------------------------------------------------
(* _portfolio_section and portfolio_overview                                *)

\* The free money the deployment section starts from, 0 where the overview shows none.
Show(t, payload) == Goto(t, "deployment", [job[t] EXCEPT !.money = IF payload.ok THEN payload.spot ELSE 0])

AskPortfolio_Kept(t) ==     \* mutated: a cache is used however old it is
    /\ pc[t] = "portfolio" /\ holder = "none"
    /\ IF cache.full
         THEN Show(t, cache) /\ UNCHANGED <<holder, now>>
         ELSE Goto(t, "account", job[t]) /\ holder' = t /\ now' = 0
    /\ UNCHANGED <<earn, changedAge, reading, readAge, cache, cachedAge, sectionAge>>
AskPortfolio(t) ==
    /\ pc[t] = "portfolio" /\ holder = "none"
    /\ IF cache.full /\ cachedAge < CacheSeconds
         THEN Show(t, cache) /\ UNCHANGED <<holder, now>>
         ELSE Goto(t, "account", job[t]) /\ holder' = t /\ now' = 0
    /\ UNCHANGED <<earn, changedAge, reading, readAge, cache, cachedAge, sectionAge>>

FillCache_Late(t, payload, age) ==      \* mutated: the time is taken when the answer is there
    /\ cache' = payload /\ cachedAge' = 0 /\ sectionAge' = age
    /\ holder' = "none" /\ Show(t, payload)
    /\ reading' = Nothing /\ now' = CacheSeconds /\ readAge' = CacheSeconds

\* An error is kept like an answer.
FillCache(t, payload, age) ==
    /\ cache' = payload /\ cachedAge' = now /\ sectionAge' = age
    /\ holder' = "none" /\ Show(t, payload)
    /\ reading' = Nothing /\ now' = CacheSeconds /\ readAge' = CacheSeconds

\* The account comes first, and nothing is shown without it.
ReadAccount(t) ==
    /\ pc[t] = "account"
    /\ \/ /\ reading' = [full |-> TRUE, ok |-> TRUE, spot |-> Money - earn, earn |-> 0]
          /\ readAge' = 0
          /\ Goto(t, "sections", job[t])
          /\ UNCHANGED <<holder, now, cache, cachedAge, sectionAge>>
       \/ FillCache(t, Failed, now)
    /\ UNCHANGED <<earn, changedAge>>

\* A section the API refuses is left out; any other error in one fails the overview.
ReadSections(t) ==
    /\ pc[t] = "sections"
    /\ \/ \E shown \in {0, earn} : FillCache(t, [reading EXCEPT !.earn = shown], readAge)
       \/ FillCache(t, Failed, readAge)
    /\ UNCHANGED <<earn, changedAge>>

-----------------------------------------------------------------------------
(* redeem_simple_earn_flexible.  No amount stands for redeem_all.            *)

\* The checks, the last one on a position just read.
FindPosition(t) ==
    /\ pc[t] = "find"
    /\ \/ /\ job[t].confirmed /\ earn > 0 /\ job[t].amount <= earn
          /\ Goto(t, "redeem", job[t])
       \/ Answer(t)
    /\ UNCHANGED portfolioVars

\* One request, never sent again: it is refused, as where the position has shrunk since, or
\* done, whether or not its answer arrives.
RedeemPosition(t) ==
    /\ pc[t] = "redeem" /\ Answer(t)
    /\ earn' \in {earn, IF job[t].amount = 0 THEN 0
                       ELSE IF job[t].amount <= earn THEN earn - job[t].amount ELSE earn}
    /\ changedAge' = IF earn' = earn THEN changedAge ELSE 0
    /\ UNCHANGED cacheVars

PortfolioStep(t) ==
    \/ InvalidatePortfolioCache(t) \/ AskPortfolio(t) \/ ReadAccount(t) \/ ReadSections(t)
    \/ FindPosition(t) \/ RedeemPosition(t)

-----------------------------------------------------------------------------
(* What a snapshot may be given from the cache was read less than portfolio_cache_seconds
   ago, every section of it, however long the reading took. *)
CacheIsRecent == cache.full /\ cachedAge < CacheSeconds => sectionAge < CacheSeconds

(* The handler of a redemption drops the cache before it redeems, and a snapshot between the
   two caches the old balance once more.  That is all there is to it: a redemption done
   portfolio_cache_seconds ago or more is in what any snapshot is given from the cache. *)
RedemptionIsShown ==
    [][\A t \in Browsers :
          pc[t] = "portfolio" /\ pc'[t] = "deployment" /\ cache.ok /\ changedAge = CacheSeconds =>
              cache.spot = Money - earn]_<<serverVars, portfolioVars>>
======================================================================================

------------------------------- MODULE MCServices ------------------------------
(***************************************************************************)
(* Machines that share no state, each small: a room's chat, the way in,    *)
(* referrals and rankings, a stream's health, and the two halves of a      *)
(* market's money, its fee ledger and its quotes.  A behaviour is one of   *)
(* them, the one its first state names; the others stay in one initial     *)
(* state.                                                                  *)
(***************************************************************************)
EXTENDS ChatRoom, EntryGate, Growth, StreamHealth, LpFeeLedger, PoolTrading

CONSTANT Scenes
VARIABLE scene
servicesVars == <<chatVars, entryVars, growthVars, streamVars, feeVars, poolTradingVars, scene>>

ServicesInit ==
    /\ scene \in Scenes
    /\ ChatInit /\ EntryInit /\ GrowthInit /\ StreamInit /\ FeeInit /\ PoolInit
    /\ scene # "chat" => ~chatStore.durable
    /\ scene # "entry" => ~durable
    /\ scene # "pool" => \A s, t \in Side : reserve[s] = reserve[t] /\ \A r \in InitialReserves : reserve[s] <= r
ServicesNext ==
    \/ /\ scene = "chat" /\ ChatNext
       /\ UNCHANGED <<entryVars, growthVars, streamVars, feeVars, poolTradingVars, scene>>
    \/ /\ scene = "entry" /\ EntryNext
       /\ UNCHANGED <<chatVars, growthVars, streamVars, feeVars, poolTradingVars, scene>>
    \/ /\ scene = "growth" /\ GrowthNext
       /\ UNCHANGED <<chatVars, entryVars, streamVars, feeVars, poolTradingVars, scene>>
    \/ /\ scene = "stream" /\ StreamNext
       /\ UNCHANGED <<chatVars, entryVars, growthVars, feeVars, poolTradingVars, scene>>
    \/ /\ scene = "fees" /\ FeeNext
       /\ UNCHANGED <<chatVars, entryVars, growthVars, streamVars, poolTradingVars, scene>>
    \/ /\ scene = "pool" /\ PoolNext
       /\ UNCHANGED <<chatVars, entryVars, growthVars, streamVars, feeVars, scene>>
ServicesSpec == ServicesInit /\ [][ServicesNext]_servicesVars

\* A provider earns the fees of its own share, and all providers no more than was charged; a
\* quote is the best the pool can afford, and no round trip is profitable
\* (_distributeLpFee, quoteBuy, quoteSell).
PoolsHold == EarnsOwnShareOnly /\ ClaimsWithinRounding /\ QuotesAreTight /\ NoRiskFreeProfit
===============================================================================

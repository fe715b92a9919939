-------------------------------- MODULE Growth ---------------------------------
(***************************************************************************)
(* What the service tells of people: who referred whom, who won and who    *)
(* ranks where, over the trades and claims the index holds (one market,    *)
(* m, and blocks as the index reaches them).                               *)
(*                                                                         *)
(* A binding is written by an async handler that yields at its signature   *)
(* and at each access to the store; the codes a process has shown are      *)
(* forgotten with it, the bindings are not.                                *)
(***************************************************************************)
EXTENDS Integers, Sequences, FiniteSets, FiniteSetsExt

CONSTANTS People,
          BindCalls,     \* bindings under way at a time, at most
          MaxBlock, MaxBinds, MaxFacts   \* bounds

ASSUME GrowthAssumption == {MaxBlock, MaxBinds, MaxFacts} \subseteq Nat

VARIABLES index,      \* [block, final, trades, claims]
          issued,     \* accounts whose code this process has shown
          binding,    \* [People -> <<referrer, block>> or <<>>]
          bindCall,   \* [pc, who, referrer, at]
          binds       \* [made, signed]: for the bound and for the properties

growthVars == <<index, issued, binding, bindCall, binds>>

NoBindCall == [pc |-> "idle"]
ErasedReferrer == "erased"

-------------------------------------------------------------------------------
(* Bindings. *)

\* The referrals view of a: its code is remembered, that a binding may name its owner.
ReferralsView(a) ==
    /\ a \notin issued
    /\ issued' = issued \union {a}
    /\ UNCHANGED <<index, binding, bindCall, binds>>

\* The claim that the referred account signed names the code and whose code it is, and the
\* signature verifies; the block is the index's own.
BindArrives(c) ==
    /\ bindCall[c].pc = "idle" /\ binds.made < MaxBinds
    /\ \E who \in People, referrer \in issued :
           /\ bindCall' = [bindCall EXCEPT ![c] =
                  [pc |-> "check", who |-> who, referrer |-> referrer, at |-> index.block]]
           /\ binds' = [made |-> binds.made + 1, signed |-> binds.signed \union {<<who, referrer>>}]
    /\ UNCHANGED <<index, issued, binding>>

BindChecks(c) ==
    LET call == bindCall[c]
        accepted == binding[call.who] = <<>> /\ call.referrer \in issued /\ call.referrer # call.who
    IN  /\ call.pc = "check"
        /\ bindCall' = [bindCall EXCEPT ![c] = IF accepted THEN [call EXCEPT !.pc = "bind"] ELSE NoBindCall]
        /\ UNCHANGED <<index, issued, binding, binds>>

\* Mutant of InsertBinding: an upsert.
UpsertBinding(who, referrer, at) == binding' = [binding EXCEPT ![who] = <<referrer, at>>]
\* An insert under a primary key: a second row is refused, and its handler fails.
InsertBinding(who, referrer, at) ==
    binding' = IF binding[who] = <<>> THEN [binding EXCEPT ![who] = <<referrer, at>>] ELSE binding
Binds(c) ==
    LET call == bindCall[c]
    IN  /\ call.pc = "bind"
        /\ InsertBinding(call.who, call.referrer, call.at)
        /\ bindCall' = [bindCall EXCEPT ![c] = NoBindCall]
        /\ UNCHANGED <<index, issued, binds>>

\* An account's own binding goes; where it was the referrer it is made unnamed.
ErasePerson(a) ==
    /\ binding' = [b \in People |-> IF b = a THEN <<>>
                      ELSE IF binding[b] # <<>> /\ binding[b][1] = a THEN <<ErasedReferrer, binding[b][2]>>
                      ELSE binding[b]]
    /\ binding' # binding
    /\ UNCHANGED <<index, issued, bindCall, binds>>

GrowthRestarts ==
    /\ issued # {}
    /\ issued' = {}
    /\ bindCall' = [c \in BindCalls |-> NoBindCall]
    /\ UNCHANGED <<index, binding, binds>>

-------------------------------------------------------------------------------
(* The index. *)

IndexTrade(a) ==
    /\ ~index.final /\ index.block < MaxBlock
    /\ index' = [index EXCEPT !.block = @ + 1, !.trades = @ \union {<<a, index.block + 1>>}]
    /\ UNCHANGED <<issued, binding, bindCall, binds>>
\* Fees are claimed at any time, a redemption, of a losing side too, of a final market.
IndexClaim(a) ==
    /\ Cardinality(index.claims) < MaxFacts
    /\ \E kind \in {"redeem", "lp_fees"}, amount \in {0, 1} :
           /\ kind = "redeem" => index.final
           /\ kind = "lp_fees" => amount > 0
           /\ index' = [index EXCEPT !.claims = @ \union {[account |-> a, kind |-> kind, amount |-> amount]}]
    /\ UNCHANGED <<issued, binding, bindCall, binds>>
IndexResult ==
    /\ ~index.final
    /\ index' = [index EXCEPT !.final = TRUE]
    /\ UNCHANGED <<issued, binding, bindCall, binds>>

-------------------------------------------------------------------------------
(* The views. *)

BindingsBy(a) == {b \in People : binding[b] # <<>> /\ binding[b][1] = a}
FirstActionAfter(b) == \E trade \in index.trades : trade[1] = b /\ trade[2] > binding[b][2]
Referred(a) == {b \in BindingsBy(a) : FirstActionAfter(b)}

\* Mutant of IsWin: whatever was redeemed.
IsRedeemed(claim) == claim.kind = "redeem"
IsWin(claim) == claim.kind = "redeem" /\ claim.amount > 0
RecentWins == {claim \in index.claims : IsWin(claim)}

ClaimsOf(a) == {claim \in index.claims : claim.account = a}
Credited(a) == MapThenSumSet(LAMBDA claim : claim.amount, ClaimsOf(a))
SettledCount(a) ==
    IF index.final /\ (ClaimsOf(a) # {} \/ \E trade \in index.trades : trade[1] = a) THEN 1 ELSE 0
\* Who is ranked, and before whom.
Top == {a \in People : ClaimsOf(a) # {}}
RanksBefore(a, b) == {a, b} \subseteq Top /\ Credited(a) > Credited(b)

GrowthInit ==
    /\ index = [block |-> 0, final |-> FALSE, trades |-> {}, claims |-> {}]
    /\ issued = {} /\ binding = [a \in People |-> <<>>]
    /\ bindCall = [c \in BindCalls |-> NoBindCall]
    /\ binds = [made |-> 0, signed |-> {}]
GrowthNext ==
    \/ \E a \in People : ReferralsView(a) \/ ErasePerson(a) \/ IndexTrade(a) \/ IndexClaim(a)
    \/ \E c \in BindCalls : BindArrives(c) \/ BindChecks(c) \/ Binds(c)
    \/ IndexResult \/ GrowthRestarts
GrowthSpec == GrowthInit /\ [][GrowthNext]_growthVars

-------------------------------------------------------------------------------
(* What they may rely on. *)

\* "A second binding would let someone shop for a referrer after the fact" (bindReferral): a
\* binding, once made, names its referrer until one of the two is erased, though any number of
\* handlers found the account unbound; and it is one that the referred account signed.
BindingsStand ==
    [][\A b \in People :
           IF binding[b] = <<>>
           THEN binding'[b] # <<>> => binding'[b][1] # b /\ <<b, binding'[b][1]>> \in binds.signed
           ELSE binding'[b] \in {binding[b], <<>>, <<ErasedReferrer, binding[b][2]>>}]_growthVars

\* Nobody's loss is shown as a win: whoever is shown as a winner has a settled market, ranks
\* on the leaderboard, and before everybody who was credited nothing.
WinsAreCredits ==
    \A win \in RecentWins :
        /\ SettledCount(win.account) > 0
        /\ \A b \in Top : Credited(b) = 0 => RanksBefore(win.account, b)
===============================================================================

------------------------------- MODULE MCMarket -------------------------------
(***************************************************************************)
(* Model values and symmetry for the runs of LivePredictionMarket.         *)
(***************************************************************************)
EXTENDS Portfolio, TLC

CONSTANTS alice, bob, r1, r2, r3

MCUsers == {alice, bob}
MCResolvers == {r1, r2, r3}
ResolverSymmetry == Permutations(MCResolvers)
Symmetric == Permutations(MCUsers) \cup ResolverSymmetry

\* Two resolvers suffice where only a reached quorum matters.
MCTwoResolvers == {r1, r2}
PairSymmetry == Permutations(MCTwoResolvers)
UserPairSymmetry == Permutations(MCUsers) \cup PairSymmetry

===============================================================================

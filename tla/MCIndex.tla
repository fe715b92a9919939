-------------------------------- MODULE MCIndex --------------------------------
EXTENDS ChainIndex

MCHistories ==
    {<<"create", "liquidity", "submit", "bond", "accuse">>,
     <<"create", "liquidity", "submit", "clear", "suspend">>,
     <<"create", "liquidity", "submit", "clear", "close", "attest">>}

(* What the API reads from the index is the chain up to the cursor: the    *)
(* rows are the projection of exactly the applied logs, and each market's  *)
(* row tells what the market said (indexer.mjs:126-141).                   *)
IndexTellsTheChain == ProjectionIsTheChain /\ RowsTellTheMarkets
===============================================================================

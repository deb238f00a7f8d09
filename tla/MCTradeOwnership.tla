-------------------------- MODULE MCTradeOwnership --------------------------
(* Two orders of the runtime's own, one of somebody else.                  *)
EXTENDS TradeOwnership, TLC

CONSTANTS own1, own2, other1

MCSymmetry == Permutations({own1, own2})
MCNoTrade == -1
=============================================================================

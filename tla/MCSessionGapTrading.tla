------------------------ MODULE MCSessionGapTrading ------------------------
(* A session of three bars, with no entry and the exit at the third, and   *)
(* the first bar of the next session.                                      *)
EXTENDS SessionGapTrading

MCBars == <<2, 4, 6, 102>>
MCNoBar == -100
=============================================================================

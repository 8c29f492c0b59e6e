--------------------------- MODULE MCTradingBooks ---------------------------
(***************************************************************************)
(* TradingBooks for TLC.                                                   *)
(***************************************************************************)
EXTENDS TradingBooks

CONSTANTS m1, m2, m3, s1, s2, s3, s4

\* Three tokens, and a second signal for the first of them.
MCMintOf == [s \in Signals |-> CASE s = s2 -> m2 [] s = s3 -> m3 [] OTHER -> m1]
=============================================================================

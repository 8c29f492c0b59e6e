---------------------------- MODULE MCLiveTrader ----------------------------
(***************************************************************************)
(* LiveTrader for TLC: with one token or with a token for each signal.     *)
(***************************************************************************)
EXTENDS LiveTrader, TLC

CONSTANTS m1, m2, s2

OneToken == [s \in Signals |-> m1]
TwoTokens == [s \in Signals |-> IF s = s2 THEN m2 ELSE m1]

\* Worker processes are interchangeable.
WorkerSymmetry == Permutations(Workers)
=============================================================================

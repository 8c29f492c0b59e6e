---------------------------- MODULE MCApiCredits ----------------------------
(***************************************************************************)
(* ApiCredits for TLC: two saved reads and a job, two days to a month.     *)
(***************************************************************************)
EXTENDS ApiCredits

CONSTANTS r1, r2, job

Prices == [r \in Requests |-> IF r = r2 THEN 1 ELSE 2]
TwoDayMonths == [d \in 0..LastDay |-> d \div 2]
=============================================================================

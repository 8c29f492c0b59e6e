------------------------------ MODULE MCTopUps ------------------------------
(***************************************************************************)
(* TopUps for TLC: two orders and at most one request.                     *)
(***************************************************************************)
EXTENDS TopUps

CONSTANTS r1, o1, o2, p1, p2, p3, t1, t2, a1, a2, none

Prices == [r \in Requests |-> 2]
OneMonth == [d \in 0..LastDay |-> 0]
TwoPacks == [o \in Orders |-> IF o = o1 THEN 1 ELSE 2]

\* The service answers two proofs with one transaction.
SharedTransaction == [p \in Proofs |-> IF p = p3 THEN t2 ELSE t1]
=============================================================================

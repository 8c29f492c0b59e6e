------------------------------- MODULE TopUps -------------------------------
(***************************************************************************)
(* Top-ups of one customer's API credits paid by x402                      *)
(* (src/src/runner_web/api_payments.py), on top of ApiCredits.             *)
(*                                                                         *)
(* settle() is a transaction that takes the order, up to two calls of the  *)
(* payment service with a status write between them, and a transaction     *)
(* that adds the credits.  Handlers of the same order are kept apart by    *)
(* its status and a 90-second lease.  An order is its idempotency key, a   *)
(* proof is a signed payment.                                              *)
(***************************************************************************)
EXTENDS ApiCredits

CONSTANTS
  Orders,       \* idempotency keys of top-up orders
  Proofs,       \* payments the customer may sign
  Attempts,     \* handlers that run at a time
  Transactions, \* settlements on a payment network
  TxOf,         \* the transaction that the service settles a proof with
  Pack,         \* credits of each order
  Nobody,       \* no order, or no proof
  Stalls        \* TRUE: a lease may lapse under a handler still at work

ASSUME TopUpsAssumption ==
  /\ TxOf \in [Proofs -> Transactions]
  /\ IsFiniteSet(Orders) /\ Pack \in [Orders -> Packs]
  /\ Proofs \cap Transactions = {}           \* their claims have ids of two kinds
  /\ Nobody \notin Orders \cup Proofs
  /\ Stalls \in BOOLEAN

VARIABLES
  orders,    \* rows of api_topups
  claims,    \* api_payment_claims: the order of each claimed proof and transaction
  attempts,  \* the handlers at work
  paid,      \* proofs whose transfer has been made
  granted    \* how often each order's credits were added

topUpVars == <<orders, claims, attempts, paid, granted>>
allVars == <<today, acct, requests, spent, bought, topUpVars>>

-----------------------------------------------------------------------------
OrderStatuses == {"none", "open", "verifying", "settling", "pending", "rejected", "complete"}
Order ==
  {row \in [status : OrderStatuses, proof : Proofs \cup {Nobody}, leased : BOOLEAN] :
     row.proof = Nobody <=> row.status \in {"none", "open"}}
NoOrder == [status |-> "none", proof |-> Nobody, leased |-> FALSE]

\* What a handler does next.
Steps == {"verify", "reject", "proceed", "settle", "pend", "credit"}
Idle == [pc |-> "idle", order |-> Nobody, proof |-> Nobody]
Attempt == {Idle} \cup [pc : Steps, order : Orders, proof : Proofs]

TopUpsTypeOK ==
  /\ CreditsTypeOK
  /\ orders \in [Orders -> Order]
  /\ claims \in [Proofs \cup Transactions -> Orders \cup {Nobody}]
  /\ attempts \in [Attempts -> Attempt]
  /\ paid \subseteq Proofs
  /\ granted \in [Orders -> Nat]

TopUpsInit ==
  /\ CreditsInit
  /\ orders = [o \in Orders |-> NoOrder]
  /\ claims = [c \in Proofs \cup Transactions |-> Nobody]
  /\ attempts = [a \in Attempts |-> Idle]
  /\ paid = {}
  /\ granted = [o \in Orders |-> 0]

AtWork(o) == {a \in Attempts : attempts[a].order = o}
Go(a, pc) == attempts' = [attempts EXCEPT ![a].pc = pc]
Return(a) == attempts' = [attempts EXCEPT ![a] = Idle]
Mark(o, status) == orders' = [orders EXCEPT ![o].status = status]

-----------------------------------------------------------------------------
\* order(): the unique key keeps the row of a simultaneous creation.
Create(o, at) ==
  /\ orders[o].status = "none"
  /\ orders' = [orders EXCEPT ![o] = [NoOrder EXCEPT !.status = "open"]]
  /\ acct' = Rolled(at)
  /\ UNCHANGED <<today, requests, spent, bought, claims, attempts, paid, granted>>

\* settle() turns away an order that another handler holds.
Held_VerifyingOnly(o) == orders[o].status = "verifying" /\ orders[o].leased
Held_WithoutLease(o) == orders[o].status \in {"verifying", "settling"}
Held(o) == orders[o].status \in {"verifying", "settling"} /\ orders[o].leased

Retries_SettlingOnly(o) == orders[o].status = "settling"
Retries(o) == orders[o].status \in {"settling", "pending"}

Begin_ProofUnsaved(a, o, p, at) ==
  /\ attempts[a].pc = "idle"
  /\ orders[o].status \notin {"none", "complete"}
  /\ ~Held(o)
  /\ claims[p] \in {Nobody, o}
  /\ claims' = [claims EXCEPT ![p] = o]
  /\ orders' = [orders EXCEPT ![o].status = IF Retries(o) THEN "settling" ELSE "verifying",
                              ![o].leased = TRUE]
  /\ attempts' = [attempts EXCEPT ![a] =
                    [pc |-> IF Retries(o) THEN "settle" ELSE "verify", order |-> o, proof |-> p]]
  /\ acct' = Rolled(at)
  /\ UNCHANGED <<today, requests, spent, bought, paid, granted>>

\* The first transaction of settle() for an order that is not complete.
Begin(a, o, p, at) ==
  /\ attempts[a].pc = "idle"
  /\ orders[o].status \notin {"none", "complete"}
  /\ orders[o].proof \in {Nobody, p}
  /\ ~Held(o)
  /\ claims[p] \in {Nobody, o}
  /\ claims' = [claims EXCEPT ![p] = o]
  /\ orders' = [orders EXCEPT ![o] =
                  [status |-> IF Retries(o) THEN "settling" ELSE "verifying",
                   proof |-> p, leased |-> TRUE]]
  /\ attempts' = [attempts EXCEPT ![a] =
                    [pc |-> IF Retries(o) THEN "settle" ELSE "verify", order |-> o, proof |-> p]]
  /\ acct' = Rolled(at)
  /\ UNCHANGED <<today, requests, spent, bought, paid, granted>>

\* The service's answer to verify(): it knows no payment valid that was made.
Verify(a) ==
  /\ attempts[a].pc = "verify"
  /\ \/ attempts[a].proof \notin paid /\ Go(a, "proceed")
     \/ Go(a, "reject")
     \/ Go(a, "pend")
  /\ UNCHANGED <<creditsVars, orders, claims, paid, granted>>

Reject(a) ==
  /\ attempts[a].pc = "reject"
  /\ Mark(attempts[a].order, "rejected")
  /\ Return(a)
  /\ UNCHANGED <<creditsVars, claims, paid, granted>>

Proceed(a) ==
  /\ attempts[a].pc = "proceed"
  /\ Mark(attempts[a].order, "settling")
  /\ Go(a, "settle")
  /\ UNCHANGED <<creditsVars, claims, paid, granted>>

\* The service's settle() makes the transfer, or finds it made, and answers.
SettleOk(a) ==
  /\ attempts[a].pc = "settle"
  /\ paid' = paid \cup {attempts[a].proof}
  /\ Go(a, "credit")
  /\ UNCHANGED <<creditsVars, orders, claims, granted>>

SettleFails_Credited(a) ==
  /\ attempts[a].pc = "settle"
  /\ Go(a, "credit")
  /\ UNCHANGED <<creditsVars, orders, claims, paid, granted>>

\* It fails, or the transfer is made and the answer lost.
SettleFails(a) ==
  /\ attempts[a].pc = "settle"
  /\ paid' \in {paid, paid \cup {attempts[a].proof}}
  /\ Go(a, "pend")
  /\ UNCHANGED <<creditsVars, orders, claims, granted>>

Pend(a) ==
  /\ attempts[a].pc = "pend"
  /\ Mark(attempts[a].order, "pending")
  /\ Return(a)
  /\ UNCHANGED <<creditsVars, claims, paid, granted>>

\* The last transaction of settle(); a settlement of another order ends it.
Claimed_Overwritten(tx, o) == TRUE
Claimed(tx, o) == claims[tx] \in {Nobody, o}

CreditOrder_AccountUnread(a, at) ==
  LET o == attempts[a].order  tx == TxOf[attempts[a].proof] IN
  /\ attempts[a].pc = "credit"
  /\ Claimed(tx, o) /\ orders[o].status # "complete"
  /\ bought + Pack[o] <= MaxBought
  /\ claims' = [claims EXCEPT ![tx] = o]
  /\ Mark(o, "complete")
  /\ granted' = [granted EXCEPT ![o] = @ + 1]
  /\ bought' = bought + Pack[o]
  /\ acct' = [acct EXCEPT !.paid = @ + Pack[o]]
  /\ Return(a)
  /\ UNCHANGED <<today, requests, spent, paid>>

CreditOrder(a, at) ==
  LET o == attempts[a].order  tx == TxOf[attempts[a].proof] IN
  /\ attempts[a].pc = "credit"
  /\ \/ /\ Claimed(tx, o) /\ orders[o].status # "complete"
        /\ claims' = [claims EXCEPT ![tx] = o]
        /\ Mark(o, "complete")
        /\ granted' = [granted EXCEPT ![o] = @ + 1]
        /\ Credit(Pack[o], at)
     \/ /\ Claimed(tx, o) /\ orders[o].status = "complete"
        /\ claims' = [claims EXCEPT ![tx] = o]
        /\ balance(at)
        /\ UNCHANGED <<orders, granted>>
     \/ /\ ~Claimed(tx, o)
        /\ UNCHANGED <<creditsVars, claims, orders, granted>>
  /\ Return(a)
  /\ UNCHANGED paid

-----------------------------------------------------------------------------
\* A handler dies with its process, wherever it is.
Crash(a) ==
  /\ attempts[a].pc # "idle"
  /\ Return(a)
  /\ UNCHANGED <<creditsVars, orders, claims, paid, granted>>

\* 90 seconds pass.  The service's two calls take at most 30 each.
Lapse(o) ==
  /\ orders[o].leased
  /\ Stalls \/ AtWork(o) = {}
  /\ orders' = [orders EXCEPT ![o].leased = FALSE]
  /\ UNCHANGED <<creditsVars, claims, attempts, paid, granted>>

\* prune() drops open and rejected orders after seven days, and their claims with them.
PruneOrder(o) ==
  /\ orders[o].status \in {"open", "rejected"}
  /\ AtWork(o) = {}
  /\ orders' = [orders EXCEPT ![o] = NoOrder]
  /\ claims' = [c \in DOMAIN claims |-> IF claims[c] = o THEN Nobody ELSE claims[c]]
  /\ UNCHANGED <<creditsVars, attempts, paid, granted>>

-----------------------------------------------------------------------------
Handle(a) ==
  \/ Verify(a) \/ Reject(a) \/ Proceed(a) \/ SettleOk(a) \/ SettleFails(a) \/ Pend(a)
  \/ \E at \in Times : CreditOrder(a, at)

TopUpsNext ==
  \/ UseCredits /\ UNCHANGED topUpVars
  \/ \E o \in Orders, at \in Times : Create(o, at)
  \/ \E a \in Attempts, o \in Orders, p \in Proofs, at \in Times : Begin(a, o, p, at)
  \/ \E a \in Attempts : Handle(a) \/ Crash(a)
  \/ \E o \in Orders : Lapse(o) \/ PruneOrder(o)

TopUpsSpec == TopUpsInit /\ [][TopUpsNext]_allVars

\* Leases end, and a handler that is not killed goes on.
FairTopUpsSpec ==
  /\ TopUpsSpec
  /\ \A o \in Orders : WF_allVars(Lapse(o))
  /\ \A a \in Attempts : WF_allVars(Handle(a))

-----------------------------------------------------------------------------
(***************************************************************************)
(* Properties.                                                             *)
(***************************************************************************)
\* docs/developer-api.md: a confirmed payment "adds 5,000 credits exactly once".
\* Whatever retries, crashes and lost answers an order goes through, its credits
\* were added once if it is complete, and else never.
CreditedOnce ==
  \A o \in Orders : granted[o] = IF orders[o].status = "complete" THEN 1 ELSE 0

GrantedIsPaid ==
  \A o \in Orders : granted[o] > 0 => orders[o].proof \in paid

\* No credits without their payment, and all that was bought comes from orders.
CreditsArePaid ==
  /\ bought = SumFunctionOnSet([o \in Orders |-> granted[o] * Pack[o]], Orders)
  /\ GrantedIsPaid

\* The promise in the document's words: no order's credits are ever added again.
AddedOnce == \A o \in Orders : granted[o] <= 1

\* docs/developer-api.md: "A global payment claim and unique settlement receipt
\* prevent a payment from funding several accounts."  One transaction pays for
\* one order, though the service answers two proofs with it.
PaymentFundsOneOrder ==
  \A o, q \in Orders :
    o # q /\ granted[o] > 0 /\ granted[q] > 0 =>
      TxOf[orders[o].proof] # TxOf[orders[q].proof]

\* "Create a new order", says the answer to a declined authorization: the money
\* of an order that was declined never moved.
RejectedIsUnpaid ==
  \A o \in Orders :
    orders[o].status = "rejected" => orders[o].proof \notin paid

\* docs/developer-api.md: "operations must reconcile that order", "Keep that order
\* visible to the buyer."  A transfer that was made is held by its order, which
\* waits or is complete, whatever the service answers and however long no answer
\* tells of it: the order is neither declined nor pruned nor given another proof.
PaidIsHeld ==
  \A p \in paid :
    /\ claims[p] \in Orders
    /\ orders[claims[p]].status \in {"settling", "pending", "complete"}

\* What the code cannot bring about by itself: the customer retries an order that
\* is pending, as the document asks, the service tells of the settlement in one
\* of these attempts, and an attempt that has heard of it comes to its end.
\* Without it an order stays pending for operations to reconcile.
Retried(o) ==
  SF_allVars(Retries(o) /\ \E a \in Attempts, p \in Proofs, at \in Times : Begin(a, o, p, at))
Answered(o) ==
  /\ SF_allVars(\E a \in AtWork(o) : SettleOk(a))
  /\ SF_allVars(\E a \in AtWork(o), at \in Times : CreditOrder(a, at))

\* Then a transfer that was made is credited in the end, through crashes and lost
\* answers, to one of the orders whose proof the transaction settles.
PaidIsCredited ==
  \A o \in Orders, p \in Proofs :
    Retried(o) /\ Answered(o) =>
      (p \in paid /\ claims[p] = o
         ~> \E q \in Orders : granted[q] > 0 /\ TxOf[orders[q].proof] = TxOf[p])

-----------------------------------------------------------------------------
(***************************************************************************)
(* The inductive invariant behind them, proved in TopUpsProofs for leases  *)
(* that outlive their handlers.                                            *)
(***************************************************************************)
\* The statuses an order may have while its handler is at a step.
StatusesAt(pc) ==
  IF pc \in {"verify", "reject", "proceed"} THEN {"verifying"}
  ELSE IF pc = "pend" THEN {"verifying", "settling"}
  ELSE {"settling"}

\* A handler works on the proof that its order was saved with ...
HandlerKnowsProof ==
  \A a \in Attempts : attempts[a].pc # "idle" =>
    orders[attempts[a].order].proof = attempts[a].proof

\* ... under the order's lease ...
HandlerHoldsOrder ==
  \A a \in Attempts : attempts[a].pc # "idle" =>
    /\ orders[attempts[a].order].status \in StatusesAt(attempts[a].pc)
    /\ orders[attempts[a].order].leased

\* ... alone.
OneHandler ==
  \A a, b \in Attempts :
    attempts[a].pc # "idle" /\ attempts[a].order = attempts[b].order => a = b

\* The claim of a proof and the proof of an order are two sides of one record.
ClaimsMatchOrders ==
  \A p \in Proofs, o \in Orders : claims[p] = o <=> orders[o].proof = p

CreditFollowsPayment ==
  \A a \in Attempts : attempts[a].pc = "credit" => attempts[a].proof \in paid

GrantHoldsTransaction ==
  \A o \in Orders : granted[o] > 0 => claims[TxOf[orders[o].proof]] = o

TopUpsInv ==
  /\ TopUpsTypeOK
  /\ HandlerKnowsProof
  /\ HandlerHoldsOrder
  /\ OneHandler
  /\ ClaimsMatchOrders
  /\ PaidIsHeld
  /\ CreditFollowsPayment
  /\ CreditedOnce
  /\ GrantedIsPaid
  /\ GrantHoldsTransaction
=============================================================================

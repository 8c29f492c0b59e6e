--------------------------- MODULE ProviderBudget ---------------------------
(***************************************************************************)
(* The daily budget of provider credits (reserve_credits() and             *)
(* release_wallet_credits() of src/src/runner_web/memecoin_evidence.py).   *)
(*                                                                         *)
(* A wallet page reserves the most it may cost; wallet_rpc() gives what a  *)
(* short page left over back to the day that was charged, which may be     *)
(* over by then.  Prices and other reads are counted at their cost.        *)
(***************************************************************************)
EXTENDS Integers, FiniteSets

CONSTANTS
  Calls,                                 \* wallet pages read at a time
  CreditLimit, OtherLimit, WalletLimit,  \* credit_limit, lane_limit("other"), wallet_credit_limit
  PageCredits,                           \* credits reserved for a page
  PageCosts                              \* what a page may cost

\* A wallet page costs 103 credits at most, and the wallets' ceiling is 2000 by
\* default.  reserve_credits() does not compare a page with the wallets' ceiling
\* when it inserts the row of a day: with a budget so small that a page is over
\* it, the first page of every day is read all the same.
ASSUME ProviderBudgetAssumption ==
  /\ IsFiniteSet(Calls)
  /\ {CreditLimit, OtherLimit, WalletLimit} \subseteq Nat
  /\ WalletLimit <= OtherLimit /\ OtherLimit <= CreditLimit
  /\ PageCredits \in 1..WalletLimit
  /\ PageCosts \subseteq 1..PageCredits

VARIABLES
  budget,  \* rows of memecoin_helius_budget of today and yesterday
  used,    \* what the provider counted for wallets, and what prices took
  calls    \* the day that each wallet page under way was charged to

budgetVars == <<budget, used, calls>>

Days == {"today", "yesterday"}
NoCharge == [reserved |-> 0, wallet |-> 0]
NoUse == [wallet |-> 0, price |-> 0]

BudgetTypeOK ==
  /\ budget \in [Days -> [reserved : Nat, wallet : Nat]]
  /\ used \in [Days -> [wallet : Nat, price : Nat]]
  /\ calls \in [Calls -> Days \cup {"none", "before"}]

BudgetInit ==
  /\ budget = [d \in Days |-> NoCharge]
  /\ used = [d \in Days |-> NoUse]
  /\ calls = [c \in Calls |-> "none"]

-----------------------------------------------------------------------------
lane_limit(lane) == IF lane = "price" THEN CreditLimit ELSE OtherLimit

\* The first reservation of a day inserts its row.
Fits(lane, credits) ==
  LET row == budget["today"] IN
  /\ row.reserved + credits <= lane_limit(lane)
  /\ lane = "wallet" /\ row.reserved > 0 => row.wallet + credits <= WalletLimit

reserve_credits(lane, credits) ==
  /\ Fits(lane, credits)
  /\ budget' = [budget EXCEPT
       !["today"].reserved = @ + credits,
       !["today"].wallet = @ + (IF lane = "wallet" THEN credits ELSE 0)]

\* Nothing is given back that the charged day does not hold.
release_wallet_credits_Today(credits, day) ==
  IF budget["today"].reserved >= credits /\ budget["today"].wallet >= credits
  THEN [budget EXCEPT !["today"].reserved = @ - credits, !["today"].wallet = @ - credits]
  ELSE budget
release_wallet_credits(credits, day) ==
  IF day \in Days /\ budget[day].reserved >= credits /\ budget[day].wallet >= credits
  THEN [budget EXCEPT ![day].reserved = @ - credits, ![day].wallet = @ - credits]
  ELSE budget

Count(credits, day) ==
  IF day \in Days THEN [used EXCEPT ![day].wallet = @ + credits] ELSE used

OtherRead(lane) ==
  /\ reserve_credits(lane, 1)
  /\ used' = [used EXCEPT !["today"].price = IF lane = "price" THEN @ + 1 ELSE @]
  /\ UNCHANGED calls

StartPage(c) ==
  /\ calls[c] = "none"
  /\ reserve_credits("wallet", PageCredits)
  /\ calls' = [calls EXCEPT ![c] = "today"]
  /\ UNCHANGED used

\* The page, with the rows that it cost.
PageReply(c) ==
  /\ calls[c] # "none"
  /\ \E cost \in PageCosts :
       /\ budget' = release_wallet_credits(PageCredits - cost, calls[c])
       /\ used' = Count(cost, calls[c])
  /\ calls' = [calls EXCEPT ![c] = "none"]

\* The call fails or its process ends; the provider may have counted it.
PageLost(c) ==
  /\ calls[c] # "none"
  /\ used' \in {used} \cup {Count(cost, calls[c]) : cost \in PageCosts}
  /\ calls' = [calls EXCEPT ![c] = "none"]
  /\ UNCHANGED budget

\* A day that no call is charged to any more does not change.
Midnight ==
  LET charged == \E c \in Calls : calls[c] = "today" IN
  /\ budget' = [yesterday |-> IF charged THEN budget["today"] ELSE NoCharge, today |-> NoCharge]
  /\ used' = [yesterday |-> IF charged THEN used["today"] ELSE NoUse, today |-> NoUse]
  /\ calls' = [c \in Calls |-> CASE calls[c] = "today" -> "yesterday"
                                 [] calls[c] = "yesterday" -> "before"
                                 [] OTHER -> calls[c]]

BudgetNext ==
  \/ \E lane \in {"price", "other"} : OtherRead(lane)
  \/ \E c \in Calls : StartPage(c) \/ PageReply(c) \/ PageLost(c)
  \/ Midnight

BudgetSpec == BudgetInit /\ [][BudgetNext]_budgetVars

-----------------------------------------------------------------------------
\* The day's credits are never overspent, in whole, by wallets, or into the
\* reserve of the prices ("prices may use it all, other reads stop short",
\* memecoin_evidence.py:34), and what the provider counted for wallets is
\* covered by what stays reserved for them, also when pages of two days are
\* settled after midnight, or not at all.
BudgetKept ==
  \A d \in Days :
    /\ used[d].wallet <= budget[d].wallet
    /\ budget[d].wallet <= WalletLimit
    /\ budget[d].wallet + used[d].price <= budget[d].reserved
    /\ budget[d].reserved - used[d].price <= OtherLimit
    /\ budget[d].reserved <= CreditLimit
=============================================================================

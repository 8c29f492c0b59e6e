----------------------------- MODULE ApiCredits -----------------------------
(***************************************************************************)
(* One customer's API credits: the transactions of                         *)
(* src/src/runner_web/api_credits.py on the rows of api_accounts and       *)
(* api_requests, as request handlers, the job worker and its cleanup run   *)
(* them.                                                                   *)
(*                                                                         *)
(* A request is its idempotency key.  account() writes the account row     *)
(* first, so the transactions of one account run one after another.  The   *)
(* time each of them uses was read before it waited for that row.          *)
(***************************************************************************)
EXTENDS Integers, FiniteSets, FiniteSetsExt

CONSTANTS
  Requests,     \* idempotency keys
  Jobs,         \* those of fresh jobs, which spend purchased credits only
  Price,        \* credits each of them costs
  FreeMonth,    \* FREE_MONTH
  FreeDay,      \* FREE_DAY
  Packs,        \* credits a top-up may add
  LastDay,      \* bound on the days that pass
  MonthOf,      \* the month of each day
  Late,         \* days by which a transaction's time may lag behind
  MaxBought     \* bound on the credits bought

Days == 0..LastDay

ASSUME CreditsAssumption ==
  /\ IsFiniteSet(Requests) /\ Jobs \subseteq Requests
  /\ Price \in [Requests -> Nat \ {0}]
  /\ FreeMonth \in Nat /\ FreeDay \in Nat
  /\ Packs \subseteq Nat \ {0}
  /\ LastDay \in Nat /\ Late \in {0, 1} /\ MaxBought \in Nat
  /\ MonthOf \in [Days -> Nat]
  /\ \A d, e \in Days : d <= e => MonthOf[d] <= MonthOf[e]

VARIABLES
  today,       \* the day it is
  acct,        \* the row of api_accounts
  requests,    \* rows of api_requests
  spent,       \* paid credits of charged requests whose rows are gone
  bought       \* credits ever added by top-ups

creditsVars == <<today, acct, requests, spent, bought>>

-----------------------------------------------------------------------------
Pending == {"reserved", "queued", "running"}
Statuses == Pending \cup {"none", "complete", "failed"}

Request == [status : Statuses, free : Nat, paid : Nat, day : Days]
NoRequest == [status |-> "none", free |-> 0, paid |-> 0, day |-> 0]

\* month is always the month of day: account() writes both from one time.
Credits == [paid : Nat, month_used : 0..FreeMonth, day_used : 0..FreeDay, day : Days]

CreditsTypeOK ==
  /\ today \in Days
  /\ acct \in Credits
  /\ requests \in [Requests -> Request]
  /\ spent \in Nat
  /\ bought \in 0..MaxBought

CreditsInit ==
  /\ today = 0
  /\ acct = [paid |-> 0, month_used |-> 0, day_used |-> 0, day |-> 0]
  /\ requests = [r \in Requests |-> NoRequest]
  /\ spent = 0
  /\ bought = 0

Midnight ==
  /\ today < LastDay
  /\ today' = today + 1
  /\ UNCHANGED <<acct, requests, spent, bought>>

Times == {at \in Days : today - Late <= at /\ at <= today}

-----------------------------------------------------------------------------
\* account(): the first write of every transaction starts a new day or month.
Rolled_KeepsDay(at) ==
  [acct EXCEPT !.month_used = IF MonthOf[acct.day] = MonthOf[at] THEN @ ELSE 0, !.day = at]

Rolled(at) ==
  [acct EXCEPT !.month_used = IF MonthOf[acct.day] = MonthOf[at] THEN @ ELSE 0,
               !.day_used = IF acct.day = at THEN @ ELSE 0,
               !.day = at]

\* The CHECK constraints of api_accounts.
AccountOK(a) ==
  /\ a.paid >= 0
  /\ a.month_used \in 0..FreeMonth
  /\ a.day_used \in 0..FreeDay

\* Every read of the balance writes it, and so does a call that finds nothing to do.
balance(at) ==
  /\ acct' = Rolled(at)
  /\ UNCHANGED <<today, requests, spent, bought>>

FreeShare(r, a) ==
  IF r \in Jobs THEN 0 ELSE Min({Price[r], FreeMonth - a.month_used, FreeDay - a.day_used})

\* One job at a time.
Busy == \E r \in Requests : requests[r].status \in {"queued", "running"}

reserve_MonthOnly(r, at) ==
  LET a == Rolled(at)
      free == IF r \in Jobs THEN 0 ELSE Min({Price[r], FreeDay - a.day_used})
      paid == Price[r] - free
  IN /\ requests[r].status = "none"
     /\ r \in Jobs => ~Busy
     /\ a.paid >= paid
     /\ acct' = [a EXCEPT !.paid = @ - paid, !.day_used = @ + free]
     /\ requests' = [requests EXCEPT ![r] =
                       [status |-> IF r \in Jobs THEN "queued" ELSE "reserved",
                        free |-> free, paid |-> paid, day |-> at]]
     /\ UNCHANGED <<today, spent, bought>>

reserve(r, at) ==
  LET a == Rolled(at)
      free == FreeShare(r, a)
      paid == Price[r] - free
  IN /\ requests[r].status = "none"
     /\ r \in Jobs => ~Busy
     /\ a.paid >= paid
     /\ acct' = [a EXCEPT !.paid = @ - paid, !.month_used = @ + free, !.day_used = @ + free]
     /\ requests' = [requests EXCEPT ![r] =
                       [status |-> IF r \in Jobs THEN "queued" ELSE "reserved",
                        free |-> free, paid |-> paid, day |-> at]]
     /\ UNCHANGED <<today, spent, bought>>

\* run_pending claims a queued job.
claim(r) ==
  /\ requests[r].status = "queued"
  /\ requests' = [requests EXCEPT ![r].status = "running"]
  /\ UNCHANGED <<today, acct, spent, bought>>

\* finish() without an error keeps the charge (a job's handler has claimed it) ...
complete(r, at) ==
  /\ requests[r].status \in Pending \ {"queued"}
  /\ acct' = Rolled(at)
  /\ requests' = [requests EXCEPT ![r].status = "complete"]
  /\ UNCHANGED <<today, spent, bought>>

\* ... and with one gives it back, the free part only within its day and month.
Refunded_AnyDay(r, at) ==
  [Rolled(at) EXCEPT !.paid = @ + requests[r].paid,
                     !.month_used = @ - requests[r].free,
                     !.day_used = @ - requests[r].free]

Refunded(r, at) ==
  LET row == requests[r] IN
  [Rolled(at) EXCEPT !.paid = @ + row.paid,
                     !.month_used = @ - IF MonthOf[row.day] = MonthOf[at] THEN row.free ELSE 0,
                     !.day_used = @ - IF row.day = at THEN row.free ELSE 0]

refund_Repeated(r, at) ==
  /\ requests[r].status # "none"
  /\ AccountOK(Refunded(r, at))
  /\ acct' = Refunded(r, at)
  /\ requests' = [requests EXCEPT ![r].status = "failed"]
  /\ UNCHANGED <<today, spent, bought>>

refund(r, at) ==
  /\ requests[r].status \in Pending
  /\ AccountOK(Refunded(r, at))
  /\ acct' = Refunded(r, at)
  /\ requests' = [requests EXCEPT ![r].status = "failed"]
  /\ UNCHANGED <<today, spent, bought>>

\* prune() refunds what has been pending for 15 minutes, its handler still at
\* work or not, with the same call.  It forgets a resolved request after days.
forget(r) ==
  /\ requests[r].status \in {"complete", "failed"}
  /\ requests[r].day < today - Late
  /\ spent' = spent + IF requests[r].status = "complete" THEN requests[r].paid ELSE 0
  /\ requests' = [requests EXCEPT ![r] = NoRequest]
  /\ UNCHANGED <<today, acct, bought>>

\* What a completed top-up adds.
Credit(n, at) ==
  /\ bought + n <= MaxBought
  /\ bought' = bought + n
  /\ acct' = [Rolled(at) EXCEPT !.paid = @ + n]
  /\ UNCHANGED <<today, requests, spent>>

-----------------------------------------------------------------------------
UseCredits ==
  \/ Midnight
  \/ \E at \in Times :
       \/ balance(at)
       \/ \E r \in Requests : reserve(r, at) \/ complete(r, at) \/ refund(r, at)
  \/ \E r \in Requests : claim(r) \/ forget(r)

CreditsNext == UseCredits \/ \E at \in Times, n \in Packs : Credit(n, at)

CreditsSpec == CreditsInit /\ [][CreditsNext]_creditsVars

\* The worker calls prune() every few seconds, for ever.
FairCreditsSpec ==
  CreditsSpec /\ \A r \in Requests : WF_creditsVars(\E at \in Times : refund(r, at))

-----------------------------------------------------------------------------
(***************************************************************************)
(* Properties.                                                             *)
(***************************************************************************)
Charged == {r \in Requests : requests[r].status \in Pending \cup {"complete"}}
ChargedOn(d) == {r \in Charged : requests[r].day = d}
ChargedIn(month) == {r \in Charged : MonthOf[requests[r].day] = month}

PaidOf == [r \in Requests |-> requests[r].paid]
FreeOf == [r \in Requests |-> requests[r].free]

\* No credit is lost or made up: what was bought is what is left, what pending
\* and completed requests hold, and what forgotten ones have spent.
CreditsConserved ==
  bought = acct.paid + spent + SumFunctionOnSet(PaidOf, Charged)

\* docs/developer-api.md: "up to 100 per UTC day".  The counter of the current
\* day is exactly the free credits that the day's requests still hold, whatever
\* was refunded or rolled over in between.
FreeUseExact ==
  acct.day = today => acct.day_used = SumFunctionOnSet(FreeOf, ChargedOn(acct.day))

\* docs/developer-api.md: "A failed request returns its reserved credits."  The
\* constraints of api_accounts never refuse the refund of a pending request by
\* a transaction that uses the time it is, whatever times others have used.
RefundNeverBlocked ==
  \A r \in Requests : requests[r].status \in Pending => AccountOK(Refunded(r, today))

\* docs/developer-api.md: "Expired work returns its customer credits."  A request
\* whose handler is gone does not hold its credits for ever.
ReservationsEnd ==
  \A r \in Requests : requests[r].status \in Pending ~> requests[r].status \notin Pending

-----------------------------------------------------------------------------
(***************************************************************************)
(* The inductive invariant behind the last two, proved in TopUpsProofs     *)
(* for transactions that use the time it is, Late = 0.                     *)
(***************************************************************************)
\* No transaction of a later day has been seen ...
NoneAhead ==
  /\ acct.day <= today
  /\ \A r \in Requests : requests[r].day <= acct.day

\* ... and the month's counter is never less than what the month's requests
\* hold.  It may be more: a completed request of an earlier day is forgotten.
MonthCoversCharges ==
  acct.month_used >= SumFunctionOnSet(FreeOf, ChargedIn(MonthOf[acct.day]))

FreeInv ==
  /\ CreditsTypeOK
  /\ NoneAhead
  /\ FreeUseExact
  /\ MonthCoversCharges
=============================================================================

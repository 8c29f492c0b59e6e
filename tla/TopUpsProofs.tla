---------------------------- MODULE TopUpsProofs ----------------------------
(***************************************************************************)
(* For any orders, payments, handlers and prices: an order's credits are   *)
(* added once, for a payment that was made and that funds no other order,  *)
(* top-ups are steps of the credits' own specification, and that keeps     *)
(* every credit, the refunded and the spent ones, accounted for.           *)
(*                                                                         *)
(* The types and the refinement hold with leases of any length.  The rest  *)
(* assumes that a lease outlives its handler, ~Stalls: without it the run  *)
(* topups_stalled finds credits added twice.  The counters of free use are *)
(* proved for times that do not lag, Late = 0: with times that do, the run *)
(* credits_midnight finds a refund that is refused.                        *)
(***************************************************************************)
EXTENDS TopUps, SumTheorems, TLAPS

-----------------------------------------------------------------------------
(***************************************************************************)
(* The account.                                                            *)
(***************************************************************************)
LEMMA MinOfThree ==
  ASSUME NEW x \in Int, NEW y \in Int, NEW z \in Int
  PROVE  /\ Min({x, y, z}) \in {x, y, z}
         /\ Min({x, y, z}) <= x /\ Min({x, y, z}) <= y /\ Min({x, y, z}) <= z
<1> DEFINE S == {x, y, z}
<1>1. \E m \in S : \A n \in S : m =< n
  OBVIOUS
<1>2. Min(S) \in S /\ \A n \in S : Min(S) =< n
  BY <1>1, Zenon DEF Min
<1> QED BY <1>2

LEMMA TimesAreDays ==
  ASSUME CreditsTypeOK, NEW at \in Times
  PROVE  at \in Days
BY DEF Times

\* A new day or month leaves a row of the right shape, and touches no credit.
LEMMA RolledTyped ==
  ASSUME CreditsTypeOK, NEW at \in Days
  PROVE  Rolled(at) \in Credits /\ Rolled(at).paid = acct.paid
<1> DEFINE month == IF MonthOf[acct.day] = MonthOf[at] THEN acct.month_used ELSE 0
           day == IF acct.day = at THEN acct.day_used ELSE 0
<1>1. acct \in Credits
  BY DEF CreditsTypeOK
<1>2. month \in 0..FreeMonth /\ day \in 0..FreeDay
  BY <1>1, CreditsAssumption DEF Credits
<1>3. Rolled(at) = [acct EXCEPT !.month_used = month, !.day_used = day, !.day = at]
  BY DEF Rolled
<1> HIDE DEF month, day
<1> QED BY <1>1, <1>2, <1>3 DEF Credits

\* The free part of a price fits both allowances.
LEMMA FreeShareFits ==
  ASSUME NEW r \in Requests, NEW a \in Credits
  PROVE  /\ FreeShare(r, a) \in 0..Price[r]
         /\ a.month_used + FreeShare(r, a) \in 0..FreeMonth
         /\ a.day_used + FreeShare(r, a) \in 0..FreeDay
<1>1. /\ Price[r] \in Nat \ {0}
      /\ a.month_used \in Nat /\ a.month_used <= FreeMonth
      /\ a.day_used \in Nat /\ a.day_used <= FreeDay
      /\ FreeMonth \in Nat /\ FreeDay \in Nat
  BY CreditsAssumption DEF Credits
<1>2. CASE r \in Jobs
  BY <1>1, <1>2 DEF FreeShare
<1>3. CASE r \notin Jobs
  <2> DEFINE m == Min({Price[r], FreeMonth - a.month_used, FreeDay - a.day_used})
  <2>1. /\ m \in {Price[r], FreeMonth - a.month_used, FreeDay - a.day_used}
        /\ m <= Price[r] /\ m <= FreeMonth - a.month_used /\ m <= FreeDay - a.day_used
    <3>1. Price[r] \in Int /\ FreeMonth - a.month_used \in Int /\ FreeDay - a.day_used \in Int
      BY <1>1
    <3> QED BY <3>1, MinOfThree, Zenon
  <2>2. FreeShare(r, a) = m
    BY <1>3 DEF FreeShare
  <2> HIDE DEF m
  <2> QED BY <1>1, <2>1, <2>2
<1> QED BY <1>2, <1>3

LEMMA InitCreditsTypeOK == CreditsInit => CreditsTypeOK
<1> SUFFICES ASSUME CreditsInit PROVE CreditsTypeOK
  OBVIOUS
<1>1. 0 \in Days
  BY CreditsAssumption DEF Days
<1>2. NoRequest \in Request
  BY <1>1 DEF NoRequest, Request, Statuses
<1>3. acct \in Credits
  BY <1>1, CreditsAssumption DEF CreditsInit, Credits
<1> QED BY <1>1, <1>2, <1>3, CreditsAssumption DEF CreditsInit, CreditsTypeOK

LEMMA ReserveKeepsTypes ==
  ASSUME CreditsTypeOK, NEW at \in Days, NEW r \in Requests, reserve(r, at)
  PROVE  CreditsTypeOK'
<1> DEFINE a == Rolled(at)
           free == FreeShare(r, a)
           rest == Price[r] - free
<1>1. a \in Credits
  BY RolledTyped
<1> HIDE DEF a
<1>2. /\ free \in 0..Price[r]
      /\ a.month_used + free \in 0..FreeMonth
      /\ a.day_used + free \in 0..FreeDay
  BY <1>1, FreeShareFits
<1>3. Price[r] \in Nat
  BY CreditsAssumption
<1> HIDE DEF free
<1>4. /\ a.paid >= rest
      /\ acct' = [a EXCEPT !.paid = @ - rest, !.month_used = @ + free, !.day_used = @ + free]
      /\ requests' = [requests EXCEPT ![r] =
                       [status |-> IF r \in Jobs THEN "queued" ELSE "reserved",
                        free |-> free, paid |-> rest, day |-> at]]
      /\ UNCHANGED <<today, spent, bought>>
  BY DEF reserve, a, free
<1>5. acct' \in Credits
  <2>1. rest \in Nat /\ a.paid \in Nat /\ a.paid - rest \in Nat
    BY <1>1, <1>2, <1>3, <1>4 DEF Credits
  <2> HIDE DEF rest
  <2> QED BY <1>1, <1>2, <1>4, <2>1 DEF Credits
<1>6. [status |-> IF r \in Jobs THEN "queued" ELSE "reserved",
       free |-> free, paid |-> rest, day |-> at] \in Request
  BY <1>2, <1>3 DEF Request, Statuses, Pending
<1> HIDE DEF rest
<1> QED BY <1>4, <1>5, <1>6 DEF CreditsTypeOK

LEMMA RefundKeepsTypes ==
  ASSUME CreditsTypeOK, NEW at \in Days, NEW r \in Requests, refund(r, at)
  PROVE  CreditsTypeOK'
<1>1. Rolled(at) \in Credits
  BY RolledTyped
<1>2. requests[r] \in Request
  BY DEF CreditsTypeOK
<1>3. acct' \in Credits
  <2> DEFINE a == Rolled(at)
             x == requests[r].paid
             m == IF MonthOf[requests[r].day] = MonthOf[at] THEN requests[r].free ELSE 0
             d == IF requests[r].day = at THEN requests[r].free ELSE 0
  <2>1. x \in Nat /\ m \in Nat /\ d \in Nat
    BY <1>2 DEF Request
  <2>2. /\ acct' = [a EXCEPT !.paid = @ + x, !.month_used = @ - m, !.day_used = @ - d]
        /\ AccountOK(acct')
    BY DEF refund, Refunded
  <2> HIDE DEF a, x, m, d
  <2>3. a \in Credits
    BY <1>1 DEF a
  <2>4. /\ a.paid + x \in Nat /\ a.month_used - m \in Int /\ a.day_used - d \in Int
        /\ acct'.month_used = a.month_used - m /\ acct'.day_used = a.day_used - d
    BY <2>1, <2>2, <2>3 DEF Credits
  <2>5. a.month_used - m \in 0..FreeMonth /\ a.day_used - d \in 0..FreeDay
    BY <2>2, <2>4 DEF AccountOK
  <2> QED BY <2>2, <2>3, <2>4, <2>5 DEF Credits
<1>4. [requests[r] EXCEPT !.status = "failed"] \in Request
  BY <1>2 DEF Request, Statuses
<1> QED BY <1>3, <1>4 DEF refund, CreditsTypeOK

LEMMA CreditKeepsTypes ==
  ASSUME CreditsTypeOK, NEW at \in Days, NEW n \in Packs, Credit(n, at)
  PROVE  CreditsTypeOK'
<1>1. Rolled(at) \in Credits
  BY RolledTyped
<1>2. n \in Nat /\ MaxBought \in Nat
  BY CreditsAssumption
<1>3. acct' \in Credits
  BY <1>1, <1>2 DEF Credit, Credits
<1>4. bought' \in 0..MaxBought
  BY <1>2 DEF Credit, CreditsTypeOK
<1> QED BY <1>3, <1>4 DEF Credit, CreditsTypeOK

LEMMA UseKeepsTypes ==
  ASSUME CreditsTypeOK, UseCredits
  PROVE  CreditsTypeOK'
<1>1. CASE Midnight
  BY <1>1, CreditsAssumption DEF Midnight, CreditsTypeOK, Days
<1>2. ASSUME NEW at \in Times, balance(at) PROVE CreditsTypeOK'
  BY <1>2, TimesAreDays, RolledTyped DEF balance, CreditsTypeOK
<1>3. ASSUME NEW at \in Times, NEW r \in Requests, reserve(r, at) PROVE CreditsTypeOK'
  BY <1>3, TimesAreDays, ReserveKeepsTypes
<1>4. ASSUME NEW at \in Times, NEW r \in Requests, complete(r, at) PROVE CreditsTypeOK'
  <2>1. requests[r] \in Request /\ [requests[r] EXCEPT !.status = "complete"] \in Request
    BY DEF CreditsTypeOK, Request, Statuses
  <2> QED BY <1>4, <2>1, TimesAreDays, RolledTyped DEF complete, CreditsTypeOK
<1>5. ASSUME NEW at \in Times, NEW r \in Requests, refund(r, at) PROVE CreditsTypeOK'
  BY <1>5, TimesAreDays, RefundKeepsTypes
<1>6. ASSUME NEW r \in Requests, claim(r) PROVE CreditsTypeOK'
  <2>1. requests[r] \in Request /\ [requests[r] EXCEPT !.status = "running"] \in Request
    BY DEF CreditsTypeOK, Request, Statuses, Pending
  <2> QED BY <1>6, <2>1 DEF claim, CreditsTypeOK
<1>7. ASSUME NEW r \in Requests, forget(r) PROVE CreditsTypeOK'
  <2>1. requests[r] \in Request /\ NoRequest \in Request
    BY CreditsAssumption DEF CreditsTypeOK, Request, NoRequest, Statuses, Days
  <2>2. spent' \in Nat
    BY <1>7, <2>1 DEF forget, CreditsTypeOK, Request
  <2> QED BY <1>7, <2>1, <2>2 DEF forget, CreditsTypeOK
<1> QED BY <1>1, <1>2, <1>3, <1>4, <1>5, <1>6, <1>7 DEF UseCredits

LEMMA CreditsStepTyped ==
  ASSUME CreditsTypeOK, [CreditsNext]_creditsVars
  PROVE  CreditsTypeOK'
<1>1. ASSUME NEW at \in Times, NEW n \in Packs, Credit(n, at) PROVE CreditsTypeOK'
  BY <1>1, TimesAreDays, CreditKeepsTypes
<1>2. CASE UNCHANGED creditsVars
  BY <1>2 DEF creditsVars, CreditsTypeOK
<1> QED BY <1>1, <1>2, UseKeepsTypes DEF CreditsNext

\* The rows of the credits alone, whoever tops them up.
THEOREM CreditsTyped == CreditsSpec => []CreditsTypeOK
BY CreditsStepTyped, InitCreditsTypeOK, PTL DEF CreditsSpec

-----------------------------------------------------------------------------
(***************************************************************************)
(* The sums over an account's requests.                                    *)
(***************************************************************************)
LEMMA SumsTyped ==
  ASSUME CreditsTypeOK
  PROVE  /\ \A r \in Requests : PaidOf[r] \in Nat /\ FreeOf[r] \in Nat
         /\ \A T \in SUBSET Requests :
              /\ IsFiniteSet(T)
              /\ SumFunctionOnSet(PaidOf, T) \in Nat
              /\ SumFunctionOnSet(FreeOf, T) \in Nat
<1>1. \A r \in Requests : PaidOf[r] \in Nat /\ FreeOf[r] \in Nat
  BY DEF PaidOf, FreeOf, CreditsTypeOK, Request
<1>2. ASSUME NEW T \in SUBSET Requests
      PROVE  /\ IsFiniteSet(T)
             /\ SumFunctionOnSet(PaidOf, T) \in Nat /\ SumFunctionOnSet(FreeOf, T) \in Nat
  <2>1. IsFiniteSet(T) /\ (\A r \in T : PaidOf[r] \in Nat) /\ (\A r \in T : FreeOf[r] \in Nat)
    BY <1>1, CreditsAssumption, FS_Subset
  <2> QED BY <2>1, SumNat
<1> QED BY <1>1, <1>2

\* Every transaction writes one request at most.
RowStep(r) ==
  /\ CreditsTypeOK /\ CreditsTypeOK'
  /\ r \in Requests
  /\ \A q \in Requests \ {r} : requests'[q] = requests[q]

LEMMA PaidRowChanges ==
  ASSUME NEW r, RowStep(r)
  PROVE  SumFunctionOnSet(PaidOf, Charged)' =
           SumFunctionOnSet(PaidOf, Charged) - Share(PaidOf, Charged, r)
             + Share(PaidOf', Charged', r)
<1>1. /\ \A q \in Requests : PaidOf[q] \in Nat /\ PaidOf'[q] \in Nat
      /\ \A q \in Requests \ {r} : PaidOf[q] = PaidOf'[q]
  BY DEF RowStep, PaidOf, CreditsTypeOK, Request
<1>2. Charged \subseteq Requests /\ Charged' \subseteq Requests /\ Charged \ {r} = Charged' \ {r}
  BY DEF RowStep, Charged
<1>3. IsFiniteSet(Charged) /\ IsFiniteSet(Charged')
  BY <1>2, CreditsAssumption, FS_Subset
<1>4. /\ \A q \in Charged : PaidOf[q] \in Int
      /\ \A q \in Charged' : PaidOf'[q] \in Int
      /\ \A q \in Charged \ {r} : PaidOf[q] = PaidOf'[q]
  BY <1>1, <1>2
<1> QED BY <1>2, <1>3, <1>4, SumChange

LEMMA FreeRowChanges ==
  ASSUME NEW r, RowStep(r), NEW A \in SUBSET Requests, NEW B \in SUBSET Requests,
         A \ {r} = B \ {r}
  PROVE  SumFunctionOnSet(FreeOf', B) =
           SumFunctionOnSet(FreeOf, A) - Share(FreeOf, A, r) + Share(FreeOf', B, r)
<1>1. /\ \A q \in Requests : FreeOf[q] \in Nat /\ FreeOf'[q] \in Nat
      /\ \A q \in Requests \ {r} : FreeOf[q] = FreeOf'[q]
  BY DEF RowStep, FreeOf, CreditsTypeOK, Request
<1>2. IsFiniteSet(A) /\ IsFiniteSet(B)
  BY CreditsAssumption, FS_Subset
<1>3. /\ \A q \in A : FreeOf[q] \in Int
      /\ \A q \in B : FreeOf'[q] \in Int
      /\ \A q \in A \ {r} : FreeOf[q] = FreeOf'[q]
  BY <1>1
<1> QED BY <1>2, <1>3, SumChange

\* Those of one day, and of one month, are the same but for the written one.
LEMMA ChargedChanges ==
  ASSUME NEW r, RowStep(r)
  PROVE  /\ \A d : ChargedOn(d) \in SUBSET Requests /\ ChargedOn(d)' \in SUBSET Requests
                   /\ ChargedOn(d) \ {r} = ChargedOn(d)' \ {r}
         /\ \A m : ChargedIn(m) \in SUBSET Requests /\ ChargedIn(m)' \in SUBSET Requests
                   /\ ChargedIn(m) \ {r} = ChargedIn(m)' \ {r}
BY DEF RowStep, Charged, ChargedOn, ChargedIn

-----------------------------------------------------------------------------
(***************************************************************************)
(* No credit is lost or made up, however late a transaction's time is.     *)
(***************************************************************************)
ConservedInv == CreditsTypeOK /\ CreditsConserved

\* A request that takes, gives back or spends as much as the account says.
LEMMA RowKeepsConserved ==
  ASSUME ConservedInv, NEW r, RowStep(r), bought' = bought,
         acct'.paid + spent' + Share(PaidOf', Charged', r) =
           acct.paid + spent + Share(PaidOf, Charged, r)
  PROVE  CreditsConserved'
<1> DEFINE s == SumFunctionOnSet(PaidOf, Charged)
           t == SumFunctionOnSet(PaidOf, Charged)'
<1>1. t = s - Share(PaidOf, Charged, r) + Share(PaidOf', Charged', r)
  BY PaidRowChanges
<1>2. /\ s \in Int
      /\ Share(PaidOf, Charged, r) \in Int /\ Share(PaidOf', Charged', r) \in Int
  <2>1. Charged \in SUBSET Requests
    BY DEF Charged
  <2>2. /\ \A q \in Requests : PaidOf[q] \in Nat /\ PaidOf'[q] \in Nat
    BY DEF RowStep, PaidOf, CreditsTypeOK, Request
  <2>3. s \in Int
    BY <2>1, SumsTyped DEF ConservedInv
  <2> HIDE DEF s
  <2> QED BY <2>2, <2>3 DEF Share, RowStep
<1>3. acct.paid \in Int /\ spent \in Int /\ acct'.paid \in Int /\ spent' \in Int
  BY DEF RowStep, CreditsTypeOK, Credits
<1>4. bought = acct.paid + spent + s
  BY DEF ConservedInv, CreditsConserved
<1>5. CreditsConserved' <=> bought' = acct'.paid + spent' + t
  BY DEF CreditsConserved
<1> DEFINE x == Share(PaidOf, Charged, r)
           y == Share(PaidOf', Charged', r)
<1>6. t = s - x + y /\ x \in Int /\ y \in Int /\ s \in Int
  BY <1>1, <1>2
<1>7. acct'.paid + spent' + y = acct.paid + spent + x
  OBVIOUS
<1>8. bought' = bought
  OBVIOUS
<1> HIDE DEF s, t, x, y
<1>9. \A a, b, c, d \in Int : b + d + y = a + c + x => a + c + s = b + d + (s - x + y)
  BY <1>6
<1>10. acct.paid + spent + s = acct'.paid + spent' + (s - x + y)
  BY <1>3, <1>7, <1>9
<1>11. bought' = acct'.paid + spent' + t
  BY <1>4, <1>6, <1>8, <1>10, Zenon
<1> QED BY <1>5, <1>11

\* Only the account changes.
LEMMA AccountKeepsConserved ==
  ASSUME ConservedInv, CreditsTypeOK', requests' = requests, spent' = spent,
         bought' - bought = acct'.paid - acct.paid
  PROVE  CreditsConserved'
<1> DEFINE s == SumFunctionOnSet(PaidOf, Charged)
<1>1. PaidOf' = PaidOf /\ Charged' = Charged
  BY DEF PaidOf, Charged
<1>2. SumFunctionOnSet(PaidOf, Charged)' = s
  BY <1>1, Zenon
<1>3. s \in Int
  BY SumsTyped DEF ConservedInv, Charged
<1>4. bought = acct.paid + spent + s
  BY DEF ConservedInv, CreditsConserved
<1>5. CreditsConserved' <=> bought' = acct'.paid + spent' + s
  BY <1>2 DEF CreditsConserved
<1>6. /\ acct.paid \in Int /\ spent \in Int /\ acct'.paid \in Int /\ bought' \in Int /\ bought \in Int
  BY CreditsAssumption DEF ConservedInv, CreditsTypeOK, Credits
<1> HIDE DEF s
<1> QED BY <1>3, <1>4, <1>5, <1>6

\* What a request holds, before and after the transaction that writes it.
LEMMA RowShares ==
  ASSUME NEW r, RowStep(r)
  PROVE  /\ Share(PaidOf, Charged, r) =
              IF requests[r].status \in Pending \cup {"complete"} THEN requests[r].paid ELSE 0
         /\ Share(PaidOf', Charged', r) =
              IF requests'[r].status \in Pending \cup {"complete"} THEN requests'[r].paid ELSE 0
BY DEF Share, PaidOf, Charged, RowStep

LEMMA UseKeepsConserved ==
  ASSUME ConservedInv, UseCredits
  PROVE  CreditsConserved'
<1>1. CreditsTypeOK /\ CreditsTypeOK'
  BY UseKeepsTypes DEF ConservedInv
<1>2. ASSUME NEW r \in Requests, NEW row, requests' = [requests EXCEPT ![r] = row]
      PROVE  /\ RowStep(r) /\ requests'[r] = row
             /\ requests[r] \in Request /\ row \in Request
  BY <1>1, <1>2 DEF RowStep, CreditsTypeOK
<1>3. \A at \in Times : at \in Days /\ Rolled(at) \in Credits /\ Rolled(at).paid = acct.paid
  BY <1>1, TimesAreDays, RolledTyped
<1>4. acct.paid \in Nat /\ spent \in Nat /\ acct \in Credits
  BY <1>1 DEF CreditsTypeOK, Credits
<1>5. CASE Midnight
  BY <1>1, <1>4, <1>5, AccountKeepsConserved DEF Midnight, ConservedInv, CreditsTypeOK
<1>6. ASSUME NEW at \in Times, balance(at) PROVE CreditsConserved'
  BY <1>1, <1>3, <1>4, <1>6, AccountKeepsConserved DEF balance, CreditsTypeOK
<1>7. ASSUME NEW at \in Times, NEW r \in Requests, reserve(r, at) PROVE CreditsConserved'
  <2> DEFINE a == Rolled(at)
             free == FreeShare(r, a)
             p == Price[r] - free
             row == [status |-> IF r \in Jobs THEN "queued" ELSE "reserved",
                     free |-> free, paid |-> p, day |-> at]
  <2>1. /\ acct' = [a EXCEPT !.paid = @ - p, !.month_used = @ + free, !.day_used = @ + free]
        /\ requests' = [requests EXCEPT ![r] = row]
        /\ requests[r].status = "none" /\ UNCHANGED <<today, spent, bought>>
    BY <1>7 DEF reserve
  <2>2. RowStep(r) /\ requests'[r] = row /\ row \in Request
    BY <1>2, <2>1
  <2>3. row.status \in Pending /\ row.paid = p
    BY DEF Pending
  <2>4. p \in Nat
    BY <2>2, <2>3 DEF Request
  <2> HIDE DEF row, free, p, a
  <2>5. a \in Credits /\ a.paid = acct.paid
    BY <1>3 DEF a
  <2>6. acct'.paid = acct.paid - p
    BY <2>1, <2>5 DEF Credits
  <2>7. Share(PaidOf, Charged, r) = 0 /\ Share(PaidOf', Charged', r) = p
    BY <2>1, <2>2, <2>3, RowShares DEF Pending
  <2>8. acct'.paid + spent' + Share(PaidOf', Charged', r) = acct.paid + spent + Share(PaidOf, Charged, r)
    BY <1>4, <2>1, <2>4, <2>6, <2>7
  <2> QED BY <2>1, <2>2, <2>8, RowKeepsConserved
<1>8. ASSUME NEW at \in Times, NEW r \in Requests, complete(r, at) PROVE CreditsConserved'
  <2> DEFINE row == [requests[r] EXCEPT !.status = "complete"]
  <2>1. /\ requests' = [requests EXCEPT ![r] = row] /\ requests[r].status \in Pending
        /\ acct'.paid = acct.paid /\ spent' = spent /\ bought' = bought
    BY <1>3, <1>8 DEF complete
  <2>2. RowStep(r) /\ requests'[r] = row /\ requests[r] \in Request
    BY <1>2, <2>1
  <2>3. row.status = "complete" /\ row.paid = requests[r].paid
    BY <2>2 DEF Request
  <2>4. Share(PaidOf', Charged', r) = Share(PaidOf, Charged, r)
    BY <2>1, <2>2, <2>3, RowShares
  <2> QED BY <2>1, <2>2, <2>4, RowKeepsConserved
<1>9. ASSUME NEW at \in Times, NEW r \in Requests, refund(r, at) PROVE CreditsConserved'
  <2> DEFINE row == [requests[r] EXCEPT !.status = "failed"]
  <2>1. /\ requests' = [requests EXCEPT ![r] = row] /\ requests[r].status \in Pending
        /\ acct' = Refunded(r, at) /\ spent' = spent /\ bought' = bought
    BY <1>9 DEF refund
  <2>2. RowStep(r) /\ requests'[r] = row /\ requests[r] \in Request
    BY <1>2, <2>1
  <2>3. row.status = "failed" /\ requests[r].paid \in Nat
    BY <2>2 DEF Request
  <2>4. acct'.paid = acct.paid + requests[r].paid
    BY <1>3, <2>1 DEF Refunded, Credits
  <2>5. Share(PaidOf, Charged, r) = requests[r].paid /\ Share(PaidOf', Charged', r) = 0
    BY <2>1, <2>2, <2>3, RowShares DEF Pending
  <2>6. acct'.paid + spent' + Share(PaidOf', Charged', r) = acct.paid + spent + Share(PaidOf, Charged, r)
    BY <1>4, <2>1, <2>3, <2>4, <2>5
  <2> QED BY <2>1, <2>2, <2>6, RowKeepsConserved
<1>10. ASSUME NEW r \in Requests, claim(r) PROVE CreditsConserved'
  <2> DEFINE row == [requests[r] EXCEPT !.status = "running"]
  <2>1. /\ requests' = [requests EXCEPT ![r] = row] /\ requests[r].status = "queued"
        /\ acct' = acct /\ spent' = spent /\ bought' = bought
    BY <1>10 DEF claim
  <2>2. RowStep(r) /\ requests'[r] = row /\ requests[r] \in Request
    BY <1>2, <2>1
  <2>3. row.status = "running" /\ row.paid = requests[r].paid
    BY <2>2 DEF Request
  <2>4. Share(PaidOf', Charged', r) = Share(PaidOf, Charged, r)
    BY <2>1, <2>2, <2>3, RowShares DEF Pending
  <2> QED BY <2>1, <2>2, <2>4, RowKeepsConserved
<1>11. ASSUME NEW r \in Requests, forget(r) PROVE CreditsConserved'
  <2>1. /\ requests' = [requests EXCEPT ![r] = NoRequest]
        /\ requests[r].status \in {"complete", "failed"}
        /\ acct' = acct /\ bought' = bought
        /\ spent' = spent + IF requests[r].status = "complete" THEN requests[r].paid ELSE 0
    BY <1>11 DEF forget
  <2>2. RowStep(r) /\ requests'[r] = NoRequest /\ requests[r] \in Request
    BY <1>2, <2>1, Zenon
  <2>3. /\ Share(PaidOf, Charged, r) = IF requests[r].status = "complete" THEN requests[r].paid ELSE 0
        /\ Share(PaidOf', Charged', r) = 0
    BY <2>1, <2>2, RowShares DEF Pending, NoRequest
  <2>4. requests[r].paid \in Nat
    BY <2>2 DEF Request
  <2>5. acct'.paid + spent' + Share(PaidOf', Charged', r) = acct.paid + spent + Share(PaidOf, Charged, r)
    BY <1>4, <2>1, <2>3, <2>4
  <2> QED BY <2>1, <2>2, <2>5, RowKeepsConserved
<1> QED BY <1>5, <1>6, <1>7, <1>8, <1>9, <1>10, <1>11 DEF UseCredits

LEMMA CreditKeepsConserved ==
  ASSUME ConservedInv, NEW at \in Times, NEW n \in Packs, Credit(n, at)
  PROVE  CreditsConserved'
<1>1. at \in Days /\ CreditsTypeOK /\ CreditsTypeOK'
  BY TimesAreDays, CreditKeepsTypes DEF ConservedInv
<1>2. Rolled(at) \in Credits /\ Rolled(at).paid = acct.paid
  BY <1>1, RolledTyped
<1>3. n \in Nat /\ acct.paid \in Nat /\ bought \in Nat
  BY <1>1, CreditsAssumption DEF CreditsTypeOK, Credits
<1>4. /\ acct'.paid = acct.paid + n /\ bought' = bought + n
      /\ requests' = requests /\ spent' = spent
  BY <1>2 DEF Credit, Credits
<1>5. bought' - bought = acct'.paid - acct.paid
  BY <1>3, <1>4
<1> QED BY <1>1, <1>4, <1>5, AccountKeepsConserved

\* No credit is lost or made up: what was bought is what is left, what pending and
\* completed requests hold, and what forgotten ones have spent.
THEOREM CreditsConservedHolds == CreditsSpec => []CreditsConserved
<1>1. CreditsInit => ConservedInv
  <2> SUFFICES ASSUME CreditsInit PROVE ConservedInv
    OBVIOUS
  <2>1. Charged = {} /\ bought = 0 /\ spent = 0 /\ acct.paid = 0
    BY DEF CreditsInit, Charged, NoRequest, Pending
  <2>2. SumFunctionOnSet(PaidOf, Charged) = 0
    BY <2>1, SumEmpty
  <2> QED BY <2>1, <2>2, InitCreditsTypeOK DEF ConservedInv, CreditsConserved
<1>2. ConservedInv /\ [CreditsNext]_creditsVars => ConservedInv'
  <2> SUFFICES ASSUME ConservedInv, [CreditsNext]_creditsVars PROVE ConservedInv'
    OBVIOUS
  <2>1. CreditsTypeOK'
    BY CreditsStepTyped DEF ConservedInv
  <2>2. CASE UNCHANGED creditsVars
    <3>1. bought' - bought = acct'.paid - acct.paid
      BY <2>2 DEF creditsVars, ConservedInv, CreditsTypeOK, Credits
    <3> QED BY <2>1, <2>2, <3>1, AccountKeepsConserved DEF creditsVars, ConservedInv
  <2>3. CASE UseCredits
    BY <2>1, <2>3, UseKeepsConserved DEF ConservedInv
  <2>4. ASSUME NEW at \in Times, NEW n \in Packs, Credit(n, at) PROVE ConservedInv'
    BY <2>1, <2>4, CreditKeepsConserved DEF ConservedInv
  <2> QED BY <2>2, <2>3, <2>4 DEF CreditsNext
<1>3. ConservedInv => CreditsConserved
  BY DEF ConservedInv
<1> QED BY <1>1, <1>2, <1>3, PTL DEF CreditsSpec

-----------------------------------------------------------------------------
(***************************************************************************)
(* The free allowances, for transactions that use the time it is.          *)
(***************************************************************************)
\* What a charged request holds of a day's, or a month's, allowance.
FreeAt(row, counts) == IF row.status \in Pending \cup {"complete"} /\ counts THEN row.free ELSE 0

LEMMA DaySumChanges ==
  ASSUME NEW r, RowStep(r), NEW d
  PROVE  /\ SumFunctionOnSet(FreeOf', ChargedOn(d)') =
              SumFunctionOnSet(FreeOf, ChargedOn(d)) - FreeAt(requests[r], requests[r].day = d)
                + FreeAt(requests'[r], requests'[r].day = d)
         /\ SumFunctionOnSet(FreeOf, ChargedOn(d)) \in Nat
         /\ FreeAt(requests[r], requests[r].day = d) <= SumFunctionOnSet(FreeOf, ChargedOn(d))
<1>1. /\ ChargedOn(d) \in SUBSET Requests /\ ChargedOn(d)' \in SUBSET Requests
      /\ ChargedOn(d) \ {r} = ChargedOn(d)' \ {r}
  BY ChargedChanges
<1>2. /\ Share(FreeOf, ChargedOn(d), r) = FreeAt(requests[r], requests[r].day = d)
      /\ Share(FreeOf', ChargedOn(d)', r) = FreeAt(requests'[r], requests'[r].day = d)
  BY DEF Share, FreeOf, ChargedOn, Charged, RowStep, FreeAt
<1>3. /\ IsFiniteSet(ChargedOn(d)) /\ \A q \in ChargedOn(d) : FreeOf[q] \in Nat
      /\ SumFunctionOnSet(FreeOf, ChargedOn(d)) \in Nat
  BY <1>1, SumsTyped DEF RowStep
<1>4. FreeAt(requests[r], requests[r].day = d) <= SumFunctionOnSet(FreeOf, ChargedOn(d))
  BY <1>2, <1>3, ShareWithin
<1> QED BY <1>1, <1>2, <1>3, <1>4, FreeRowChanges

LEMMA MonthSumChanges ==
  ASSUME NEW r, RowStep(r), NEW m
  PROVE  /\ SumFunctionOnSet(FreeOf', ChargedIn(m)') =
              SumFunctionOnSet(FreeOf, ChargedIn(m))
                - FreeAt(requests[r], MonthOf[requests[r].day] = m)
                + FreeAt(requests'[r], MonthOf[requests'[r].day] = m)
         /\ SumFunctionOnSet(FreeOf, ChargedIn(m)) \in Nat
         /\ FreeAt(requests[r], MonthOf[requests[r].day] = m) <= SumFunctionOnSet(FreeOf, ChargedIn(m))
<1>1. /\ ChargedIn(m) \in SUBSET Requests /\ ChargedIn(m)' \in SUBSET Requests
      /\ ChargedIn(m) \ {r} = ChargedIn(m)' \ {r}
  BY ChargedChanges
<1>2. /\ Share(FreeOf, ChargedIn(m), r) = FreeAt(requests[r], MonthOf[requests[r].day] = m)
      /\ Share(FreeOf', ChargedIn(m)', r) = FreeAt(requests'[r], MonthOf[requests'[r].day] = m)
  BY DEF Share, FreeOf, ChargedIn, Charged, RowStep, FreeAt
<1>3. /\ IsFiniteSet(ChargedIn(m)) /\ \A q \in ChargedIn(m) : FreeOf[q] \in Nat
      /\ SumFunctionOnSet(FreeOf, ChargedIn(m)) \in Nat
  BY <1>1, SumsTyped DEF RowStep
<1>4. FreeAt(requests[r], MonthOf[requests[r].day] = m) <= SumFunctionOnSet(FreeOf, ChargedIn(m))
  BY <1>2, <1>3, ShareWithin
<1> QED BY <1>1, <1>2, <1>3, <1>4, FreeRowChanges

LEMMA NowOnly ==
  ASSUME Late = 0, CreditsTypeOK
  PROVE  /\ today \in Days /\ acct.day \in Days /\ acct \in Credits
         /\ \A at \in Times : at = today
         /\ \A r \in Requests : requests[r] \in Request /\ requests[r].day \in Days
         /\ Days \subseteq Nat /\ \A d \in Days : MonthOf[d] \in Nat
<1>1. Days \subseteq Nat /\ \A d \in Days : MonthOf[d] \in Nat
  BY CreditsAssumption DEF Days
<1>2. today \in Nat
  BY <1>1 DEF CreditsTypeOK
<1>3. \A at \in Times : at = today
  BY <1>1, <1>2 DEF Times
<1> QED BY <1>1, <1>3 DEF CreditsTypeOK, Credits, Request

\* A transaction finds the day's counter exact and the month's sufficient.
LEMMA RolledCounts ==
  ASSUME Late = 0, FreeInv
  PROVE  /\ Rolled(today).day = today
         /\ Rolled(today).day_used = SumFunctionOnSet(FreeOf, ChargedOn(today))
         /\ Rolled(today).month_used >= SumFunctionOnSet(FreeOf, ChargedIn(MonthOf[today]))
<1>1. /\ acct \in Credits /\ today \in Days /\ acct.day \in Days /\ acct.day <= today
      /\ Days \subseteq Nat
      /\ \A r \in Requests : requests[r].day \in Days /\ requests[r].day <= acct.day
  BY NowOnly DEF FreeInv, NoneAhead
<1>2. /\ Rolled(today).day = today
      /\ Rolled(today).day_used = IF acct.day = today THEN acct.day_used ELSE 0
      /\ Rolled(today).month_used = IF MonthOf[acct.day] = MonthOf[today] THEN acct.month_used ELSE 0
  BY <1>1 DEF Rolled, Credits
<1>3. Rolled(today).day_used = SumFunctionOnSet(FreeOf, ChargedOn(today))
  <2>1. CASE acct.day = today
    BY <1>2, <2>1 DEF FreeInv, FreeUseExact
  <2>2. CASE acct.day # today
    <3>1. \A r \in Requests : requests[r].day # today
      BY <1>1, <2>2
    <3>2. ChargedOn(today) = {}
      BY <3>1 DEF ChargedOn, Charged
    <3> QED BY <1>2, <2>2, <3>2, SumEmpty
  <2> QED BY <2>1, <2>2
<1>4. Rolled(today).month_used >= SumFunctionOnSet(FreeOf, ChargedIn(MonthOf[today]))
  <2>1. CASE MonthOf[acct.day] = MonthOf[today]
    BY <1>2, <2>1 DEF FreeInv, MonthCoversCharges
  <2>2. CASE MonthOf[acct.day] # MonthOf[today]
    <3>1. ASSUME NEW r \in Requests PROVE MonthOf[requests[r].day] # MonthOf[today]
      <4>1. MonthOf[requests[r].day] <= MonthOf[acct.day] /\ MonthOf[acct.day] <= MonthOf[today]
        BY <1>1, CreditsAssumption
      <4>2. MonthOf[requests[r].day] \in Nat /\ MonthOf[acct.day] \in Nat /\ MonthOf[today] \in Nat
        BY <1>1, CreditsAssumption
      <4> QED BY <2>2, <4>1, <4>2
    <3>2. ChargedIn(MonthOf[today]) = {}
      BY <3>1 DEF ChargedIn, Charged
    <3>3. SumFunctionOnSet(FreeOf, ChargedIn(MonthOf[today])) = 0
      BY <3>2, SumEmpty
    <3> QED BY <1>2, <2>2, <3>3
  <2> QED BY <2>1, <2>2
<1> QED BY <1>2, <1>3, <1>4

\* A transaction changes the counters as it changes its request.
LEMMA TransactionKeepsFree ==
  ASSUME Late = 0, FreeInv, NEW r, RowStep(r), today' = today,
         acct'.day = today, requests'[r].day <= today,
         NEW d1, NEW d2, NEW m1, NEW m2,
         d1 = FreeAt(requests[r], requests[r].day = today),
         d2 = FreeAt(requests'[r], requests'[r].day = today),
         m1 = FreeAt(requests[r], MonthOf[requests[r].day] = MonthOf[today]),
         m2 = FreeAt(requests'[r], MonthOf[requests'[r].day] = MonthOf[today]),
         acct'.day_used = Rolled(today).day_used - d1 + d2,
         acct'.month_used = Rolled(today).month_used - m1 + m2
  PROVE  FreeInv'
<1>1. PICK t, m : t = today /\ m = MonthOf[today]
  OBVIOUS
<1>2. /\ CreditsTypeOK /\ CreditsTypeOK' /\ r \in Requests
      /\ \A q \in Requests \ {r} : requests'[q] = requests[q]
  BY DEF RowStep
<1>3. /\ ChargedOn(acct.day)' = ChargedOn(t)'
      /\ ChargedIn(MonthOf[acct.day])' = ChargedIn(m)'
  BY <1>1 DEF ChargedOn, ChargedIn
<1> DEFINE D == SumFunctionOnSet(FreeOf, ChargedOn(t))
           E == SumFunctionOnSet(FreeOf', ChargedOn(t)')
           M == SumFunctionOnSet(FreeOf, ChargedIn(m))
           N == SumFunctionOnSet(FreeOf', ChargedIn(m)')
           a == Rolled(today).month_used
<1>4. E = D - d1 + d2
  BY <1>1, DaySumChanges
<1>5. N = M - m1 + m2
  BY <1>1, MonthSumChanges
<1>6. acct'.day_used = D - d1 + d2 /\ a >= M
  BY <1>1, RolledCounts
<1>7. M \in Int /\ a \in Int /\ m1 \in Int /\ m2 \in Int
  <2>1. M \in Nat
    BY MonthSumChanges
  <2>2. a \in Nat
    BY <1>2, NowOnly, RolledTyped DEF Credits
  <2>3. requests[r].free \in Nat /\ requests'[r].free \in Nat
    BY <1>2 DEF CreditsTypeOK, Request
  <2>4. m1 \in Nat /\ m2 \in Nat
    BY <2>3 DEF FreeAt
  <2> HIDE DEF M, a
  <2> QED BY <2>1, <2>2, <2>4
<1>8. acct'.day_used = E /\ acct'.month_used >= N
  <2>1. acct'.month_used = a - m1 + m2
    OBVIOUS
  <2> HIDE DEF D, E, M, N, a
  <2> QED BY <1>4, <1>5, <1>6, <1>7, <2>1
<1>9. FreeUseExact' /\ MonthCoversCharges'
  BY <1>3, <1>8 DEF FreeUseExact, MonthCoversCharges
<1>10. NoneAhead'
  <2>1. /\ today \in Nat /\ acct.day \in Nat /\ acct.day <= today
        /\ \A q \in Requests : requests[q].day \in Nat /\ requests[q].day <= acct.day
    BY <1>2, NowOnly DEF FreeInv, NoneAhead
  <2>2. \A q \in Requests : requests'[q].day <= today
    BY <1>2, <2>1
  <2> QED BY <2>1, <2>2 DEF NoneAhead
<1> QED BY <1>2, <1>9, <1>10 DEF FreeInv

\* A transaction that leaves the requests alone.
LEMMA ReadKeepsFree ==
  ASSUME Late = 0, FreeInv, CreditsTypeOK', today' = today, requests' = requests,
         acct'.day = today, acct'.day_used = Rolled(today).day_used,
         acct'.month_used = Rolled(today).month_used
  PROVE  FreeInv'
<1>1. /\ FreeOf' = FreeOf
      /\ ChargedOn(acct.day)' = ChargedOn(today)
      /\ ChargedIn(MonthOf[acct.day])' = ChargedIn(MonthOf[today])
  BY DEF FreeOf, Charged, ChargedOn, ChargedIn
<1>2. FreeUseExact' /\ MonthCoversCharges'
  <2>1. /\ SumFunctionOnSet(FreeOf, ChargedOn(acct.day))' = SumFunctionOnSet(FreeOf, ChargedOn(today))
        /\ SumFunctionOnSet(FreeOf, ChargedIn(MonthOf[acct.day]))' =
              SumFunctionOnSet(FreeOf, ChargedIn(MonthOf[today]))
    BY <1>1, Zenon
  <2> QED BY <2>1, RolledCounts DEF FreeUseExact, MonthCoversCharges
<1>3. NoneAhead'
  BY NowOnly DEF FreeInv, NoneAhead
<1> QED BY <1>2, <1>3 DEF FreeInv

\* The worker's steps leave the account alone, and take no free credits.
LEMMA RowKeepsFree ==
  ASSUME FreeInv, NEW r, RowStep(r), today' = today, acct' = acct,
         requests'[r].day <= acct.day,
         acct.day = today => FreeAt(requests'[r], requests'[r].day = acct.day) =
                               FreeAt(requests[r], requests[r].day = acct.day),
         FreeAt(requests'[r], MonthOf[requests'[r].day] = MonthOf[acct.day]) <=
           FreeAt(requests[r], MonthOf[requests[r].day] = MonthOf[acct.day])
  PROVE  FreeInv'
<1>1. PICK t, m : t = acct.day /\ m = MonthOf[acct.day]
  OBVIOUS
<1>2. /\ CreditsTypeOK /\ CreditsTypeOK' /\ r \in Requests
      /\ \A q \in Requests \ {r} : requests'[q] = requests[q]
  BY DEF RowStep
<1>3. ChargedOn(acct.day)' = ChargedOn(t)' /\ ChargedIn(MonthOf[acct.day])' = ChargedIn(m)'
  BY <1>1 DEF ChargedOn, ChargedIn
<1> DEFINE D == SumFunctionOnSet(FreeOf, ChargedOn(t))
           E == SumFunctionOnSet(FreeOf', ChargedOn(t)')
           M == SumFunctionOnSet(FreeOf, ChargedIn(m))
           N == SumFunctionOnSet(FreeOf', ChargedIn(m)')
           d1 == FreeAt(requests[r], requests[r].day = t)
           d2 == FreeAt(requests'[r], requests'[r].day = t)
           m1 == FreeAt(requests[r], MonthOf[requests[r].day] = m)
           m2 == FreeAt(requests'[r], MonthOf[requests'[r].day] = m)
<1>4. E = D - d1 + d2 /\ N = M - m1 + m2 /\ D \in Nat /\ M \in Nat
  <2>1. E = D - d1 + d2 /\ D \in Nat
    BY DaySumChanges
  <2>2. N = M - m1 + m2 /\ M \in Nat
    BY MonthSumChanges
  <2> QED BY <2>1, <2>2
<1>5. d1 \in Nat /\ d2 \in Nat /\ m1 \in Nat /\ m2 \in Nat
  <2>1. requests[r].free \in Nat /\ requests'[r].free \in Nat
    BY <1>2 DEF CreditsTypeOK, Request
  <2> QED BY <2>1 DEF FreeAt
<1>6. acct.day = today => d2 = d1
  BY <1>1
<1>7. m2 <= m1
  BY <1>1
<1>8. FreeUseExact'
  <2>1. SumFunctionOnSet(FreeOf, ChargedOn(acct.day)) = D
    BY <1>1
  <2>2. SumFunctionOnSet(FreeOf, ChargedOn(acct.day))' = E
    BY <1>3
  <2>3. acct.day = today => E = D
    <3> HIDE DEF D, E, d1, d2
    <3> QED BY <1>4, <1>5, <1>6
  <2> HIDE DEF D, E
  <2> QED BY <2>1, <2>2, <2>3 DEF FreeInv, FreeUseExact
<1>9. MonthCoversCharges'
  <2>1. SumFunctionOnSet(FreeOf, ChargedIn(MonthOf[acct.day])) = M
    BY <1>1
  <2>2. SumFunctionOnSet(FreeOf, ChargedIn(MonthOf[acct.day]))' = N
    BY <1>3
  <2>3. acct.month_used >= M /\ acct.month_used \in Nat
    BY <1>2, <2>1 DEF FreeInv, MonthCoversCharges, CreditsTypeOK, Credits
  <2>4. acct.month_used >= N
    <3> HIDE DEF M, N, m1, m2
    <3> QED BY <1>4, <1>5, <1>7, <2>3
  <2> HIDE DEF M, N
  <2> QED BY <2>2, <2>4 DEF MonthCoversCharges
<1>10. NoneAhead'
  <2>1. \A q \in Requests : requests'[q].day <= acct.day
    BY <1>2 DEF FreeInv, NoneAhead
  <2> QED BY <2>1 DEF FreeInv, NoneAhead
<1> QED BY <1>2, <1>8, <1>9, <1>10 DEF FreeInv

\* One step for each transaction.
LEMMA ReserveKeepsFree ==
  ASSUME Late = 0, FreeInv, NEW r \in Requests, reserve(r, today), today \in Days
  PROVE  FreeInv'
<1> DEFINE a == Rolled(today)
           free == FreeShare(r, a)
           p == Price[r] - free
           row == [status |-> IF r \in Jobs THEN "queued" ELSE "reserved",
                   free |-> free, paid |-> p, day |-> today]
<1>1. CreditsTypeOK /\ CreditsTypeOK'
  BY ReserveKeepsTypes DEF FreeInv
<1>2. /\ acct' = [a EXCEPT !.paid = @ - p, !.month_used = @ + free, !.day_used = @ + free]
      /\ requests' = [requests EXCEPT ![r] = row]
      /\ requests[r].status = "none" /\ today' = today
  BY DEF reserve
<1>3. RowStep(r) /\ requests'[r] = row /\ row \in Request
  BY <1>1, <1>2 DEF RowStep, CreditsTypeOK
<1>4. row.status \in Pending /\ row.free = free /\ row.day = today
  BY DEF Pending
<1>5. free \in Nat
  BY <1>3, <1>4 DEF Request
<1>6. a \in Credits /\ a.day = today
  BY <1>1, RolledTyped, RolledCounts
<1> HIDE DEF row, p, free, a
<1>7. /\ acct'.day_used = a.day_used + free /\ acct'.month_used = a.month_used + free
      /\ acct'.day = today
  BY <1>2, <1>6 DEF Credits
<1>8. /\ FreeAt(requests[r], requests[r].day = today) = 0
      /\ FreeAt(requests[r], MonthOf[requests[r].day] = MonthOf[today]) = 0
      /\ FreeAt(requests'[r], requests'[r].day = today) = free
      /\ FreeAt(requests'[r], MonthOf[requests'[r].day] = MonthOf[today]) = free
  BY <1>2, <1>3, <1>4 DEF FreeAt, Pending
<1>9. acct'.day_used = a.day_used - 0 + free /\ acct'.month_used = a.month_used - 0 + free
  BY <1>5, <1>6, <1>7 DEF Credits
<1>10. requests'[r].day <= today
  BY <1>1, <1>3, <1>4, NowOnly
<1> HIDE DEF Rolled
<1> QED BY <1>2, <1>3, <1>7, <1>8, <1>9, <1>10, TransactionKeepsFree DEF a

LEMMA CompleteKeepsFree ==
  ASSUME Late = 0, FreeInv, NEW r \in Requests, complete(r, today), CreditsTypeOK'
  PROVE  FreeInv'
<1> DEFINE a == Rolled(today)
           row == [requests[r] EXCEPT !.status = "complete"]
           d == FreeAt(requests[r], requests[r].day = today)
           m == FreeAt(requests[r], MonthOf[requests[r].day] = MonthOf[today])
<1>1. /\ acct' = a /\ requests' = [requests EXCEPT ![r] = row]
      /\ requests[r].status \in Pending /\ today' = today
  BY DEF complete
<1>2. RowStep(r) /\ requests'[r] = row /\ requests[r] \in Request
  BY <1>1 DEF RowStep, FreeInv, CreditsTypeOK
<1>3. row.status = "complete" /\ row.free = requests[r].free /\ row.day = requests[r].day
  BY <1>2 DEF Request
<1>4. /\ FreeAt(requests'[r], requests'[r].day = today) = d
      /\ FreeAt(requests'[r], MonthOf[requests'[r].day] = MonthOf[today]) = m
      /\ d \in Nat /\ m \in Nat
  BY <1>1, <1>2, <1>3 DEF FreeAt, Request
<1>5. a \in Credits /\ a.day = today
  BY RolledTyped, RolledCounts DEF FreeInv, CreditsTypeOK
<1> HIDE DEF a, d, m, row
<1>6. acct'.day_used = a.day_used - d + d /\ acct'.month_used = a.month_used - m + m
  BY <1>1, <1>4, <1>5 DEF Credits
<1>7. requests'[r].day <= today
  BY <1>2, <1>3, NowOnly DEF FreeInv, NoneAhead
<1> QED BY <1>1, <1>2, <1>4, <1>5, <1>6, <1>7, TransactionKeepsFree DEF a, d, m

LEMMA RefundKeepsFree ==
  ASSUME Late = 0, FreeInv, NEW r \in Requests, refund(r, today), CreditsTypeOK'
  PROVE  FreeInv'
<1> DEFINE a == Rolled(today)
           row == [requests[r] EXCEPT !.status = "failed"]
           d == FreeAt(requests[r], requests[r].day = today)
           m == FreeAt(requests[r], MonthOf[requests[r].day] = MonthOf[today])
           p == requests[r].paid
<1>1. /\ requests' = [requests EXCEPT ![r] = row]
      /\ requests[r].status \in Pending /\ today' = today
  BY DEF refund
<1>2. RowStep(r) /\ requests'[r] = row /\ requests[r] \in Request
  BY <1>1 DEF RowStep, FreeInv, CreditsTypeOK
<1>3. row.status = "failed" /\ row.day = requests[r].day
  BY <1>2 DEF Request
<1>4. /\ FreeAt(requests'[r], requests'[r].day = today) = 0
      /\ FreeAt(requests'[r], MonthOf[requests'[r].day] = MonthOf[today]) = 0
      /\ d \in Nat /\ m \in Nat
  BY <1>1, <1>2, <1>3 DEF FreeAt, Request, Pending
<1>5. a \in Credits /\ a.day = today
  BY RolledTyped, RolledCounts DEF FreeInv, CreditsTypeOK
<1>6. acct' = [a EXCEPT !.paid = @ + p, !.month_used = @ - m, !.day_used = @ - d]
  <2>1. /\ d = IF requests[r].day = today THEN requests[r].free ELSE 0
        /\ m = IF MonthOf[requests[r].day] = MonthOf[today] THEN requests[r].free ELSE 0
    BY <1>1 DEF FreeAt
  <2>2. acct' = [a EXCEPT !.paid = @ + p,
                   !.month_used = @ - IF MonthOf[requests[r].day] = MonthOf[today]
                                      THEN requests[r].free ELSE 0,
                   !.day_used = @ - IF requests[r].day = today THEN requests[r].free ELSE 0]
    BY DEF refund, Refunded
  <2> HIDE DEF a, d, m
  <2> QED BY <2>1, <2>2, Zenon
<1> HIDE DEF a, d, m, row, p
<1>7. acct'.day_used = a.day_used - d + 0 /\ acct'.month_used = a.month_used - m + 0 /\ acct'.day = today
  BY <1>4, <1>5, <1>6 DEF Credits
<1>8. requests'[r].day <= today
  BY <1>2, <1>3, NowOnly DEF FreeInv, NoneAhead
<1> QED BY <1>1, <1>2, <1>4, <1>5, <1>7, <1>8, TransactionKeepsFree DEF a, d, m

LEMMA UseKeepsFree ==
  ASSUME Late = 0, FreeInv, UseCredits
  PROVE  FreeInv'
<1>1. CreditsTypeOK /\ CreditsTypeOK'
  BY UseKeepsTypes DEF FreeInv
<1>2. /\ today \in Days /\ acct.day \in Days /\ \A at \in Times : at = today
      /\ today \in Nat /\ acct.day \in Nat
  BY <1>1, NowOnly
<1>3. CASE Midnight
  <2>1. today' = today + 1 /\ acct' = acct /\ requests' = requests
    BY <1>3 DEF Midnight
  <2>2. acct.day <= today /\ acct.day # today + 1 /\ acct.day <= today + 1
    <3>1. acct.day <= today
      BY DEF FreeInv, NoneAhead
    <3> QED BY <1>2, <3>1
  <2>3. NoneAhead' /\ FreeUseExact'
    BY <2>1, <2>2 DEF FreeInv, NoneAhead, FreeUseExact
  <2>4. FreeOf' = FreeOf /\ ChargedIn(MonthOf[acct.day])' = ChargedIn(MonthOf[acct.day])
    BY <2>1 DEF FreeOf, ChargedIn, Charged
  <2>5. SumFunctionOnSet(FreeOf, ChargedIn(MonthOf[acct.day]))' =
          SumFunctionOnSet(FreeOf, ChargedIn(MonthOf[acct.day]))
    BY <2>4, Zenon
  <2>6. MonthCoversCharges'
    BY <2>1, <2>5 DEF FreeInv, MonthCoversCharges
  <2> QED BY <1>1, <2>3, <2>6 DEF FreeInv
<1>4. CASE balance(today)
  BY <1>1, <1>4, RolledCounts, ReadKeepsFree DEF balance
<1>5. ASSUME NEW r \in Requests, reserve(r, today) \/ complete(r, today) \/ refund(r, today)
      PROVE  FreeInv'
  BY <1>1, <1>2, <1>5, ReserveKeepsFree, CompleteKeepsFree, RefundKeepsFree
<1>6. ASSUME NEW r \in Requests, claim(r) PROVE FreeInv'
  <2>1. /\ requests'[r] = [requests[r] EXCEPT !.status = "running"]
        /\ requests[r].status = "queued" /\ acct' = acct /\ today' = today /\ RowStep(r)
        /\ requests[r] \in Request
    BY <1>1, <1>6 DEF claim, RowStep, CreditsTypeOK
  <2>2. /\ requests'[r].status = "running" /\ requests'[r].free = requests[r].free
        /\ requests'[r].day = requests[r].day
    BY <2>1 DEF Request
  <2>3. /\ FreeAt(requests'[r], requests'[r].day = acct.day) =
             FreeAt(requests[r], requests[r].day = acct.day)
        /\ FreeAt(requests'[r], MonthOf[requests'[r].day] = MonthOf[acct.day]) =
             FreeAt(requests[r], MonthOf[requests[r].day] = MonthOf[acct.day])
        /\ FreeAt(requests[r], MonthOf[requests[r].day] = MonthOf[acct.day]) \in Nat
    BY <2>1, <2>2 DEF FreeAt, Pending, Request
  <2>4. requests'[r].day <= acct.day
    BY <2>2 DEF FreeInv, NoneAhead
  <2>5. FreeAt(requests'[r], MonthOf[requests'[r].day] = MonthOf[acct.day]) <=
             FreeAt(requests[r], MonthOf[requests[r].day] = MonthOf[acct.day])
    BY <2>3
  <2> QED BY <2>1, <2>3, <2>4, <2>5, RowKeepsFree
<1>7. ASSUME NEW r \in Requests, forget(r) PROVE FreeInv'
  <2>1. /\ requests'[r] = NoRequest /\ acct' = acct /\ today' = today /\ RowStep(r)
        /\ requests[r] \in Request /\ requests[r].day < today - Late
    BY <1>1, <1>7 DEF forget, RowStep, CreditsTypeOK
  <2>2. requests[r].day # today
    BY <1>2, <2>1 DEF Request
  <2>3. /\ FreeAt(requests'[r], requests'[r].day = acct.day) = 0
        /\ FreeAt(requests'[r], MonthOf[requests'[r].day] = MonthOf[acct.day]) = 0
        /\ acct.day = today => FreeAt(requests[r], requests[r].day = acct.day) = 0
        /\ FreeAt(requests[r], MonthOf[requests[r].day] = MonthOf[acct.day]) \in Nat
    BY <2>1, <2>2 DEF FreeAt, NoRequest, Pending, Request
  <2>4. requests'[r].day <= acct.day
    <3>1. requests'[r].day = 0
      BY <2>1 DEF NoRequest
    <3> QED BY <1>2, <3>1
  <2>5. FreeAt(requests'[r], MonthOf[requests'[r].day] = MonthOf[acct.day]) <=
             FreeAt(requests[r], MonthOf[requests[r].day] = MonthOf[acct.day])
    BY <2>3
  <2> QED BY <2>1, <2>3, <2>4, <2>5, RowKeepsFree
<1> QED BY <1>2, <1>3, <1>4, <1>5, <1>6, <1>7 DEF UseCredits

LEMMA CreditsStepFree ==
  ASSUME Late = 0, FreeInv, [CreditsNext]_creditsVars
  PROVE  FreeInv'
<1>1. CreditsTypeOK'
  BY CreditsStepTyped DEF FreeInv
<1>2. CASE UNCHANGED creditsVars
  <2>1. /\ FreeOf' = FreeOf /\ acct' = acct /\ today' = today
        /\ ChargedOn(acct.day)' = ChargedOn(acct.day)
        /\ ChargedIn(MonthOf[acct.day])' = ChargedIn(MonthOf[acct.day])
    BY <1>2 DEF creditsVars, FreeOf, ChargedIn, ChargedOn, Charged
  <2>2. /\ SumFunctionOnSet(FreeOf, ChargedIn(MonthOf[acct.day]))' =
             SumFunctionOnSet(FreeOf, ChargedIn(MonthOf[acct.day]))
        /\ SumFunctionOnSet(FreeOf, ChargedOn(acct.day))' = SumFunctionOnSet(FreeOf, ChargedOn(acct.day))
    BY <2>1, Zenon
  <2>3. FreeUseExact' /\ MonthCoversCharges'
    BY <2>1, <2>2 DEF FreeInv, FreeUseExact, MonthCoversCharges
  <2>4. NoneAhead'
    BY <1>2 DEF creditsVars, FreeInv, NoneAhead
  <2> QED BY <1>1, <2>3, <2>4 DEF FreeInv
<1>3. ASSUME NEW at \in Times, NEW n \in Packs, Credit(n, at) PROVE FreeInv'
  <2>1. at = today /\ today \in Days /\ Rolled(today) \in Credits
    BY NowOnly, RolledTyped DEF FreeInv
  <2>2. acct' = [Rolled(today) EXCEPT !.paid = @ + n] /\ today' = today /\ requests' = requests
    BY <1>3, <2>1 DEF Credit
  <2>3. /\ acct'.day = Rolled(today).day /\ acct'.day_used = Rolled(today).day_used
        /\ acct'.month_used = Rolled(today).month_used
    BY <2>1, <2>2 DEF Credits
  <2> QED BY <1>1, <2>2, <2>3, RolledCounts, ReadKeepsFree
<1> QED BY <1>2, <1>3, UseKeepsFree DEF CreditsNext

LEMMA InitFree == CreditsInit => FreeInv
<1> SUFFICES ASSUME CreditsInit PROVE FreeInv
  OBVIOUS
<1>1. /\ today = 0 /\ acct.day = 0 /\ acct.day_used = 0 /\ acct.month_used = 0
      /\ \A r \in Requests : requests[r].day = 0
      /\ ChargedOn(acct.day) = {} /\ ChargedIn(MonthOf[acct.day]) = {}
  BY DEF CreditsInit, ChargedOn, ChargedIn, Charged, NoRequest, Pending
<1>2. /\ SumFunctionOnSet(FreeOf, ChargedOn(acct.day)) = 0
      /\ SumFunctionOnSet(FreeOf, ChargedIn(MonthOf[acct.day])) = 0
  BY <1>1, SumEmpty
<1> QED BY <1>1, <1>2, InitCreditsTypeOK DEF FreeInv, NoneAhead, FreeUseExact, MonthCoversCharges

\* Days and months that turn over leave the free-use counters of reserve() and
\* finish() with what the requests of the day and of the month hold.
THEOREM FreeInvHolds == Late = 0 /\ CreditsSpec => []FreeInv
<1>1. CASE Late = 0
  <2>1. FreeInv /\ [CreditsNext]_creditsVars => FreeInv'
    BY <1>1, CreditsStepFree
  <2> QED BY <2>1, InitFree, PTL DEF CreditsSpec
<1> QED BY <1>1

\* The counter of the current day is exactly the free credits that the day's
\* requests still hold, whatever was refunded or rolled over in between.
THEOREM FreeUseExactHolds == Late = 0 /\ CreditsSpec => []FreeUseExact
<1>1. FreeInv => FreeUseExact
  BY DEF FreeInv
<1> QED BY <1>1, FreeInvHolds, PTL

\* The constraints of api_accounts never refuse the refund of a pending request.
THEOREM RefundNeverBlockedHolds == Late = 0 /\ CreditsSpec => []RefundNeverBlocked
<1>1. ASSUME Late = 0, FreeInv PROVE RefundNeverBlocked
  <2> SUFFICES ASSUME NEW r \in Requests, requests[r].status \in Pending
               PROVE  AccountOK(Refunded(r, today))
    BY DEF RefundNeverBlocked
  <2> DEFINE a == Rolled(today)
             D == SumFunctionOnSet(FreeOf, ChargedOn(today))
             M == SumFunctionOnSet(FreeOf, ChargedIn(MonthOf[today]))
             d == IF requests[r].day = today THEN requests[r].free ELSE 0
             m == IF MonthOf[requests[r].day] = MonthOf[today] THEN requests[r].free ELSE 0
             p == requests[r].paid
  <2>1. /\ today \in Days /\ a \in Credits /\ requests[r] \in Request
        /\ a.day_used = D /\ a.month_used >= M
    BY <1>1, NowOnly, RolledTyped, RolledCounts DEF FreeInv
  <2>2. d <= D /\ m <= M /\ D \in Nat /\ M \in Nat
    <3>1. /\ ChargedOn(today) \in SUBSET Requests /\ ChargedIn(MonthOf[today]) \in SUBSET Requests
          /\ d = Share(FreeOf, ChargedOn(today), r)
          /\ m = Share(FreeOf, ChargedIn(MonthOf[today]), r)
      BY DEF ChargedOn, ChargedIn, Charged, Share, FreeOf
    <3>2. /\ IsFiniteSet(ChargedOn(today)) /\ D \in Nat
          /\ IsFiniteSet(ChargedIn(MonthOf[today])) /\ M \in Nat
          /\ \A q \in ChargedOn(today) : FreeOf[q] \in Nat
          /\ \A q \in ChargedIn(MonthOf[today]) : FreeOf[q] \in Nat
      BY <1>1, <3>1, SumsTyped DEF FreeInv
    <3> QED BY <3>1, <3>2, ShareWithin
  <2>3. d \in Nat /\ m \in Nat /\ p \in Nat
    BY <2>1 DEF Request
  <2>4. Refunded(r, today) = [a EXCEPT !.paid = @ + p, !.month_used = @ - m, !.day_used = @ - d]
    BY DEF Refunded
  <2> HIDE DEF a, D, M, d, m, p
  <2>5. /\ Refunded(r, today).paid = a.paid + p
        /\ Refunded(r, today).month_used = a.month_used - m
        /\ Refunded(r, today).day_used = a.day_used - d
    BY <2>1, <2>4 DEF Credits
  <2>6. /\ a.paid \in Nat
        /\ a.month_used \in Nat /\ a.month_used <= FreeMonth
        /\ a.day_used \in Nat /\ a.day_used <= FreeDay
        /\ FreeMonth \in Nat /\ FreeDay \in Nat
    BY <2>1, CreditsAssumption DEF Credits
  <2>7. a.paid + p >= 0 /\ a.month_used - m \in 0..FreeMonth /\ a.day_used - d \in 0..FreeDay
    BY <2>1, <2>2, <2>3, <2>6
  <2> QED BY <2>5, <2>7 DEF AccountOK
<1>2. CASE Late = 0
  <2>1. FreeInv => RefundNeverBlocked
    BY <1>1, <1>2
  <2> QED BY <1>2, <2>1, FreeInvHolds, PTL
<1> QED BY <1>2

-----------------------------------------------------------------------------
(***************************************************************************)
(* Types of the orders and their handlers, with leases of any length.      *)
(***************************************************************************)
TypesInv == TopUpsTypeOK /\ HandlerKnowsProof

\* A handler at work has an order and a proof.
LEMMA HandlerTyped ==
  ASSUME TopUpsTypeOK, NEW a \in Attempts, attempts[a].pc # "idle"
  PROVE  /\ attempts[a] \in [pc : Steps, order : Orders, proof : Proofs]
         /\ attempts[a].order \in Orders /\ attempts[a].proof \in Proofs
<1>1. attempts[a] \in Attempt
  BY DEF TopUpsTypeOK
<1> QED BY <1>1 DEF Attempt, Idle

\* The columns of an order.
LEMMA OrderTyped ==
  ASSUME TopUpsTypeOK, NEW o \in Orders
  PROVE  /\ orders[o] \in [status : OrderStatuses, proof : Proofs \cup {Nobody}, leased : BOOLEAN]
         /\ orders[o].proof = Nobody <=> orders[o].status \in {"none", "open"}
<1>1. orders[o] \in Order
  BY DEF TopUpsTypeOK
<1> QED BY <1>1, Zenon DEF Order

\* The order of a handler has a proof, so it may take every other status.
LEMMA MarkTyped ==
  ASSUME TypesInv, NEW a \in Attempts, attempts[a].pc # "idle",
         NEW status \in OrderStatuses \ {"none", "open"}, Mark(attempts[a].order, status)
  PROVE  orders' \in [Orders -> Order]
<1> DEFINE o == attempts[a].order
           row == [orders[o] EXCEPT !.status = status]
<1>1. o \in Orders /\ attempts[a].proof \in Proofs
  BY HandlerTyped DEF TypesInv
<1>2. orders[o].proof = attempts[a].proof
  BY DEF TypesInv, HandlerKnowsProof
<1>3. orders[o] \in [status : OrderStatuses, proof : Proofs \cup {Nobody}, leased : BOOLEAN]
  BY <1>1, OrderTyped DEF TypesInv
<1>4. row.proof # Nobody /\ row.status = status
  BY <1>1, <1>2, <1>3, TopUpsAssumption
<1>5. row \in [status : OrderStatuses, proof : Proofs \cup {Nobody}, leased : BOOLEAN]
  BY <1>3
<1>6. row \in Order
  BY <1>4, <1>5 DEF Order
<1>7. orders' = [orders EXCEPT ![o] = row]
  BY DEF Mark
<1> HIDE DEF o, row
<1> QED BY <1>6, <1>7 DEF TypesInv, TopUpsTypeOK

\* A handler goes on, or is done.
LEMMA GoTyped ==
  ASSUME TopUpsTypeOK, NEW a \in Attempts, attempts[a].pc # "idle", NEW pc \in Steps,
         Go(a, pc) \/ Return(a)
  PROVE  attempts' \in [Attempts -> Attempt]
<1>1. [attempts[a] EXCEPT !.pc = pc] \in Attempt
  BY HandlerTyped DEF Attempt
<1>2. Idle \in Attempt
  BY DEF Attempt
<1> QED BY <1>1, <1>2 DEF Go, Return, TopUpsTypeOK

\* What it works on does not change on the way.
LEMMA GoKeepsWork ==
  ASSUME TopUpsTypeOK, NEW a \in Attempts, NEW pc, Go(a, pc) \/ Return(a)
  PROVE  \A b \in Attempts :
           /\ b # a => attempts'[b] = attempts[b]
           /\ attempts'[b].pc # "idle" /\ attempts[a].pc # "idle" =>
                /\ attempts[b].pc # "idle"
                /\ attempts'[b].order = attempts[b].order /\ attempts'[b].proof = attempts[b].proof
BY DEF Go, Return, TopUpsTypeOK, Attempt, Idle

\* A step of one handler, and the statuses it may leave its order in.
HandlerStep(a) ==
  /\ attempts[a].pc # "idle"
  /\ \E pc \in Steps : Go(a, pc) \/ Return(a)
  /\ \/ UNCHANGED orders
     \/ \E status \in OrderStatuses \ {"none", "open"} : Mark(attempts[a].order, status)

LEMMA HandleIsStep ==
  ASSUME NEW a \in Attempts, Handle(a) \/ Crash(a)
  PROVE  HandlerStep(a)
<1> USE DEF HandlerStep, Steps, OrderStatuses
<1>1. CASE Verify(a)
  BY <1>1 DEF Verify
<1>2. CASE Reject(a)
  BY <1>2 DEF Reject
<1>3. CASE Proceed(a)
  BY <1>3 DEF Proceed
<1>4. CASE SettleOk(a)
  BY <1>4 DEF SettleOk
<1>5. CASE SettleFails(a)
  BY <1>5 DEF SettleFails
<1>6. CASE Pend(a)
  BY <1>6 DEF Pend
<1>7. CASE \E at \in Times : CreditOrder(a, at)
  BY <1>7 DEF CreditOrder
<1>8. CASE Crash(a)
  BY <1>8 DEF Crash
<1> QED BY <1>1, <1>2, <1>3, <1>4, <1>5, <1>6, <1>7, <1>8 DEF Handle

\* It moves the status of its own order and nothing else of any order.
LEMMA StepKeepsRows ==
  ASSUME TypesInv, NEW a \in Attempts, HandlerStep(a), NEW o \in Orders
  PROVE  /\ orders'[o].proof = orders[o].proof /\ orders'[o].leased = orders[o].leased
         /\ o # attempts[a].order => orders'[o] = orders[o]
<1>1. orders[o] \in [status : OrderStatuses, proof : Proofs \cup {Nobody}, leased : BOOLEAN]
  BY OrderTyped DEF TypesInv
<1>2. ASSUME NEW status, Mark(attempts[a].order, status)
      PROVE  /\ orders'[o].proof = orders[o].proof /\ orders'[o].leased = orders[o].leased
             /\ o # attempts[a].order => orders'[o] = orders[o]
  <2>1. orders' = [orders EXCEPT ![attempts[a].order] = [orders[attempts[a].order] EXCEPT !.status = status]]
    BY <1>2 DEF Mark
  <2>2. /\ [orders[o] EXCEPT !.status = status].proof = orders[o].proof
        /\ [orders[o] EXCEPT !.status = status].leased = orders[o].leased
    BY <1>1
  <2>3. DOMAIN orders = Orders
    BY DEF TypesInv, TopUpsTypeOK
  <2>4. CASE o = attempts[a].order
    <3>1. orders'[o] = [orders[o] EXCEPT !.status = status]
      BY <2>1, <2>3, <2>4
    <3> QED BY <2>2, <2>4, <3>1
  <2>5. CASE o # attempts[a].order
    BY <2>1, <2>3, <2>5
  <2> QED BY <2>4, <2>5
<1> QED BY <1>2 DEF HandlerStep

LEMMA HandlerStepKeepsTypes ==
  ASSUME TypesInv, NEW a \in Attempts, HandlerStep(a)
  PROVE  /\ orders' \in [Orders -> Order]
         /\ attempts' \in [Attempts -> Attempt]
         /\ HandlerKnowsProof'
<1>1. orders' \in [Orders -> Order]
  BY MarkTyped DEF HandlerStep, TypesInv, TopUpsTypeOK
<1>2. attempts' \in [Attempts -> Attempt]
  BY GoTyped DEF HandlerStep, TypesInv
<1>3. \A o \in Orders : orders'[o].proof = orders[o].proof
  BY StepKeepsRows
<1>4. ASSUME NEW b \in Attempts, attempts'[b].pc # "idle"
      PROVE  orders'[attempts'[b].order].proof = attempts'[b].proof
  <2>1. /\ attempts[b].pc # "idle"
        /\ attempts'[b].order = attempts[b].order /\ attempts'[b].proof = attempts[b].proof
    BY <1>4, GoKeepsWork DEF HandlerStep, TypesInv
  <2>2. attempts[b].order \in Orders
    BY <2>1, HandlerTyped DEF TypesInv
  <2> QED BY <1>3, <2>1, <2>2 DEF TypesInv, HandlerKnowsProof
<1> QED BY <1>1, <1>2, <1>4 DEF HandlerKnowsProof

LEMMA BeginKeepsTypes ==
  ASSUME TypesInv, NEW a \in Attempts, NEW o \in Orders, NEW p \in Proofs, NEW at \in Times,
         Begin(a, o, p, at)
  PROVE  TypesInv'
<1> DEFINE row == [status |-> IF Retries(o) THEN "settling" ELSE "verifying",
                   proof |-> p, leased |-> TRUE]
           work == [pc |-> IF Retries(o) THEN "settle" ELSE "verify", order |-> o, proof |-> p]
<1>1. row \in Order /\ work \in Attempt
  BY TopUpsAssumption DEF Order, OrderStatuses, Attempt, Steps
<1>2. /\ orders' = [orders EXCEPT ![o] = row] /\ attempts' = [attempts EXCEPT ![a] = work]
      /\ row.proof = p /\ work.order = o /\ work.proof = p
      /\ claims' = [claims EXCEPT ![p] = o]
      /\ UNCHANGED <<paid, granted>>
  BY DEF Begin
<1> HIDE DEF row, work
<1>3. CreditsTypeOK'
  BY TimesAreDays, RolledTyped DEF Begin, TypesInv, TopUpsTypeOK, CreditsTypeOK
<1>4. TopUpsTypeOK'
  BY <1>1, <1>2, <1>3 DEF TypesInv, TopUpsTypeOK
<1>5. ASSUME NEW b \in Attempts, attempts'[b].pc # "idle"
      PROVE  orders'[attempts'[b].order].proof = attempts'[b].proof
  <2>1. CASE b = a
    BY <1>2, <2>1 DEF TypesInv, TopUpsTypeOK
  <2>2. CASE b # a
    <3>1. /\ attempts'[b] = attempts[b] /\ attempts[b].order \in Orders /\ attempts[b].proof \in Proofs
          /\ orders[attempts[b].order].proof = attempts[b].proof
      BY <1>2, <1>5, <2>2, HandlerTyped DEF TypesInv, TopUpsTypeOK, HandlerKnowsProof
    <3>2. orders'[o].proof = p /\ \A q \in Orders \ {o} : orders'[q] = orders[q]
      BY <1>2 DEF TypesInv, TopUpsTypeOK
    <3>3. orders[o].proof \in {Nobody, p}
      BY DEF Begin
    <3> QED BY <3>1, <3>2, <3>3, TopUpsAssumption
  <2> QED BY <2>1, <2>2
<1> QED BY <1>4, <1>5 DEF TypesInv, HandlerKnowsProof

\* Every step of a handler but the last leaves the credits alone.
LEMMA HandleKeepsTypes ==
  ASSUME TypesInv, NEW a \in Attempts, Handle(a) \/ Crash(a)
  PROVE  TypesInv'
<1>1. /\ attempts[a].pc # "idle"
      /\ orders' \in [Orders -> Order] /\ attempts' \in [Attempts -> Attempt]
      /\ HandlerKnowsProof'
  BY HandleIsStep, HandlerStepKeepsTypes DEF HandlerStep
<1>2. attempts[a].order \in Orders /\ attempts[a].proof \in Proofs
  BY <1>1, HandlerTyped DEF TypesInv
<1>3. ASSUME UNCHANGED <<creditsVars, claims, granted>>, paid' \in {paid, paid \cup {attempts[a].proof}}
      PROVE  TypesInv'
  BY <1>1, <1>2, <1>3 DEF TypesInv, TopUpsTypeOK, CreditsTypeOK, creditsVars
<1>4. ASSUME NEW at \in Times, CreditOrder(a, at)
      PROVE  TypesInv'
  <2>1. CreditsTypeOK'
    <3>1. Pack[attempts[a].order] \in Packs /\ at \in Days
      BY <1>2, TopUpsAssumption, TimesAreDays DEF TypesInv, TopUpsTypeOK
    <3>2. CASE Credit(Pack[attempts[a].order], at)
      BY <3>1, <3>2, CreditKeepsTypes DEF TypesInv, TopUpsTypeOK
    <3>3. CASE balance(at)
      BY <3>1, <3>3, RolledTyped DEF TypesInv, TopUpsTypeOK, CreditsTypeOK, balance
    <3>4. CASE UNCHANGED creditsVars
      BY <3>4 DEF TypesInv, TopUpsTypeOK, CreditsTypeOK, creditsVars
    <3> QED BY <1>4, <3>2, <3>3, <3>4 DEF CreditOrder
  <2>2. /\ claims' \in [Proofs \cup Transactions -> Orders \cup {Nobody}]
        /\ granted' \in [Orders -> Nat]
        /\ paid' = paid
    BY <1>2, <1>4 DEF CreditOrder, TypesInv, TopUpsTypeOK
  <2> QED BY <1>1, <2>1, <2>2 DEF TypesInv, TopUpsTypeOK
<1> QED BY <1>3, <1>4 DEF Handle, Verify, Reject, Proceed, SettleOk, SettleFails, Pend, Crash

LEMMA OrdersKeepTypes ==
  ASSUME TypesInv, NEW o \in Orders,
         (\E at \in Times : Create(o, at)) \/ Lapse(o) \/ PruneOrder(o)
  PROVE  TypesInv'
<1>1. NoOrder \in Order /\ [NoOrder EXCEPT !.status = "open"] \in Order
  BY TopUpsAssumption DEF NoOrder, Order, OrderStatuses
<1>2. [orders[o] EXCEPT !.leased = FALSE] \in Order
  BY OrderTyped DEF TypesInv, Order
<1>3. CreditsTypeOK'
  <2>1. ASSUME NEW at \in Times, Create(o, at) PROVE CreditsTypeOK'
    BY <2>1, TimesAreDays, RolledTyped DEF Create, TypesInv, TopUpsTypeOK, CreditsTypeOK
  <2> QED BY <2>1 DEF Lapse, PruneOrder, creditsVars, TypesInv, TopUpsTypeOK, CreditsTypeOK
<1>4. orders' \in [Orders -> Order]
  BY <1>1, <1>2 DEF Create, Lapse, PruneOrder, TypesInv, TopUpsTypeOK
<1>5. claims' \in [Proofs \cup Transactions -> Orders \cup {Nobody}]
  BY DEF Create, Lapse, PruneOrder, TypesInv, TopUpsTypeOK
<1>6. UNCHANGED <<attempts, paid, granted>>
  BY DEF Create, Lapse, PruneOrder
<1>7. ASSUME NEW a \in Attempts, attempts'[a].pc # "idle"
      PROVE  orders'[attempts'[a].order].proof = attempts'[a].proof
  <2>1. /\ attempts[a].order \in Orders /\ attempts[a].proof \in Proofs
        /\ orders[attempts[a].order].proof = attempts[a].proof
    BY <1>6, <1>7, HandlerTyped DEF TypesInv, HandlerKnowsProof
  <2>2. orders[attempts[a].order].status \notin {"none", "open"}
    BY <2>1, OrderTyped, TopUpsAssumption DEF TypesInv
  <2>3. CASE \E at \in Times : Create(o, at)
    BY <1>6, <2>1, <2>2, <2>3 DEF Create, TypesInv, TopUpsTypeOK
  <2>4. CASE Lapse(o)
    BY <1>6, <2>1, <2>4, OrderTyped DEF Lapse, TypesInv, TopUpsTypeOK
  <2>5. CASE PruneOrder(o)
    BY <1>6, <2>1, <2>5 DEF PruneOrder, AtWork, TypesInv, TopUpsTypeOK
  <2> QED BY <2>3, <2>4, <2>5
<1> QED BY <1>3, <1>4, <1>5, <1>6, <1>7 DEF TypesInv, TopUpsTypeOK, HandlerKnowsProof

LEMMA NextKeepsTypes == TypesInv /\ [TopUpsNext]_allVars => TypesInv'
<1> SUFFICES ASSUME TypesInv, [TopUpsNext]_allVars PROVE TypesInv'
  OBVIOUS
<1>1. CASE UseCredits /\ UNCHANGED topUpVars
  BY <1>1, UseKeepsTypes DEF TypesInv, TopUpsTypeOK, topUpVars, HandlerKnowsProof
<1>2. CASE UNCHANGED allVars
  BY <1>2 DEF allVars, topUpVars, TypesInv, TopUpsTypeOK, CreditsTypeOK, HandlerKnowsProof
<1> QED BY <1>1, <1>2, OrdersKeepTypes, BeginKeepsTypes, HandleKeepsTypes DEF TopUpsNext

LEMMA InitTypes == TopUpsInit => TypesInv
<1> SUFFICES ASSUME TopUpsInit PROVE TypesInv
  OBVIOUS
<1>1. NoOrder \in Order
  BY TopUpsAssumption DEF NoOrder, Order, OrderStatuses
<1>2. Idle \in Attempt /\ Idle.pc = "idle"
  BY DEF Attempt, Idle
<1> QED BY <1>1, <1>2, InitCreditsTypeOK
        DEF TopUpsInit, TypesInv, TopUpsTypeOK, HandlerKnowsProof

\* The rows and handlers of api_payments have their types, and an order that a
\* handler works on keeps the proof it was saved with, even past its lease.
THEOREM TypesHold == TopUpsSpec => []TopUpsTypeOK
<1>1. TypesInv => TopUpsTypeOK
  BY DEF TypesInv
<1> QED BY <1>1, InitTypes, NextKeepsTypes, PTL DEF TopUpsSpec

-----------------------------------------------------------------------------
\* What a top-up does to the account is what a client of ApiCredits may do.
LEMMA NextIsCreditsNext == TypesInv /\ [TopUpsNext]_allVars => [CreditsNext]_creditsVars
<1> SUFFICES ASSUME TypesInv, [TopUpsNext]_allVars PROVE [CreditsNext]_creditsVars
  OBVIOUS
<1>1. ASSUME NEW at \in Times, balance(at) PROVE CreditsNext
  BY <1>1 DEF CreditsNext, UseCredits
<1>2. ASSUME NEW at \in Times, NEW o \in Orders, Create(o, at) PROVE CreditsNext
  BY <1>1, <1>2 DEF Create, balance
<1>3. ASSUME NEW at \in Times, NEW a \in Attempts, NEW o \in Orders, NEW p \in Proofs, Begin(a, o, p, at)
      PROVE  CreditsNext
  BY <1>1, <1>3 DEF Begin, balance
<1>4. ASSUME NEW at \in Times, NEW a \in Attempts, CreditOrder(a, at)
      PROVE  [CreditsNext]_creditsVars
  <2>1. attempts[a].order \in Orders
    BY <1>4, HandlerTyped DEF CreditOrder, TypesInv
  <2>2. Pack[attempts[a].order] \in Packs
    BY <2>1, TopUpsAssumption
  <2> QED BY <1>1, <1>4, <2>2 DEF CreditOrder, CreditsNext
<1>5. ASSUME NEW a \in Attempts, Handle(a) \/ Crash(a)
      PROVE  [CreditsNext]_creditsVars
  BY <1>4, <1>5 DEF Handle, Verify, Reject, Proceed, SettleOk, SettleFails, Pend, Crash
<1>6. ASSUME NEW o \in Orders, Lapse(o) \/ PruneOrder(o)
      PROVE  UNCHANGED creditsVars
  BY <1>6 DEF Lapse, PruneOrder
<1>7. CASE UNCHANGED allVars
  BY <1>7 DEF allVars, creditsVars
<1> QED BY <1>2, <1>3, <1>5, <1>6, <1>7 DEF TopUpsNext, CreditsNext

\* Top-ups are steps of the account's own specification: what api_payments.py does to
\* the account, a client of api_credits.py may do, with leases of any length.
THEOREM TopUpsImplementCredits == TopUpsSpec => CreditsSpec
<1>1. TopUpsInit => CreditsInit
  BY DEF TopUpsInit
<1> QED BY <1>1, InitTypes, NextKeepsTypes, NextIsCreditsNext, PTL DEF TopUpsSpec, CreditsSpec

-----------------------------------------------------------------------------
(***************************************************************************)
(* The invariant, when a lease outlives its handler.                       *)
(***************************************************************************)
LEMMA InvTypes == TopUpsInv => TypesInv
BY DEF TopUpsInv, TypesInv

LEMMA InitInv == TopUpsInit => TopUpsInv
<1> SUFFICES ASSUME TopUpsInit PROVE TopUpsInv
  OBVIOUS
<1>1. TypesInv
  BY InitTypes
<1>2. /\ \A a \in Attempts : attempts[a].pc = "idle"
      /\ \A o \in Orders : orders[o].status = "none" /\ orders[o].proof = Nobody /\ granted[o] = 0
      /\ \A p \in Proofs : claims[p] = Nobody
      /\ paid = {}
  BY DEF TopUpsInit, Idle, NoOrder
<1>3. ClaimsMatchOrders
  BY <1>2, TopUpsAssumption DEF ClaimsMatchOrders
<1> QED BY <1>1, <1>2, <1>3
        DEF TypesInv, TopUpsInv, HandlerHoldsOrder, OneHandler, PaidIsHeld, CreditFollowsPayment,
            CreditedOnce, GrantedIsPaid, GrantHoldsTransaction

\* What a handler's step must see to: the status it leaves fits its next step,
\* and an order that may have been paid is not let go.
SoundStep(a) ==
  LET o == attempts[a].order IN
  /\ HandlerStep(a)
  /\ \A p \in Proofs : claims'[p] = claims[p]
  /\ paid' \in {paid, paid \cup {attempts[a].proof}}
  /\ attempts'[a].pc # "idle" => orders'[o].status \in StatusesAt(attempts'[a].pc)
  /\ orders[o].status = "settling" \/ paid' # paid =>
       orders'[o].status \in {"settling", "pending", "complete"}
  /\ attempts'[a].pc = "credit" => attempts[a].proof \in paid'

LEMMA SoundStepKeepsHolds ==
  ASSUME TopUpsInv, NEW a \in Attempts, SoundStep(a)
  PROVE  /\ HandlerHoldsOrder' /\ OneHandler' /\ ClaimsMatchOrders'
         /\ PaidIsHeld' /\ CreditFollowsPayment'
<1> DEFINE o == attempts[a].order
           p == attempts[a].proof
<1>1. /\ attempts[a].pc # "idle" /\ o \in Orders /\ p \in Proofs
      /\ orders[o].proof = p /\ claims[p] = o
      /\ orders[o].status \in {"verifying", "settling"} /\ orders[o].leased
  BY InvTypes, HandlerTyped
     DEF SoundStep, HandlerStep, TopUpsInv, TypesInv, HandlerKnowsProof, HandlerHoldsOrder,
         ClaimsMatchOrders, StatusesAt
<1>2. ASSUME NEW q \in Orders
      PROVE  /\ orders'[q].proof = orders[q].proof /\ orders'[q].leased = orders[q].leased
             /\ q # o => orders'[q] = orders[q]
  BY InvTypes, StepKeepsRows DEF SoundStep
<1>3. ASSUME NEW b \in Attempts, attempts'[b].pc # "idle"
      PROVE  /\ attempts[b].pc # "idle"
             /\ b # a => attempts'[b] = attempts[b]
             /\ attempts'[b].order = attempts[b].order /\ attempts'[b].proof = attempts[b].proof
             /\ attempts[b].order \in Orders /\ attempts[b].proof \in Proofs
  <2>1. /\ attempts[b].pc # "idle"
        /\ b # a => attempts'[b] = attempts[b]
        /\ attempts'[b].order = attempts[b].order /\ attempts'[b].proof = attempts[b].proof
    BY <1>1, <1>3, GoKeepsWork DEF SoundStep, HandlerStep, TopUpsInv
  <2> QED BY <2>1, HandlerTyped DEF TopUpsInv
<1>4. HandlerHoldsOrder'
  <2> SUFFICES ASSUME NEW b \in Attempts, attempts'[b].pc # "idle"
               PROVE  /\ orders'[attempts'[b].order].status \in StatusesAt(attempts'[b].pc)
                      /\ orders'[attempts'[b].order].leased
    BY DEF HandlerHoldsOrder, StatusesAt
  <2>1. CASE b = a
    BY <1>1, <1>2, <1>3, <2>1 DEF SoundStep
  <2>2. CASE b # a
    <3>1. attempts[b].order # o
      BY <1>3, <2>2 DEF TopUpsInv, OneHandler
    <3> QED BY <1>2, <1>3, <2>2, <3>1 DEF TopUpsInv, HandlerHoldsOrder
  <2> QED BY <2>1, <2>2
<1>5. OneHandler'
  <2> SUFFICES ASSUME NEW b \in Attempts, NEW c \in Attempts, attempts'[b].pc # "idle",
                      attempts'[b].order = attempts'[c].order
               PROVE  b = c
    BY DEF OneHandler
  <2>1. attempts'[b].order \in Orders
    BY <1>3
  <2>2. attempts'[c].pc # "idle"
    <3>1. attempts'[c] \in Attempt
      BY InvTypes, HandlerStepKeepsTypes DEF SoundStep
    <3> QED BY <2>1, <3>1, TopUpsAssumption DEF Attempt, Idle, Steps
  <2> QED BY <1>3, <2>2 DEF TopUpsInv, OneHandler
<1>6. ClaimsMatchOrders'
  BY <1>2 DEF SoundStep, TopUpsInv, ClaimsMatchOrders
<1>7. PaidIsHeld'
  <2> SUFFICES ASSUME NEW q \in paid'
               PROVE  /\ claims'[q] \in Orders
                      /\ orders'[claims'[q]].status \in {"settling", "pending", "complete"}
    BY DEF PaidIsHeld
  <2>1. q \in Proofs /\ claims'[q] = claims[q]
    BY <1>1 DEF SoundStep, TopUpsInv, TopUpsTypeOK
  <2>2. CASE q \in paid
    <3>1. /\ claims[q] \in Orders
          /\ orders[claims[q]].status \in {"settling", "pending", "complete"}
      BY <2>2 DEF TopUpsInv, PaidIsHeld
    <3>2. CASE claims[q] = o
      BY <1>1, <2>1, <3>1, <3>2 DEF SoundStep
    <3>3. CASE claims[q] # o
      BY <1>2, <2>1, <3>1, <3>3
    <3> QED BY <3>2, <3>3
  <2>3. CASE q \notin paid
    BY <1>1, <2>1, <2>3 DEF SoundStep
  <2> QED BY <2>2, <2>3
<1>8. CreditFollowsPayment'
  <2> SUFFICES ASSUME NEW b \in Attempts, attempts'[b].pc = "credit"
               PROVE  attempts'[b].proof \in paid'
    BY DEF CreditFollowsPayment
  <2>1. CASE b = a
    BY <1>3, <2>1 DEF SoundStep
  <2>2. CASE b # a
    BY <1>3, <2>2 DEF SoundStep, TopUpsInv, CreditFollowsPayment
  <2> QED BY <2>1, <2>2
<1> QED BY <1>4, <1>5, <1>6, <1>7, <1>8

\* A step that completes nothing keeps what was granted as it was.
LEMMA SoundStepKeepsInv ==
  ASSUME TopUpsInv, TypesInv', NEW a \in Attempts, SoundStep(a),
         UNCHANGED <<claims, granted>>, orders'[attempts[a].order].status # "complete"
  PROVE  TopUpsInv'
<1>1. /\ attempts[a].order \in Orders
      /\ orders[attempts[a].order].status # "complete"
  BY HandlerTyped DEF SoundStep, HandlerStep, TopUpsInv, HandlerHoldsOrder, StatusesAt
<1>2. ASSUME NEW q \in Orders
      PROVE  /\ orders'[q].proof = orders[q].proof
             /\ q # attempts[a].order => orders'[q] = orders[q]
  BY InvTypes, StepKeepsRows DEF SoundStep
<1>3. CreditedOnce'
  BY <1>1, <1>2 DEF TopUpsInv, CreditedOnce
<1>4. GrantedIsPaid' /\ GrantHoldsTransaction'
  BY <1>2 DEF SoundStep, TopUpsInv, GrantedIsPaid, GrantHoldsTransaction
<1> QED BY <1>3, <1>4, SoundStepKeepsHolds DEF TopUpsInv, TypesInv

LEMMA HandleKeepsInv ==
  ASSUME TopUpsInv, NEW a \in Attempts,
         \/ Verify(a) \/ Reject(a) \/ Proceed(a) \/ SettleOk(a) \/ SettleFails(a) \/ Pend(a)
         \/ Crash(a)
  PROVE  TopUpsInv'
<1> DEFINE o == attempts[a].order
<1>1. TypesInv' /\ HandlerStep(a)
  BY InvTypes, HandleKeepsTypes, HandleIsStep DEF Handle
<1>2. /\ attempts[a].pc # "idle" /\ attempts[a] \in Attempt
      /\ o \in Orders /\ attempts[a].proof \in Proofs
      /\ orders[o].status \in StatusesAt(attempts[a].pc)
  BY <1>1, HandlerTyped DEF HandlerStep, TopUpsInv, TopUpsTypeOK, HandlerHoldsOrder
<1>3. DOMAIN attempts = Attempts /\ DOMAIN orders = Orders
  BY DEF TopUpsInv, TopUpsTypeOK
<1>4. ASSUME NEW pc, Go(a, pc) PROVE attempts'[a].pc = pc
  BY <1>2, <1>3, <1>4, HandlerTyped DEF Go, TopUpsInv
<1>5. ASSUME Return(a) PROVE attempts'[a].pc = "idle"
  BY <1>3, <1>5 DEF Return, Idle
<1>6. ASSUME NEW status, Mark(o, status) PROVE orders'[o].status = status
  <2>1. orders[o] \in [status : OrderStatuses, proof : Proofs \cup {Nobody}, leased : BOOLEAN]
    BY <1>2, OrderTyped DEF TopUpsInv
  <2> QED BY <1>2, <1>3, <1>6, <2>1 DEF Mark
<1>7. ASSUME UNCHANGED <<claims, granted>>, paid' \in {paid, paid \cup {attempts[a].proof}},
             attempts'[a].pc # "idle" => orders'[o].status \in StatusesAt(attempts'[a].pc),
             orders[o].status = "settling" \/ paid' # paid => orders'[o].status \in {"settling", "pending"},
             attempts'[a].pc = "credit" => attempts[a].proof \in paid',
             orders'[o].status # "complete"
      PROVE  TopUpsInv'
  BY <1>1, <1>7, SoundStepKeepsInv DEF SoundStep
<1> HIDE DEF o
<1>8. CASE Verify(a)
  <2>1. orders[o].status = "verifying" /\ orders' = orders /\ UNCHANGED <<claims, granted, paid>>
    BY <1>2, <1>8 DEF Verify, StatusesAt
  <2>2. attempts'[a].pc \in {"proceed", "reject", "pend"}
    BY <1>4, <1>8 DEF Verify
  <2> QED BY <1>7, <2>1, <2>2 DEF StatusesAt
<1>9. CASE Reject(a)
  <2>1. orders[o].status = "verifying" /\ UNCHANGED <<claims, granted, paid>>
    BY <1>2, <1>9 DEF Reject, StatusesAt
  <2>2. attempts'[a].pc = "idle" /\ orders'[o].status = "rejected"
    BY <1>5, <1>6, <1>9 DEF Reject, o
  <2> QED BY <1>7, <2>1, <2>2
<1>10. CASE Proceed(a)
  <2>1. UNCHANGED <<claims, granted, paid>>
    BY <1>10 DEF Proceed
  <2>2. attempts'[a].pc = "settle" /\ orders'[o].status = "settling"
    BY <1>4, <1>6, <1>10 DEF Proceed, o
  <2> QED BY <1>7, <2>1, <2>2 DEF StatusesAt
<1>11. CASE SettleOk(a)
  <2>1. /\ orders[o].status = "settling" /\ orders' = orders /\ UNCHANGED <<claims, granted>>
        /\ paid' = paid \cup {attempts[a].proof}
    BY <1>2, <1>11 DEF SettleOk, StatusesAt
  <2>2. attempts'[a].pc = "credit"
    BY <1>4, <1>11 DEF SettleOk
  <2> QED BY <1>7, <2>1, <2>2 DEF StatusesAt
<1>12. CASE SettleFails(a)
  <2>1. /\ orders[o].status = "settling" /\ orders' = orders /\ UNCHANGED <<claims, granted>>
        /\ paid' \in {paid, paid \cup {attempts[a].proof}}
    BY <1>2, <1>12 DEF SettleFails, StatusesAt
  <2>2. attempts'[a].pc = "pend"
    BY <1>4, <1>12 DEF SettleFails
  <2> QED BY <1>7, <2>1, <2>2 DEF StatusesAt
<1>13. CASE Pend(a)
  <2>1. UNCHANGED <<claims, granted, paid>>
    BY <1>13 DEF Pend
  <2>2. attempts'[a].pc = "idle" /\ orders'[o].status = "pending"
    BY <1>5, <1>6, <1>13 DEF Pend, o
  <2> QED BY <1>7, <2>1, <2>2
<1>14. CASE Crash(a)
  <2>1. orders' = orders /\ UNCHANGED <<claims, granted, paid>> /\ attempts'[a].pc = "idle"
    BY <1>5, <1>14 DEF Crash
  <2>2. orders[o].status # "complete"
    BY <1>2 DEF StatusesAt
  <2> QED BY <1>7, <2>1, <2>2
<1> QED BY <1>8, <1>9, <1>10, <1>11, <1>12, <1>13, <1>14

\* The last transaction of settle() finds its order unresolved, and completes it
\* unless another order has the settlement.
LEMMA CreditOrderKeepsInv ==
  ASSUME TopUpsInv, NEW a \in Attempts, NEW at \in Times, CreditOrder(a, at)
  PROVE  TopUpsInv'
<1> DEFINE o == attempts[a].order
           p == attempts[a].proof
           tx == TxOf[p]
<1>1. TypesInv' /\ HandlerStep(a)
  BY InvTypes, HandleKeepsTypes, HandleIsStep DEF Handle
<1>2. /\ attempts[a].pc = "credit" /\ o \in Orders /\ p \in Proofs
      /\ orders[o].status = "settling" /\ orders[o].proof = p
      /\ p \in paid /\ paid' = paid
  BY HandlerTyped
     DEF CreditOrder, TopUpsInv, HandlerHoldsOrder, HandlerKnowsProof, StatusesAt, CreditFollowsPayment
<1>3. tx \in Transactions /\ tx \notin Proofs
  BY <1>2, TopUpsAssumption
<1>4. DOMAIN attempts = Attempts /\ DOMAIN orders = Orders /\ DOMAIN granted = Orders
      /\ DOMAIN claims = Proofs \cup Transactions
  BY DEF TopUpsInv, TopUpsTypeOK
<1>5. attempts'[a].pc = "idle"
  BY <1>4 DEF CreditOrder, Return, Idle
<1>6. ASSUME NEW q \in Orders
      PROVE  /\ orders'[q].proof = orders[q].proof
             /\ q # o => orders'[q] = orders[q]
  BY <1>1, InvTypes, StepKeepsRows
<1>7. CASE Claimed(tx, o)
  <2>1. /\ claims[tx] \in {Nobody, o}
        /\ claims' = [claims EXCEPT ![tx] = o]
        /\ Mark(o, "complete")
        /\ granted' = [granted EXCEPT ![o] = @ + 1]
    BY <1>2, <1>7 DEF CreditOrder, Claimed
  <2>2. orders'[o].status = "complete"
    <3>1. orders[o] \in [status : OrderStatuses, proof : Proofs \cup {Nobody}, leased : BOOLEAN]
      BY <1>2, OrderTyped DEF TopUpsInv
    <3> QED BY <1>2, <1>4, <2>1, <3>1 DEF Mark
  <2>3. \A q \in Proofs : claims'[q] = claims[q]
    BY <1>3, <1>4, <2>1
  <2>4. /\ HandlerHoldsOrder' /\ OneHandler' /\ ClaimsMatchOrders'
        /\ PaidIsHeld' /\ CreditFollowsPayment'
    BY <1>1, <1>2, <1>5, <2>2, <2>3, SoundStepKeepsHolds DEF SoundStep
  <2>5. granted[o] = 0 /\ granted'[o] = 1 /\ \A q \in Orders \ {o} : granted'[q] = granted[q]
    BY <1>2, <1>4, <2>1 DEF TopUpsInv, CreditedOnce
  <2>6. CreditedOnce'
    BY <1>6, <2>2, <2>5 DEF TopUpsInv, CreditedOnce
  <2>7. GrantedIsPaid'
    BY <1>2, <1>6, <2>5 DEF TopUpsInv, GrantedIsPaid
  <2>8. GrantHoldsTransaction'
    <3> SUFFICES ASSUME NEW q \in Orders, granted'[q] > 0
                 PROVE  claims'[TxOf[orders'[q].proof]] = q
      BY DEF GrantHoldsTransaction
    <3>1. claims'[tx] = o
      BY <1>3, <1>4, <2>1
    <3>2. CASE q = o
      BY <1>2, <1>6, <3>1, <3>2
    <3>3. CASE q # o
      <4>1. granted[q] > 0 /\ claims[TxOf[orders[q].proof]] = q
        BY <2>5, <3>3 DEF TopUpsInv, GrantHoldsTransaction
      <4>2. q # Nobody
        BY TopUpsAssumption
      <4>3. TxOf[orders[q].proof] # tx
        BY <2>1, <3>3, <4>1, <4>2
      <4>4. claims'[TxOf[orders[q].proof]] = claims[TxOf[orders[q].proof]]
        BY <2>1, <4>3
      <4> QED BY <1>6, <4>1, <4>4
    <3> QED BY <3>2, <3>3
  <2> QED BY <1>1, <2>4, <2>6, <2>7, <2>8 DEF TypesInv, TopUpsInv
<1>8. CASE ~Claimed(tx, o)
  <2>1. UNCHANGED <<claims, orders, granted>>
    BY <1>8 DEF CreditOrder
  <2> QED BY <1>1, <1>2, <1>5, <2>1, SoundStepKeepsInv DEF SoundStep
<1> QED BY <1>7, <1>8

\* An order that may be begun has no handler, and its proof is free or its own.
LEMMA BeginKeepsInv ==
  ASSUME TopUpsInv, NEW a \in Attempts, NEW o \in Orders, NEW p \in Proofs, NEW at \in Times,
         Begin(a, o, p, at)
  PROVE  TopUpsInv'
<1> DEFINE status == IF Retries(o) THEN "settling" ELSE "verifying"
           row == [status |-> status, proof |-> p, leased |-> TRUE]
           work == [pc |-> IF Retries(o) THEN "settle" ELSE "verify", order |-> o, proof |-> p]
<1>1. TypesInv'
  BY InvTypes, BeginKeepsTypes
<1>2. /\ orders' = [orders EXCEPT ![o] = row]
      /\ attempts' = [attempts EXCEPT ![a] = work]
      /\ claims' = [claims EXCEPT ![p] = o]
      /\ UNCHANGED <<paid, granted>>
      /\ attempts[a].pc = "idle" /\ orders[o].status # "complete" /\ ~Held(o)
      /\ orders[o].proof \in {Nobody, p} /\ claims[p] \in {Nobody, o}
  BY DEF Begin
<1>3. DOMAIN attempts = Attempts /\ DOMAIN orders = Orders /\ DOMAIN claims = Proofs \cup Transactions
  BY DEF TopUpsInv, TopUpsTypeOK
<1>4. /\ orders'[o] = row /\ \A q \in Orders \ {o} : orders'[q] = orders[q]
      /\ attempts'[a] = work /\ \A b \in Attempts \ {a} : attempts'[b] = attempts[b]
      /\ claims'[p] = o /\ \A c \in (Proofs \cup Transactions) \ {p} : claims'[c] = claims[c]
  BY <1>2, <1>3
<1>5. /\ row.status = status /\ row.proof = p /\ row.leased
      /\ work.order = o /\ work.proof = p /\ work.pc \in {"settle", "verify"}
      /\ status \in StatusesAt(work.pc) /\ status \in {"settling", "verifying"}
      /\ orders[o].status \in {"settling", "pending"} => status = "settling"
  BY DEF StatusesAt, Retries
<1> HIDE DEF row, work, status
<1>6. \A b \in Attempts : attempts[b].pc # "idle" => attempts[b].order # o
  BY <1>2 DEF TopUpsInv, HandlerHoldsOrder, StatusesAt, Held
<1>7. \A b \in Attempts : attempts[b].pc # "idle" => attempts[b].order \in Orders
  BY HandlerTyped DEF TopUpsInv
<1>8. \A b \in Attempts : attempts[b].pc = "idle" => attempts[b].order \notin Orders
  BY TopUpsAssumption DEF TopUpsInv, TopUpsTypeOK, Attempt, Idle, Steps
<1>9. HandlerHoldsOrder'
  <2> SUFFICES ASSUME NEW b \in Attempts, attempts'[b].pc # "idle"
               PROVE  /\ orders'[attempts'[b].order].status \in StatusesAt(attempts'[b].pc)
                      /\ orders'[attempts'[b].order].leased
    BY DEF HandlerHoldsOrder, StatusesAt
  <2>1. CASE b = a
    BY <1>4, <1>5, <2>1
  <2>2. CASE b # a
    BY <1>4, <1>6, <1>7, <2>2 DEF TopUpsInv, HandlerHoldsOrder
  <2> QED BY <2>1, <2>2
<1>10. OneHandler'
  BY <1>4, <1>5, <1>6, <1>7, <1>8 DEF TopUpsInv, OneHandler
<1>11. ClaimsMatchOrders'
  <2> SUFFICES ASSUME NEW q \in Proofs, NEW r \in Orders
               PROVE  claims'[q] = r <=> orders'[r].proof = q
    BY DEF ClaimsMatchOrders
  <2>1. claims[q] = r <=> orders[r].proof = q
    BY DEF TopUpsInv, ClaimsMatchOrders
  <2> QED BY <1>2, <1>4, <1>5, <2>1, TopUpsAssumption
<1>12. PaidIsHeld'
  <2> SUFFICES ASSUME NEW q \in paid
               PROVE  /\ claims'[q] \in Orders
                      /\ orders'[claims'[q]].status \in {"settling", "pending", "complete"}
    BY <1>2 DEF PaidIsHeld
  <2>1. /\ q \in Proofs /\ claims[q] \in Orders
        /\ orders[claims[q]].status \in {"settling", "pending", "complete"}
        /\ orders[claims[q]].proof = q
    BY DEF TopUpsInv, TopUpsTypeOK, PaidIsHeld, ClaimsMatchOrders
  <2>2. q = p \/ claims[q] # o
    BY <1>2, <2>1, TopUpsAssumption
  <2>3. CASE q = p
    BY <1>2, <1>4, <1>5, <2>1, <2>3, TopUpsAssumption
  <2>4. CASE q # p
    BY <1>4, <2>1, <2>2, <2>4
  <2> QED BY <2>3, <2>4
<1>13. CreditFollowsPayment'
  <2> SUFFICES ASSUME NEW b \in Attempts, attempts'[b].pc = "credit"
               PROVE  attempts'[b].proof \in paid
    BY <1>2 DEF CreditFollowsPayment
  <2>1. b # a
    BY <1>4, <1>5
  <2> QED BY <1>4, <2>1 DEF TopUpsInv, CreditFollowsPayment
<1>14. granted[o] = 0 /\ CreditedOnce'
  BY <1>2, <1>4, <1>5 DEF TopUpsInv, CreditedOnce
<1>15. GrantedIsPaid'
  BY <1>2, <1>4, <1>14 DEF TopUpsInv, GrantedIsPaid
<1>16. GrantHoldsTransaction'
  <2> SUFFICES ASSUME NEW q \in Orders, granted[q] > 0
               PROVE  claims'[TxOf[orders'[q].proof]] = q
    BY <1>2 DEF GrantHoldsTransaction
  <2>1. q # o /\ orders'[q] = orders[q] /\ claims[TxOf[orders[q].proof]] = q
    BY <1>4, <1>14 DEF TopUpsInv, GrantHoldsTransaction
  <2>2. orders[q].proof \in Proofs
    BY DEF TopUpsInv, TopUpsTypeOK, GrantedIsPaid
  <2>3. TxOf[orders[q].proof] \in Transactions \ {p}
    BY <2>2, TopUpsAssumption
  <2> QED BY <1>4, <2>1, <2>3
<1> QED BY <1>1, <1>9, <1>10, <1>11, <1>12, <1>13, <1>14, <1>15, <1>16 DEF TypesInv, TopUpsInv

\* Creation and pruning touch orders that nobody works on and nothing was paid for.
LEMMA OrdersKeepInv ==
  ASSUME ~Stalls, TopUpsInv, NEW o \in Orders,
         (\E at \in Times : Create(o, at)) \/ Lapse(o) \/ PruneOrder(o)
  PROVE  TopUpsInv'
<1>1. TypesInv'
  BY InvTypes, OrdersKeepTypes
<1>2. UNCHANGED <<attempts, paid, granted>>
  BY DEF Create, Lapse, PruneOrder
<1>3. DOMAIN orders = Orders /\ DOMAIN claims = Proofs \cup Transactions
  BY DEF TopUpsInv, TopUpsTypeOK
<1>4. \A a \in Attempts : attempts[a].pc # "idle" => attempts[a].order # o
  <2>1. CASE AtWork(o) = {}
    BY <2>1 DEF AtWork
  <2>2. CASE orders[o].status = "none"
    BY <2>2 DEF TopUpsInv, HandlerHoldsOrder, StatusesAt
  <2> QED BY <2>1, <2>2 DEF Create, Lapse, PruneOrder
<1>5. \A a \in Attempts : attempts[a].pc # "idle" => attempts[a].order \in Orders
  BY HandlerTyped DEF TopUpsInv
<1>6. \A q \in Orders \ {o} : orders'[q] = orders[q]
  BY <1>3 DEF Create, Lapse, PruneOrder
<1>7. HandlerHoldsOrder' /\ OneHandler' /\ CreditFollowsPayment'
  BY <1>2, <1>4, <1>5, <1>6
     DEF TopUpsInv, HandlerHoldsOrder, OneHandler, CreditFollowsPayment, StatusesAt
<1>8. CASE Lapse(o)
  <2>1. orders[o] \in [status : OrderStatuses, proof : Proofs \cup {Nobody}, leased : BOOLEAN]
    BY OrderTyped DEF TopUpsInv
  <2>2. /\ claims' = claims
        /\ orders'[o].status = orders[o].status /\ orders'[o].proof = orders[o].proof
    BY <1>3, <1>8, <2>1 DEF Lapse
  <2>3. \A q \in Orders : orders'[q].status = orders[q].status /\ orders'[q].proof = orders[q].proof
    BY <1>6, <2>2
  <2>4. ClaimsMatchOrders' /\ PaidIsHeld' /\ CreditedOnce' /\ GrantedIsPaid' /\ GrantHoldsTransaction'
    BY <1>2, <2>2, <2>3
       DEF TopUpsInv, ClaimsMatchOrders, PaidIsHeld, CreditedOnce, GrantedIsPaid, GrantHoldsTransaction
  <2> QED BY <1>1, <1>7, <2>4 DEF TypesInv, TopUpsInv
<1>9. CASE (\E at \in Times : Create(o, at)) \/ PruneOrder(o)
  <2>1. /\ orders[o].status \in {"none", "open", "rejected"}
        /\ orders'[o].status \in {"none", "open"} /\ orders'[o].proof = Nobody
    BY <1>3, <1>9 DEF Create, PruneOrder, NoOrder
  <2>2. ASSUME NEW c \in Proofs \cup Transactions, NEW q \in Orders \ {o}
        PROVE  claims'[c] = q <=> claims[c] = q
    BY <1>3, <1>9, TopUpsAssumption DEF Create, PruneOrder
  <2>3. ASSUME NEW p \in Proofs PROVE claims'[p] # o
    <3>1. CASE \E at \in Times : Create(o, at)
      <4>1. claims' = claims /\ orders[o].proof = Nobody
        BY <3>1, OrderTyped DEF Create, TopUpsInv
      <4> QED BY <4>1, TopUpsAssumption DEF TopUpsInv, ClaimsMatchOrders
    <3>2. CASE PruneOrder(o)
      BY <1>3, <3>2, TopUpsAssumption DEF PruneOrder
    <3> QED BY <1>9, <3>1, <3>2
  <2>4. ClaimsMatchOrders'
    BY <1>6, <2>1, <2>2, <2>3, TopUpsAssumption DEF TopUpsInv, ClaimsMatchOrders
  <2>5. PaidIsHeld'
    <3> SUFFICES ASSUME NEW p \in paid
                 PROVE  /\ claims'[p] \in Orders
                        /\ orders'[claims'[p]].status \in {"settling", "pending", "complete"}
      BY <1>2 DEF PaidIsHeld
    <3>1. /\ p \in Proofs /\ claims[p] \in Orders
          /\ orders[claims[p]].status \in {"settling", "pending", "complete"}
      BY DEF TopUpsInv, TopUpsTypeOK, PaidIsHeld
    <3>2. claims[p] \in Orders \ {o} /\ claims'[p] = claims[p]
      BY <2>1, <2>2, <3>1
    <3> QED BY <1>6, <3>1, <3>2
  <2>6. granted[o] = 0 /\ CreditedOnce'
    BY <1>2, <1>6, <2>1 DEF TopUpsInv, CreditedOnce
  <2>7. GrantedIsPaid'
    BY <1>2, <1>6, <2>6 DEF TopUpsInv, GrantedIsPaid
  <2>8. GrantHoldsTransaction'
    <3> SUFFICES ASSUME NEW q \in Orders, granted[q] > 0
                 PROVE  claims'[TxOf[orders'[q].proof]] = q
      BY <1>2 DEF GrantHoldsTransaction
    <3>1. q # o /\ orders'[q] = orders[q] /\ claims[TxOf[orders[q].proof]] = q
      BY <1>6, <2>6 DEF TopUpsInv, GrantHoldsTransaction
    <3>2. orders[q].proof \in Proofs
      BY DEF TopUpsInv, TopUpsTypeOK, GrantedIsPaid
    <3>3. TxOf[orders[q].proof] \in Transactions
      BY <3>2, TopUpsAssumption
    <3> QED BY <2>2, <3>1, <3>3
  <2> QED BY <1>1, <1>7, <2>4, <2>5, <2>6, <2>7, <2>8 DEF TypesInv, TopUpsInv
<1> QED BY <1>8, <1>9

\* Orders, claims and handlers agree after each step of settle() if they did before it.
THEOREM TopUpsInvInductive == ~Stalls /\ TopUpsInv /\ [TopUpsNext]_allVars => TopUpsInv'
<1> SUFFICES ASSUME ~Stalls, TopUpsInv, [TopUpsNext]_allVars PROVE TopUpsInv'
  OBVIOUS
<1>1. TypesInv'
  BY InvTypes, NextKeepsTypes
<1>2. CASE UNCHANGED topUpVars
  BY <1>1, <1>2
     DEF topUpVars, TypesInv, TopUpsInv, HandlerHoldsOrder, OneHandler, ClaimsMatchOrders, PaidIsHeld,
         CreditFollowsPayment, CreditedOnce, GrantedIsPaid, GrantHoldsTransaction, StatusesAt
<1>3. ASSUME NEW a \in Attempts, Handle(a) \/ Crash(a) PROVE TopUpsInv'
  BY <1>3, HandleKeepsInv, CreditOrderKeepsInv DEF Handle
<1> QED BY <1>2, <1>3, OrdersKeepInv, BeginKeepsInv DEF TopUpsNext, allVars

\* Orders, claims and handlers agree whatever handlers race, crash or retry.
THEOREM TopUpsInvHolds == ~Stalls /\ TopUpsSpec => []TopUpsInv
<1>1. ~Stalls => (TopUpsInv /\ [TopUpsNext]_allVars => TopUpsInv')
  BY TopUpsInvInductive
<1>2. CASE ~Stalls
  <2>1. TopUpsInv /\ [TopUpsNext]_allVars => TopUpsInv'
    BY <1>1, <1>2
  <2> QED BY <2>1, InitInv, PTL DEF TopUpsSpec
<1> QED BY <1>2

-----------------------------------------------------------------------------
\* Whatever retries, crashes and lost answers an order goes through, its credits
\* were added once if it is complete, and else never.
THEOREM CreditedOnceHolds == ~Stalls /\ TopUpsSpec => []CreditedOnce
<1>1. TopUpsInv => CreditedOnce
  BY DEF TopUpsInv
<1> QED BY <1>1, TopUpsInvHolds, PTL

\* The money of an order that was declined never moved.
THEOREM RejectedIsUnpaidHolds == ~Stalls /\ TopUpsSpec => []RejectedIsUnpaid
<1>1. TopUpsInv => RejectedIsUnpaid
  <2> SUFFICES ASSUME TopUpsInv, NEW o \in Orders, orders[o].status = "rejected",
                      orders[o].proof \in paid
               PROVE  FALSE
    BY DEF RejectedIsUnpaid
  <2>1. orders[o].proof \in Proofs
    BY DEF TopUpsInv, TopUpsTypeOK
  <2>2. claims[orders[o].proof] = o
    BY <2>1 DEF TopUpsInv, ClaimsMatchOrders
  <2> QED BY <2>2 DEF TopUpsInv, PaidIsHeld
<1> QED BY <1>1, TopUpsInvHolds, PTL

\* A transfer that was made stays with its order, which waits for the answer or
\* is complete: while an order is ambiguous, it can still be reconciled.
THEOREM PaidIsHeldHolds == ~Stalls /\ TopUpsSpec => []PaidIsHeld
<1>1. TopUpsInv => PaidIsHeld
  BY DEF TopUpsInv
<1> QED BY <1>1, TopUpsInvHolds, PTL

\* One transaction on a payment network pays for one order.
THEOREM PaymentFundsOneOrderHolds == ~Stalls /\ TopUpsSpec => []PaymentFundsOneOrder
<1>1. TopUpsInv => PaymentFundsOneOrder
  BY DEF TopUpsInv, GrantHoldsTransaction, PaymentFundsOneOrder
<1> QED BY <1>1, TopUpsInvHolds, PTL

\* No credits without their payment.
THEOREM GrantedIsPaidHolds == ~Stalls /\ TopUpsSpec => []GrantedIsPaid
<1>1. TopUpsInv => GrantedIsPaid
  BY DEF TopUpsInv
<1> QED BY <1>1, TopUpsInvHolds, PTL

-----------------------------------------------------------------------------
(***************************************************************************)
(* All that was bought comes from orders, with leases of any length.       *)
(***************************************************************************)
BoughtBy == [o \in Orders |-> granted[o] * Pack[o]]
AllFromOrders == bought = SumFunctionOnSet(BoughtBy, Orders)

\* Adding the credits of one order once more.
LEMMA GrantAdds ==
  ASSUME TypesInv, NEW o \in Orders, granted' = [granted EXCEPT ![o] = @ + 1]
  PROVE  SumFunctionOnSet(BoughtBy', Orders) = SumFunctionOnSet(BoughtBy, Orders) + Pack[o]
<1>1. \A q \in Orders : granted[q] \in Nat /\ granted'[q] \in Nat /\ Pack[q] \in Nat
  <2>1. \A q \in Orders : granted[q] \in Nat /\ granted'[q] \in Nat
    BY DEF TypesInv, TopUpsTypeOK
  <2>2. \A q \in Orders : Pack[q] \in Nat
    BY CreditsAssumption, TopUpsAssumption
  <2> QED BY <2>1, <2>2
<1>2. \A g, p \in Nat : g * p \in Int /\ (g + 1) * p = g * p + p
  OBVIOUS
<1>3. \A q \in Orders : BoughtBy[q] \in Int /\ BoughtBy'[q] \in Int
  BY <1>1, <1>2 DEF BoughtBy
<1>4. \A q \in Orders \ {o} : BoughtBy[q] = BoughtBy'[q]
  BY DEF BoughtBy, TypesInv, TopUpsTypeOK
<1>5. BoughtBy'[o] = BoughtBy[o] + Pack[o]
  <2>1. granted'[o] = granted[o] + 1
    BY DEF TypesInv, TopUpsTypeOK
  <2>2. (granted[o] + 1) * Pack[o] = granted[o] * Pack[o] + Pack[o]
    BY <1>1, <1>2
  <2> QED BY <2>1, <2>2 DEF BoughtBy
<1>6. IsFiniteSet(Orders)
  BY TopUpsAssumption
<1>7. SumFunctionOnSet(BoughtBy', Orders) =
        SumFunctionOnSet(BoughtBy, Orders) - BoughtBy[o] + BoughtBy'[o]
  BY <1>3, <1>4, <1>6, SumUpdate
<1>8. SumFunctionOnSet(BoughtBy, Orders) \in Int
  BY <1>3, <1>6, SumInt
<1> QED BY <1>1, <1>3, <1>5, <1>7, <1>8

LEMMA NextKeepsFromOrders ==
  ASSUME TypesInv, AllFromOrders, [TopUpsNext]_allVars
  PROVE  AllFromOrders'
<1>1. CASE bought' = bought /\ granted' = granted
  <2>1. BoughtBy' = BoughtBy
    BY <1>1 DEF BoughtBy
  <2>2. SumFunctionOnSet(BoughtBy', Orders) = SumFunctionOnSet(BoughtBy, Orders)
    BY <2>1, Zenon
  <2> QED BY <1>1, <2>2 DEF AllFromOrders
<1>2. ASSUME NEW a \in Attempts, NEW at \in Times, CreditOrder(a, at) PROVE AllFromOrders'
  <2> DEFINE o == attempts[a].order
             tx == TxOf[attempts[a].proof]
  <2>1. o \in Orders
    BY <1>2, HandlerTyped DEF CreditOrder, TypesInv
  <2>2. CASE Claimed(tx, o) /\ orders[o].status # "complete"
    <3>1. granted' = [granted EXCEPT ![o] = @ + 1] /\ bought' = bought + Pack[o]
      BY <1>2, <2>2 DEF CreditOrder, Credit
    <3> HIDE DEF o
    <3>2. SumFunctionOnSet(BoughtBy', Orders) = SumFunctionOnSet(BoughtBy, Orders) + Pack[o]
      BY <2>1, <3>1, GrantAdds
    <3> QED BY <3>1, <3>2 DEF AllFromOrders
  <2>3. CASE ~ (Claimed(tx, o) /\ orders[o].status # "complete")
    BY <1>1, <1>2, <2>3 DEF CreditOrder, balance, creditsVars
  <2> QED BY <2>2, <2>3
<1>3. ASSUME NEW a \in Attempts, Handle(a) \/ Crash(a) PROVE AllFromOrders'
  BY <1>1, <1>2, <1>3
     DEF Handle, Verify, Reject, Proceed, SettleOk, SettleFails, Pend, Crash, creditsVars
<1>4. CASE UseCredits /\ UNCHANGED topUpVars
  BY <1>1, <1>4
     DEF UseCredits, Midnight, balance, reserve, complete, refund, claim, forget, topUpVars
<1>5. ASSUME NEW o \in Orders, (\E at \in Times : Create(o, at)) \/ Lapse(o) \/ PruneOrder(o)
      PROVE  AllFromOrders'
  BY <1>1, <1>5 DEF Create, Lapse, PruneOrder, creditsVars
<1>6. ASSUME NEW a \in Attempts, NEW o \in Orders, NEW p \in Proofs, NEW at \in Times,
             Begin(a, o, p, at)
      PROVE  AllFromOrders'
  BY <1>1, <1>6 DEF Begin
<1>7. CASE UNCHANGED allVars
  BY <1>1, <1>7 DEF allVars, topUpVars
<1> QED BY <1>3, <1>4, <1>5, <1>6, <1>7 DEF TopUpsNext

LEMMA InitFromOrders == TopUpsInit => AllFromOrders
<1> SUFFICES ASSUME TopUpsInit PROVE AllFromOrders
  OBVIOUS
<1>1. bought = 0 /\ \A o \in Orders : granted[o] = 0 /\ Pack[o] \in Nat
  BY CreditsAssumption, TopUpsAssumption DEF TopUpsInit, CreditsInit
<1>2. \A p \in Nat : 0 * p = 0
  OBVIOUS
<1>3. \A o \in Orders : BoughtBy[o] = 0
  BY <1>1, <1>2 DEF BoughtBy
<1>4. SumFunctionOnSet(BoughtBy, Orders) = 0
  BY <1>3, TopUpsAssumption, SumZero
<1> QED BY <1>1, <1>4 DEF AllFromOrders

\* Every credit ever added was added for an order, as often as the order was granted.
THEOREM BoughtFromOrders == TopUpsSpec => []AllFromOrders
BY InitTypes, NextKeepsTypes, InitFromOrders, NextKeepsFromOrders, PTL DEF TopUpsSpec

\* No credits without their payment, and all that was bought comes from orders.
THEOREM CreditsArePaidHolds == ~Stalls /\ TopUpsSpec => []CreditsArePaid
<1>1. AllFromOrders /\ GrantedIsPaid => CreditsArePaid
  BY DEF AllFromOrders, BoughtBy, CreditsArePaid
<1> QED BY <1>1, BoughtFromOrders, GrantedIsPaidHolds, PTL

\* What an account can spend, holds and has spent is what completed orders paid for.
THEOREM AccountIsPaidFor ==
  TopUpsSpec => [](acct.paid + spent + SumFunctionOnSet(PaidOf, Charged) =
                     SumFunctionOnSet(BoughtBy, Orders))
<1>1. AllFromOrders /\ CreditsConserved =>
        acct.paid + spent + SumFunctionOnSet(PaidOf, Charged) = SumFunctionOnSet(BoughtBy, Orders)
  BY DEF AllFromOrders, CreditsConserved
<1> QED BY <1>1, BoughtFromOrders, TopUpsImplementCredits, CreditsConservedHolds, PTL
=============================================================================

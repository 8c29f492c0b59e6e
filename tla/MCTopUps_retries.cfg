CONSTANTS
  r1 = r1
  o1 = o1
  o2 = o2
  p1 = p1
  p2 = p2
  p3 = p3
  t1 = t1
  t2 = t2
  a1 = a1
  a2 = a2
  none = none
  Requests = {r1}
  Jobs = {}
  Price <- Prices
  FreeMonth = 1
  FreeDay = 1
  Packs = {1, 2}
  LastDay = 1
  MonthOf <- OneMonth
  Late = 0
  MaxBought = 6
  Orders = {o1, o2}
  Proofs = {p1, p2, p3}
  Attempts = {a1, a2}
  Transactions = {t1, t2}
  TxOf <- SharedTransaction
  Pack <- TwoPacks
  Nobody = none
  Stalls = FALSE
SPECIFICATION FairTopUpsSpec
INVARIANTS
  TopUpsTypeOK
  CreditedOnce
  CreditsArePaid
  RejectedIsUnpaid
  PaymentFundsOneOrder
PROPERTIES
  CreditsSpec
  PaidIsCredited

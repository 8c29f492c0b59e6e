CONSTANTS
  r1 = r1
  r2 = r2
  job = job
  Requests = {r1, r2, job}
  Jobs = {job}
  Price <- Prices
  FreeMonth = 3
  FreeDay = 2
  Packs = {2}
  LastDay = 3
  MonthOf <- TwoDayMonths
  Late = 0
  MaxBought = 4
SPECIFICATION FairCreditsSpec
INVARIANTS
  CreditsConserved
  FreeUseExact
  RefundNeverBlocked
PROPERTIES
  ReservationsEnd

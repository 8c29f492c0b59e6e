CONSTANTS
  s1 = s1
  s2 = s2
  s3 = s3
  s4 = s4
  m1 = m1
  m2 = m2
  m3 = m3
  Signals = {s1, s2, s4}
  Exits = {e1, e2}
  Mints = {m1, m2}
  MintOf <- MCMintOf
  Mode = "live"
  InitialUsdc = 6
  InitialSol = 3
  EntryUsdc = 2
  MaxPositions = 3
  MaxExposure = 5
  MinSol = 1
  MaxFee = 1
  Amounts = {1, 2}
  Fees = {1}
  GasCosts = {1}
SPECIFICATION BooksSpec
INVARIANTS
  LedgerExplainsAccount

CONSTANTS
  m1 = m1
  m2 = m2
  s2 = s2
  Signals = {s1, s2}
  Exits = {e1}
  Mints = {m1, m2}
  MintOf <- TwoTokens
  Mode = "live"
  InitialUsdc = 4
  InitialSol = 4
  EntryUsdc = 2
  MaxPositions = 2
  MaxExposure = 4
  MinSol = 1
  MaxFee = 1
  Amounts = {2}
  Fees = {1}
  GasCosts = {1}
  Workers = {w1}
  Free = Free
  Nobody = Nobody
  Lagging = FALSE
  LastSlot = 3
  LastExpiry = 2
  Window = 2
  Results = {"ok", "err", "odd"}
  MaxFaults = 0
SPECIFICATION LiveSpec
INVARIANTS
  LiveTypeOK
  BooksMatchWallet
  LandedIsBookable
  SavedBeforeSent
PROPERTIES
  BuysAreSignedAlone

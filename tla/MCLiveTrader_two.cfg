CONSTANTS
  m1 = m1
  m2 = m2
  s2 = s2
  Signals = {s1}
  Exits = {e1}
  Mints = {m1}
  MintOf <- OneToken
  Mode = "live"
  InitialUsdc = 3
  InitialSol = 4
  EntryUsdc = 2
  MaxPositions = 1
  MaxExposure = 3
  MinSol = 1
  MaxFee = 1
  Amounts = {2}
  Fees = {1}
  GasCosts = {1}
  Workers = {w1, w2}
  Free = Free
  Nobody = Nobody
  Lagging = FALSE
  LastSlot = 2
  LastExpiry = 2
  Window = 1
  Results = {"ok", "odd"}
  MaxFaults = 1
SPECIFICATION LiveSpec
INVARIANTS
  SettledAsLanded
PROPERTIES
  BooksSpec
SYMMETRY WorkerSymmetry

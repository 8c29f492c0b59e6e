CONSTANTS
  m1 = m1
  m2 = m2
  s2 = s2
  Signals = {s1}
  Exits = {e1}
  Mints = {m1}
  MintOf <- OneToken
  Mode = "live"
  InitialUsdc = 3
  InitialSol = 4
  EntryUsdc = 2
  MaxPositions = 1
  MaxExposure = 3
  MinSol = 1
  MaxFee = 1
  Amounts = {2}
  Fees = {1}
  GasCosts = {1}
  Workers = {w1}
  Free = Free
  Nobody = Nobody
  Lagging = TRUE
  LastSlot = 3
  LastExpiry = 2
  Window = 2
  Results = {"ok", "err", "odd"}
  MaxFaults = 0
SPECIFICATION LiveSpec
INVARIANTS
  ReleasedNeverLanded

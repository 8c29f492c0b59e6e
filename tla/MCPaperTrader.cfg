CONSTANTS
  s1 = s1
  s2 = s2
  s3 = s3
  s4 = s4
  m1 = m1
  m2 = m2
  m3 = m3
  Signals = {s1, s2, s3, s4}
  e1 = e1
  e2 = e2
  Exits = {e1, e2}
  Mints = {m1, m2, m3}
  MintOf <- MCMintOf
  Mode = "paper"
  InitialUsdc = 6
  InitialSol = 6
  EntryUsdc = 2
  MaxPositions = 2
  MaxExposure = 6
  MinSol = 2
  MaxFee = 2
  Amounts = {2, 3}
  Fees = {1}
  GasCosts = {1}
  DailyLoss = 3
  MaxDrawdown = 5000
  NoItem = NoItem
SPECIFICATION AccountSpec
INVARIANTS
  PaperTypeOK
  ReservationExact
  LimitsHold
  OneStakePerMint
  ExitsMatchPositions
  SettlementNeverBlocked
PROPERTIES
  SettlementsAreFinal
  EntriesNeedMarks
  AlarmsAreReal
  TraderExits

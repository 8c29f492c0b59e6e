CONSTANTS
  p1 = p1
  p2 = p2
  p3 = p3
  s1 = s1
  s2 = s2
  r1 = r1
  r2 = r2
  q1 = q1
  q2 = q2
  b1 = b1
  b2 = b2
  w1 = w1
  w2 = w2
  i1 = i1
  i2 = i2
  x1 = x1
  x2 = x2
  x3 = x3
  x4 = x4
  n1 = n1
  n2 = n2
  n3 = n3
  k1 = k1
  k2 = k2
  k3 = k3
  k4 = k4
  k5 = k5
  o1 = o1
  o2 = o2
  d1 = d1
  g1 = g1
  Posts = {p1, p2, p3}
  Mirrored = {p1}
  Perishable = {p1}
  Senders = {s1, s2}
  ChannelLimit = 1
  NoPost = NoPost
  Jobs = {j1}
  Runners = {r1, r2}
  AnswerOf <- AnswerPost
  MaxProgress = 1
  Nobody = Nobody
  Coins = {coin}
  Renderers = {q1, q2}
  MaxRequests = 3
  NoToken = NoToken
  Calls = {c1, c2}
  CreditLimit = 4
  OtherLimit = 3
  WalletLimit = 3
  PageCredits = 2
  PageCosts = {1}
  Wallets = {wallet}
  Readers = {b1, b2}
  NoReader = NoReader
  Length <- ThreePages
  Reports = {report}
  Workers = {w1, w2}
  MaxStops = 1
  NoReport = NoReport
  Nodes = {n1, n2, n3}
  Rotations = {k1, k2, k3, k4, k5}
  OldOf <- Olds
  NewOf <- News
  SequenceOf <- Seqs
  Claims <- FourClaims
  Issuers = {i1, i2}
  NoClaim = NoClaim
  Horizon = 7
  Skew = 1
  Retention = 4
  MaxClaims = 2
  MaxControls = 1
  ClaimsPerWindow = 1
  Tokens = {token}
  Opens = {o1, o2}
  Closes = {d1}
  Legacy = {g1}
  PriceAt <- PricesOf
  MaxQuotes = 2
  MaxDays = 1
SPECIFICATION PartsSpec
INVARIANTS
  RowsFit
  StakesKept
  PostsTruthful
  ReplayUpToDate
  BudgetKept
  NothingLost
  ContinuityAgrees
  WithdrawnStays
PROPERTIES
  WorkIsLeased
  WorkEnds
CHECK_DEADLOCK FALSE

CONSTANTS
  Reports = {report}
  Workers = {w1, w2}
  MaxStops = 1
  NoReport = NoReport
SPECIFICATION HeardSpec
INVARIANT ChargedAsTold
CHECK_DEADLOCK FALSE

CONSTANTS
  m1 = m1
  m2 = m2
  Mints <- MCMints
  None = None
  Weights = {0, 29, 50, 70, 71, 72, 100}
  Balances = {0, 29, 71}
  Prices = {1000000, 1500000}
  Thresholds = {0, 1, 4200}
  TradeLimits = {1, 60, 61}
  WeightLimits = {70, 100}
  PositionSizeLimit = 60
SPECIFICATION Spec
INVARIANTS RebalanceTypeOK VerdictExplained NoOvershoot
CHECK_DEADLOCK FALSE
SYMMETRY MCSymmetry

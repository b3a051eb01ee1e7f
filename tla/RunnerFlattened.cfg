CONSTANTS
  None = None
  Mints = {m1, m2}
  Required = {m1}
  IterationBudget = 2
  MaxInvalid = 1
  ChallengeQuoteAge = 2
  QuoteMaxAge = 1
  MaxPieces = 2
SPECIFICATION Spec
INVARIANT CompleteMeansFlattened
CHECK_DEADLOCK FALSE

CONSTANTS
  None = None
  Agents = {a1, a2, a3}
  ChallengeIds = {c1, c2}
  ThisChallenge = c1
  Capacity = 3
  InputLists <- MCInputLists
  EnrolledCounts = {1, 2, 3}
SPECIFICATION Spec
INVARIANT SettledByRule
CHECK_DEADLOCK FALSE

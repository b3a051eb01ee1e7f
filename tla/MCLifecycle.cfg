CONSTANTS
  AgentIds <- MCAgentIds
  None = None
  Signers = {s1}
  Authority = s1
  Challenges = {c1}
  MaxContestants = 2
  Balances = {7, 8}
  Completions = {"complete", "invalid"}
  MaxTime = 1
  Requests = {q1, q2}
  Alpha = 1
  Beta = 2
  WinnerEnding = 8
  LoserEnding = 7
  MaxSubmissions = 3
SPECIFICATION LifecycleSpec
INVARIANTS LifecycleTypeOK RowsBehindChain ResultsAgree SettledOnce InStepWithoutFaults
INVARIANTS SuccessMeansSettled ScriptBehindChain
CHECK_DEADLOCK FALSE
SYMMETRY MCSymmetry
